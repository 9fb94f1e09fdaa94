---------------------------- MODULE QueueChecker ----------------------------
(***************************************************************************)
(* How the queue checker of a network is started and stopped               *)
(* (pollqueue/poll_manager.go, pollqueue/queue_loader.go, pkg/app.go): a   *)
(* goroutine that waits on a ticker and on an unbuffered cancel channel,   *)
(* both of which it looks up in fields of the poll manager each time       *)
(* around.  What a check does to the queue is the matter of PollManager.   *)
(*                                                                         *)
(* The handlers of one network are called one after the other.             *)
(***************************************************************************)
EXTENDS Naturals, Sequences, FiniteSets

CONSTANTS Id,    \* tickers and channels: one of each is made by every start
          Nil

ASSUME NilIsNone == Nil \notin Id

VARIABLES enable,    \* pm.Enable
          timer,     \* pm.QueueCheckerTimer
          channel,   \* pm.QueueCheckerCancelChannel
          running,   \* tickers that have not been stopped
          ticks,     \* tickers whose channel holds a tick
          checkers,  \* the goroutines: their id |-> what they are at
          todo,      \* what the handler that was called has still to do
          alive      \* FALSE: the process has dereferenced nil

vars == <<enable, timer, channel, running, ticks, checkers, todo, alive>>

\* A goroutine is on its way to the select statement, waits in it with the channels
\* it has evaluated, or checks the queue.
State == [at : {"loop", "select", "check"}, channel : Id \cup {Nil}, timer : Id \cup {Nil}]
Loop == [at |-> "loop", channel |-> Nil, timer |-> Nil]

Steps == {"stop", "send", "clear", "fetch", "start", "resend", "make"}

Init ==
    /\ enable = FALSE /\ alive = TRUE
    /\ timer = Nil /\ channel = Nil
    /\ running = {} /\ ticks = {}
    /\ checkers = <<>>
    /\ todo = <<>>

At(step) == alive /\ todo # <<>> /\ Head(todo) = step
-----------------------------------------------------------------------------
\* StartPolling; RebuildPollingQueue begins with a StopPolling.
Starting == <<"stop", "fetch", "start">>

Call(steps) ==
    /\ alive /\ todo = <<>>
    /\ todo' = steps
    /\ UNCHANGED <<enable, timer, channel, running, ticks, checkers, alive>>

\* updateNetwork; Disable, deleteNetwork and initiatePolling call the same two.
DisableNetwork == enable /\ Call(<<"stop">>)
EnableNetwork  == ~enable /\ Call(Starting)
RestartPolling == Call(<<"stop">> \o Starting)

\* Mutant of StopPolling: the checker is left to be stopped by the next start.
StopPollingOnly ==
    /\ At("stop")
    /\ enable' = FALSE
    /\ todo' = Tail(todo)
    /\ UNCHANGED <<timer, channel, running, ticks, checkers, alive>>

\* Mutant of StopPolling: the ticker is forgotten and the checker is not told.
StopPollingUntold ==
    /\ At("stop")
    /\ enable' = FALSE
    /\ running' = running \ {timer} /\ timer' = Nil
    /\ todo' = Tail(todo)
    /\ UNCHANGED <<channel, ticks, checkers, alive>>

\* StopPolling, up to the send of StopQueueCheckerAndStats.
StopPolling ==
    /\ At("stop")
    /\ enable' = FALSE
    /\ \/ /\ timer # Nil /\ channel # Nil
          /\ running' = running \ {timer}
          /\ timer' = Nil
          /\ todo' = <<"send">> \o Tail(todo)
       \/ /\ timer = Nil \/ channel = Nil
          /\ todo' = Tail(todo)
          /\ UNCHANGED <<running, timer>>
    /\ UNCHANGED <<channel, ticks, checkers, alive>>

\* A send on the cancel channel meets the goroutine that waits for it, which returns.
Cancel(g) ==
    /\ At("send") \/ At("resend")
    /\ checkers[g].at = "select" /\ checkers[g].channel = channel /\ channel # Nil
    /\ checkers' = [h \in DOMAIN checkers \ {g} |-> checkers[h]]
    /\ todo' = <<IF At("send") THEN "clear" ELSE "make">> \o Tail(todo)
    /\ UNCHANGED <<enable, timer, channel, running, ticks, alive>>

\* Mutant of ClearChannel: the channel is kept, and the next start sends on it.
ClearChannelNot ==
    /\ At("clear")
    /\ todo' = Tail(todo)
    /\ UNCHANGED <<enable, timer, channel, running, ticks, checkers, alive>>

ClearChannel ==
    /\ At("clear")
    /\ channel' = Nil
    /\ todo' = Tail(todo)
    /\ UNCHANGED <<enable, timer, running, ticks, checkers, alive>>

\* The rest of RebuildPollingQueue; its error is dropped.
FetchNetwork ==
    /\ At("fetch")
    /\ todo' = Tail(todo)
    /\ UNCHANGED <<enable, timer, channel, running, ticks, checkers, alive>>

\* StartPolling after the rebuild, up to the send of StartQueueCheckerAndStats.
StartPolling ==
    /\ At("start")
    /\ enable' = TRUE
    /\ running' = running \ {timer}
    /\ todo' = <<IF channel # Nil THEN "resend" ELSE "make">> \o Tail(todo)
    /\ UNCHANGED <<timer, channel, ticks, checkers, alive>>

\* Tickers, channels and goroutines that something still refers to.
InUse == running \cup {timer, channel} \cup DOMAIN checkers
           \cup UNION {{checkers[g].channel, checkers[g].timer} : g \in DOMAIN checkers}

\* A new ticker, a new channel and a new goroutine.
MakeChecker ==
    /\ At("make")
    /\ \E id \in Id \ InUse :
          /\ timer' = id /\ channel' = id
          /\ ticks' = ticks \ {id}
          /\ running' = running \cup {id}
          /\ checkers' = [g \in DOMAIN checkers \cup {id} |->
                             IF g = id THEN Loop ELSE checkers[g]]
    /\ todo' = Tail(todo)
    /\ UNCHANGED <<enable, alive>>
-----------------------------------------------------------------------------
\* A ticker that is not stopped ticks; a tick that is not taken is dropped.
Tick(t) ==
    /\ alive /\ t \in running \ ticks
    /\ ticks' = ticks \cup {t}
    /\ UNCHANGED <<enable, timer, channel, running, checkers, todo, alive>>

\* The operands of the select statement are evaluated.
Select(g) ==
    /\ alive /\ checkers[g].at = "loop" /\ timer # Nil
    /\ checkers' = [checkers EXCEPT ![g] =
                       [at |-> "select", channel |-> channel, timer |-> timer]]
    /\ UNCHANGED <<enable, timer, channel, running, ticks, todo, alive>>

\* ... and pm.QueueCheckerTimer is nil.
SelectPanics(g) ==
    /\ alive /\ checkers[g].at = "loop" /\ timer = Nil
    /\ alive' = FALSE
    /\ UNCHANGED <<enable, timer, channel, running, ticks, checkers, todo>>

\* A tick is taken; PollQueueErrorChecking begins.
Check(g) ==
    /\ alive /\ checkers[g].at = "select" /\ checkers[g].timer \in ticks
    /\ ticks' = ticks \ {checkers[g].timer}
    /\ checkers' = [checkers EXCEPT ![g].at = "check"]
    /\ UNCHANGED <<enable, timer, channel, running, todo, alive>>

CheckEnds(g) ==
    /\ alive /\ checkers[g].at = "check"
    /\ checkers' = [checkers EXCEPT ![g] = Loop]
    /\ UNCHANGED <<enable, timer, channel, running, ticks, todo, alive>>

\* The process is started anew: initiatePolling starts the network.
Restart ==
    /\ ~alive
    /\ enable' = FALSE /\ alive' = TRUE
    /\ timer' = Nil /\ channel' = Nil
    /\ running' = {} /\ ticks' = {}
    /\ checkers' = <<>>
    /\ todo' = Starting

Handler == \/ StopPolling \/ ClearChannel \/ FetchNetwork \/ StartPolling \/ MakeChecker
           \/ \E g \in DOMAIN checkers : Cancel(g)
Checker(g) == g \in DOMAIN checkers /\ (Select(g) \/ SelectPanics(g) \/ Check(g) \/ CheckEnds(g))

Next == \/ DisableNetwork \/ EnableNetwork \/ RestartPolling
        \/ Handler
        \/ \E g \in DOMAIN checkers : Checker(g)
        \/ \E t \in running : Tick(t)
        \/ Restart

Spec == Init /\ [][Next]_vars

\* A handler and a goroutine that can go on do; a check, which asks the host, ends.
FairSpec == Spec /\ WF_vars(Handler) /\ \A g \in Id : WF_vars(Checker(g))
-----------------------------------------------------------------------------
\* Between two calls, a network that is polled has exactly one checker, which waits on
\* the ticker and the channel of the manager, and one that is not polled has neither
\* a checker nor a ticker left behind (poll_manager.go:209, poll_manager.go:232).
OneChecker ==
    alive /\ todo = <<>> =>
        IF enable
        THEN /\ timer # Nil /\ running = {timer} /\ channel # Nil
             /\ \E g \in Id :
                   /\ DOMAIN checkers = {g}
                   /\ checkers[g].at = "select" =>
                        checkers[g].channel = channel /\ checkers[g].timer = timer
        ELSE running = {} /\ DOMAIN checkers = {} /\ timer = Nil /\ channel = Nil

\* Every call comes back, though it hands over to a goroutine that may be at work,
\* or else the process dies (poll_manager.go:235).
CallsReturn == (todo # <<>>) ~> (todo = <<>> \/ ~alive)

\* The checker, which looks up the manager's ticker each time around, finds it nil only
\* while a stop waits to cancel the checker: a call that has returned kills nobody
\* (poll_manager.go:65, poll_manager.go:224).
DiesStoppingOnly == ~alive => todo # <<>> /\ Head(todo) = "send"
=============================================================================
