------------------------- MODULE QueueCheckerProofs -------------------------
(***************************************************************************)
(* One checker per polled network, for any number of starts and stops and  *)
(* however a check, which asks the host, is drawn out.                     *)
(***************************************************************************)
EXTENDS QueueChecker, SequenceTheorems, TLAPS

\* Nothing of a checker is left.
Stopped == timer = Nil /\ channel = Nil /\ running = {} /\ DOMAIN checkers = {}

\* The goroutine waits, if it waits, on the channel of the manager.
Attached(g) ==
    /\ DOMAIN checkers = {g} /\ checkers[g] \in State
    /\ checkers[g].at # "loop" => checkers[g].channel = g /\ checkers[g].timer = g

Watched == /\ timer \in Id /\ channel = timer
           /\ running = {timer} /\ Attached(timer)

\* In the middle of StopQueueCheckerAndStats.
Sending  == timer = Nil /\ channel \in Id /\ running = {} /\ Attached(channel)
Clearing == timer = Nil /\ running = {} /\ DOMAIN checkers = {}

\* What holds when a step of a handler is next; between calls, what a polled and an
\* unpolled network have.
Whole == IF enable THEN Watched ELSE Stopped
Before(step) ==
    /\ step = "stop" => Whole
    /\ step = "send" => ~enable /\ Sending
    /\ step = "clear" => ~enable /\ Clearing
    /\ step \in {"fetch", "start"} => ~enable /\ Stopped
    /\ step = "make" => enable /\ Stopped
    /\ step # "resend"

\* Only the first step may be the second half of one; a start comes last.
Shape(t) ==
    /\ t \in Seq(Steps)
    /\ \A i \in 2 .. Len(t) : t[i] \in {"stop", "fetch", "start"}
    /\ \A i \in 1 .. Len(t) : t[i] \in {"start", "make"} => i = Len(t)

IInv ==
    /\ enable \in BOOLEAN /\ alive \in BOOLEAN
    /\ Shape(todo)
    /\ alive => IF todo = <<>> THEN Whole ELSE Before(Head(todo))

-----------------------------------------------------------------------------
\* Lists of steps.
LEMMA ShapeTail ==
    ASSUME NEW t, Shape(t), t # <<>>
    PROVE  /\ Shape(Tail(t))
           /\ Tail(t) # <<>> => Head(Tail(t)) \in {"stop", "fetch", "start"}
           /\ Head(t) \in {"start", "make"} => Tail(t) = <<>>
<1> DEFINE q == Tail(t)
<1>1. /\ Len(t) \in Nat /\ Len(t) > 0 /\ Head(t) = t[1]
      /\ q \in Seq(Steps) /\ Len(q) = Len(t) - 1
      /\ \A i \in 1 .. Len(q) : q[i] = t[i + 1]
  BY HeadTailProperties, EmptySeq DEF Shape
<1> HIDE DEF q
<1>2. q # <<>> => Len(q) > 0
  BY <1>1, EmptySeq
<1>3. ASSUME NEW i \in 2 .. Len(q)
      PROVE  q[i] \in {"stop", "fetch", "start"}
  <2>1. i + 1 \in 2 .. Len(t) /\ i \in 1 .. Len(q)
    BY <1>1
  <2> QED
    BY <1>1, <2>1 DEF Shape
<1>4. ASSUME NEW i \in 1 .. Len(q), q[i] \in {"start", "make"}
      PROVE  i = Len(q)
  <2>1. i + 1 \in 1 .. Len(t) /\ t[i + 1] \in {"start", "make"}
    BY <1>1, <1>4
  <2>2. i + 1 = Len(t)
    BY <2>1 DEF Shape
  <2> QED
    BY <1>1, <2>2
<1>5. ASSUME q # <<>>
      PROVE  Head(q) \in {"stop", "fetch", "start"}
  <2>1. /\ Len(q) > 0 /\ Head(q) = q[1]
    BY <1>1, <1>2, <1>5
  <2>2. q[1] = t[2] /\ 2 \in 2 .. Len(t)
    BY <1>1, <2>1
  <2> QED
    BY <2>1, <2>2 DEF Shape
<1>6. ASSUME Head(t) \in {"start", "make"}
      PROVE  q = <<>>
  <2>1. 1 \in 1 .. Len(t) /\ t[1] \in {"start", "make"}
    BY <1>1, <1>6
  <2>2. Len(t) = 1
    BY <2>1 DEF Shape
  <2> QED
    BY <1>1, <1>2, <2>2
<1> QED
  BY <1>1, <1>3, <1>4, <1>5, <1>6 DEF Shape, q

LEMMA ShapeReplaceHead ==
    ASSUME NEW t, Shape(t), t # <<>>, NEW s \in Steps,
           s \in {"start", "make"} => Head(t) \in {"start", "make"}
    PROVE  /\ Shape(<<s>> \o Tail(t))
           /\ <<s>> \o Tail(t) # <<>> /\ Head(<<s>> \o Tail(t)) = s
<1> DEFINE u == <<s>> \o Tail(t)
<1>1. /\ Len(t) \in Nat /\ Len(t) > 0 /\ Head(t) = t[1]
      /\ Tail(t) \in Seq(Steps) /\ Len(Tail(t)) = Len(t) - 1
      /\ \A i \in 1 .. Len(Tail(t)) : Tail(t)[i] = t[i + 1]
  BY HeadTailProperties, EmptySeq DEF Shape
<1>2. /\ u \in Seq(Steps) /\ Len(u) = Len(t)
      /\ u[1] = s /\ \A i \in 2 .. Len(u) : u[i] = t[i]
  <2>1. <<s>> \in Seq(Steps) /\ Len(<<s>>) = 1 /\ <<s>>[1] = s
    OBVIOUS
  <2> QED
    BY <1>1, <2>1, ConcatProperties
<1>3. u # <<>> /\ Head(u) = u[1]
  BY <1>1, <1>2, EmptySeq
<1> HIDE DEF u
<1>4. Shape(u)
  <2>1. ASSUME NEW i \in 2 .. Len(u)
        PROVE  u[i] \in {"stop", "fetch", "start"}
    <3>1. i \in 2 .. Len(t) /\ u[i] = t[i]
      BY <1>2
    <3> QED
      BY <3>1 DEF Shape
  <2>2. ASSUME NEW i \in 1 .. Len(u), u[i] \in {"start", "make"}
        PROVE  i = Len(u)
    <3>1. CASE i = 1
      <4>1. 1 \in 1 .. Len(t) /\ t[1] \in {"start", "make"}
        BY <1>1, <1>2, <2>2, <3>1
      <4> QED
        BY <1>2, <3>1, <4>1 DEF Shape
    <3>2. CASE i # 1
      <4>1. i \in 2 .. Len(u) /\ i \in 1 .. Len(t)
        BY <1>1, <1>2, <3>2
      <4>2. u[i] = t[i]
        BY <1>2, <4>1
      <4> QED
        BY <1>2, <2>2, <4>1, <4>2 DEF Shape
    <3> QED
      BY <3>1, <3>2
  <2> QED
    BY <1>2, <2>1, <2>2 DEF Shape
<1> QED
  BY <1>2, <1>3, <1>4 DEF u

LEMMA ShapeCalls ==
    /\ Shape(<<>>) /\ Shape(<<"stop">>) /\ Shape(Starting)
    /\ Shape(<<"stop">> \o Starting)
    /\ \A t \in {<<"stop">>, Starting, <<"stop">> \o Starting} :
          t # <<>> /\ Head(t) = "stop"
BY DEF Shape, Starting, Steps
-----------------------------------------------------------------------------
\* A call begins on a network in order.
LEMMA CallStep ==
    ASSUME IInv, NEW steps, Call(steps),
           steps \in {<<"stop">>, Starting, <<"stop">> \o Starting}
    PROVE  IInv'
<1>1. Shape(todo') /\ todo' # <<>> /\ Head(todo') = "stop"
  BY ShapeCalls DEF Call
<1>2. Whole' <=> Whole
  BY DEF Call, Whole, Watched, Stopped, Attached
<1>3. alive' => Before(Head(todo))'
  BY <1>1, <1>2 DEF Call, IInv, Before
<1> QED
  BY <1>1, <1>3 DEF IInv, Call

\* StopPolling hands over to the send when there is a checker and is done when not.
LEMMA StopStep ==
    ASSUME IInv, StopPolling
    PROVE  IInv'
<1> USE DEF At
<1>1. /\ Shape(todo) /\ todo # <<>> /\ Head(todo) = "stop" /\ alive /\ alive'
      /\ Whole /\ enable' = FALSE
  BY DEF StopPolling, IInv, Before
<1>2. CASE timer # Nil /\ channel # Nil
  <2>1. Watched
    BY <1>1, <1>2 DEF Whole, Stopped
  <2>2. /\ todo' = <<"send">> \o Tail(todo) /\ running' = running \ {timer} /\ timer' = Nil
        /\ channel' = channel /\ checkers' = checkers
    BY <1>2 DEF StopPolling
  <2>3. Sending'
    BY <2>1, <2>2 DEF Watched, Sending, Attached
  <2>4. Shape(todo') /\ todo' # <<>> /\ Head(todo') = "send"
    <3>1. "send" \in Steps
      BY DEF Steps
    <3> QED
      BY <1>1, <2>2, <3>1, ShapeReplaceHead
  <2>5. Before(Head(todo))'
    BY <1>1, <2>3, <2>4 DEF Before
  <2> QED
    BY <1>1, <2>4, <2>5 DEF IInv
<1>3. CASE ~(timer # Nil /\ channel # Nil)
  <2>1. Stopped
    BY <1>1, <1>3, NilIsNone DEF Whole, Watched
  <2>2. todo' = Tail(todo) /\ Stopped'
    BY <1>3, <2>1 DEF StopPolling, Stopped
  <2>3. Shape(todo') /\ (todo' # <<>> => Head(todo') \in {"stop", "fetch", "start"})
    BY <1>1, <2>2, ShapeTail
  <2>4. Whole' /\ (todo' # <<>> => Before(Head(todo))')
    BY <1>1, <2>2, <2>3 DEF Whole, Before
  <2> QED
    BY <1>1, <2>3, <2>4 DEF IInv
<1> QED
  BY <1>2, <1>3

\* The goroutine that takes the cancel is the only one.
LEMMA CancelStep ==
    ASSUME IInv, NEW g \in DOMAIN checkers, Cancel(g)
    PROVE  IInv'
<1> USE DEF At
<1>1. /\ Shape(todo) /\ todo # <<>> /\ Head(todo) = "send" /\ alive /\ alive'
      /\ enable = FALSE /\ enable' = enable /\ Sending
      /\ todo' = <<"clear">> \o Tail(todo)
  BY DEF Cancel, IInv, Before
<1>2. DOMAIN checkers = {g} /\ timer' = Nil /\ running' = {}
  BY <1>1 DEF Cancel, Sending, Attached
<1>3. Clearing'
  <2>1. DOMAIN checkers' = DOMAIN checkers \ {g}
    BY DEF Cancel
  <2> QED
    BY <1>2, <2>1 DEF Clearing
<1>4. Shape(todo') /\ todo' # <<>> /\ Head(todo') = "clear"
  <2>1. "clear" \in Steps
    BY DEF Steps
  <2> QED
    BY <1>1, <2>1, ShapeReplaceHead
<1>5. Before(Head(todo))'
  BY <1>1, <1>3, <1>4 DEF Before
<1> QED
  BY <1>1, <1>4, <1>5 DEF IInv

\* Nothing is left when the channel has been cleared, nor after the rebuild.
LEMMA QuietStep ==
    ASSUME IInv, ClearChannel \/ FetchNetwork
    PROVE  IInv'
<1> USE DEF At
<1>1. /\ Shape(todo) /\ todo # <<>> /\ alive /\ alive' /\ todo' = Tail(todo)
      /\ enable = FALSE /\ enable' = enable /\ Stopped'
  BY DEF ClearChannel, FetchNetwork, IInv, Before, Clearing, Stopped
<1>2. Shape(todo') /\ (todo' # <<>> => Head(todo') \in {"stop", "fetch", "start"})
  BY <1>1, ShapeTail
<1>3. Whole' /\ (todo' # <<>> => Before(Head(todo))')
  BY <1>1, <1>2 DEF Whole, Before
<1> QED
  BY <1>1, <1>2, <1>3 DEF IInv

\* A start finds no channel to send on.
LEMMA StartStep ==
    ASSUME IInv, StartPolling
    PROVE  IInv'
<1> USE DEF At
<1>1. /\ Shape(todo) /\ todo # <<>> /\ Head(todo) = "start" /\ alive /\ alive'
      /\ Stopped /\ enable' = TRUE
  BY DEF StartPolling, IInv, Before
<1>2. todo' = <<"make">> \o Tail(todo) /\ Stopped'
  BY <1>1 DEF StartPolling, Stopped
<1>3. Shape(todo') /\ todo' # <<>> /\ Head(todo') = "make"
  <2>1. "make" \in Steps
    BY DEF Steps
  <2> QED
    BY <1>1, <1>2, <2>1, ShapeReplaceHead
<1>4. Before(Head(todo))'
  BY <1>1, <1>2, <1>3 DEF Before
<1> QED
  BY <1>1, <1>3, <1>4 DEF IInv

\* The new goroutine is the only one, and its channel and ticker are the manager's.
LEMMA MakeStep ==
    ASSUME IInv, MakeChecker
    PROVE  IInv'
<1> USE DEF At
<1>1. /\ Shape(todo) /\ todo # <<>> /\ Head(todo) = "make" /\ alive /\ alive'
      /\ Stopped /\ enable = TRUE /\ enable' = TRUE /\ todo' = Tail(todo)
  BY DEF MakeChecker, IInv, Before
<1>2. PICK id \in Id : /\ timer' = id /\ channel' = id /\ running' = running \cup {id}
                       /\ checkers' = [g \in DOMAIN checkers \cup {id} |->
                                          IF g = id THEN Loop ELSE checkers[g]]
  BY DEF MakeChecker
<1>3. DOMAIN checkers' = {id} /\ checkers'[id] = Loop /\ running' = {id}
  BY <1>1, <1>2 DEF Stopped
<1>4. Watched'
  BY <1>2, <1>3 DEF Watched, Attached, Loop, State
<1>5. Shape(todo') /\ todo' = <<>>
  BY <1>1, ShapeTail
<1> QED
  BY <1>1, <1>4, <1>5 DEF IInv, Whole

\* What a goroutine does by itself leaves it attached to the manager, or kills the
\* process.
LEMMA CheckerStep ==
    ASSUME IInv, NEW g \in DOMAIN checkers, Checker(g)
    PROVE  IInv'
<1>1. /\ alive /\ todo' = todo /\ enable' = enable /\ running' = running
      /\ timer' = timer /\ channel' = channel
      /\ enable \in BOOLEAN /\ Shape(todo) /\ alive' \in BOOLEAN
      /\ DOMAIN checkers' = DOMAIN checkers
  BY DEF Checker, Select, SelectPanics, Check, CheckEnds, IInv
<1>2. CASE SelectPanics(g)
  BY <1>1, <1>2 DEF IInv, SelectPanics
<1>3. CASE Select(g) \/ Check(g) \/ CheckEnds(g)
  <2>1. ASSUME NEW x \in Id, Attached(x), timer \in {x, Nil}, channel = x
        PROVE  Attached(x)'
    <3>1. g = x /\ checkers[x] \in State
      BY <2>1 DEF Attached
    <3>2. CASE Select(g)
      <4>1. timer = x
        BY <2>1, <3>2 DEF Select
      <4>2. checkers'[x] = [at |-> "select", channel |-> x, timer |-> x]
        BY <2>1, <3>1, <3>2, <4>1 DEF Select
      <4> QED
        BY <1>1, <2>1, <4>2 DEF Attached, State
    <3>3. CASE Check(g)
      <4>1. checkers[x].at = "select" /\ checkers[x].channel = x /\ checkers[x].timer = x
        BY <2>1, <3>1, <3>3 DEF Check, Attached
      <4>2. checkers'[x] = [checkers[x] EXCEPT !.at = "check"]
        BY <3>1, <3>3 DEF Check
      <4> QED
        BY <1>1, <2>1, <3>1, <4>1, <4>2 DEF Attached, State
    <3>4. CASE CheckEnds(g)
      <4>1. checkers'[x] = Loop
        BY <3>1, <3>4 DEF CheckEnds
      <4> QED
        BY <1>1, <2>1, <4>1 DEF Attached, State, Loop
    <3> QED
      BY <1>3, <3>2, <3>3, <3>4
  <2>2. (Watched => Watched') /\ (Sending => Sending') /\ (Clearing => Clearing')
        /\ (Stopped => Stopped')
    BY <1>1, <2>1 DEF Watched, Sending, Clearing, Stopped
  <2>3. Whole => Whole'
    BY <1>1, <2>2 DEF Whole
  <2>4. \A step : Before(step) => Before(step)'
    BY <1>1, <2>2, <2>3 DEF Before
  <2> QED
    BY <1>1, <2>3, <2>4 DEF IInv
<1> QED
  BY <1>2, <1>3 DEF Checker

\* Every step keeps the invariant.
LEMMA StepIInv == IInv /\ [Next]_vars => IInv'
<1> SUFFICES ASSUME IInv, [Next]_vars PROVE IInv'
  OBVIOUS
<1>1. CASE DisableNetwork \/ EnableNetwork \/ RestartPolling
  BY <1>1, CallStep DEF DisableNetwork, EnableNetwork, RestartPolling
<1>2. CASE Handler
  BY <1>2, StopStep, CancelStep, QuietStep, StartStep, MakeStep DEF Handler
<1>3. CASE \E g \in DOMAIN checkers : Checker(g)
  BY <1>3, CheckerStep
<1>4. CASE (\E t \in running : Tick(t)) \/ vars' = vars
  <2>1. /\ enable' = enable /\ alive' = alive /\ todo' = todo /\ timer' = timer
        /\ channel' = channel /\ running' = running /\ checkers' = checkers
    BY <1>4 DEF Tick, vars
  <2>2. Whole' = Whole /\ \A step : Before(step)' = Before(step)
    BY <2>1 DEF Whole, Before, Watched, Stopped, Sending, Clearing, Attached
  <2> QED
    BY <2>1, <2>2 DEF IInv
<1>5. CASE Restart
  <2>1. enable' = FALSE /\ todo' = Starting /\ alive' = TRUE
    BY <1>5 DEF Restart
  <2>2. Stopped'
    BY <1>5 DEF Restart, Stopped
  <2>3. Before("stop")'
    BY <2>1, <2>2 DEF Before, Whole
  <2> QED
    BY <2>1, <2>3, ShapeCalls DEF IInv
<1> QED
  BY <1>1, <1>2, <1>3, <1>4, <1>5 DEF Next

\* The network that has not been started has no checker.
LEMMA InitIInv == Init => IInv
<1> SUFFICES ASSUME Init PROVE IInv
  OBVIOUS
<1>1. DOMAIN checkers = {}
  <2>1. DOMAIN <<>> = {}
    OBVIOUS
  <2> QED
    BY <2>1 DEF Init
<1>2. Stopped /\ Shape(todo) /\ todo = <<>>
  BY <1>1, ShapeCalls DEF Init, Stopped
<1> QED
  BY <1>2 DEF Init, IInv, Whole

\* A polled network has exactly one checker, on the ticker and the channel of its
\* manager, and an unpolled one has none and no ticker (poll_manager.go:209-237).
THEOREM OneCheckerHolds == Spec => []OneChecker
<1>1. IInv => OneChecker
  BY NilIsNone DEF IInv, OneChecker, Whole, Watched, Stopped, Attached
<1> QED
  BY <1>1, InitIInv, StepIInv, PTL DEF Spec

\* A checker dies of a nil ticker only while a stop waits to cancel it
\* (poll_manager.go:224-235): the ticker and the checker go together otherwise.
THEOREM DiesStoppingOnlyHolds == Spec => []DiesStoppingOnly
<1>1. ASSUME IInv, DiesStoppingOnly, [Next]_vars, ~alive' PROVE DiesStoppingOnly'
  <2>1. CASE ~alive
    <3>1. vars' = vars
      BY <1>1, <2>1 DEF Next, DisableNetwork, EnableNetwork, RestartPolling, Call, Handler,
         StopPolling, ClearChannel, FetchNetwork, StartPolling, MakeChecker, Cancel, At,
         Checker, Select, SelectPanics, Check, CheckEnds, Tick, Restart
    <3> QED
      BY <1>1, <3>1 DEF DiesStoppingOnly, vars
  <2>2. CASE alive
    <3>1. PICK g \in DOMAIN checkers : SelectPanics(g)
      BY <1>1, <2>2 DEF Next, DisableNetwork, EnableNetwork, RestartPolling, Call, Handler,
         StopPolling, ClearChannel, FetchNetwork, StartPolling, MakeChecker, Cancel, At,
         Checker, Select, Check, CheckEnds, Tick, Restart, vars
    <3>2. timer = Nil /\ todo' = todo
      BY <3>1 DEF SelectPanics
    <3>3. ~Whole /\ ~Stopped /\ ~Clearing
      BY <3>1, <3>2, NilIsNone DEF Whole, Watched, Stopped, Clearing
    <3>4. todo # <<>> /\ Before(Head(todo))
      BY <1>1, <2>2, <3>3 DEF IInv
    <3>5. Head(todo) \in Steps
      BY <1>1, <3>4 DEF IInv, Shape
    <3>6. Head(todo) = "send"
      BY <3>3, <3>4, <3>5 DEF Before, Steps
    <3> QED
      BY <3>2, <3>4, <3>6 DEF DiesStoppingOnly
  <2> QED
    BY <2>1, <2>2
<1>2. Init => DiesStoppingOnly
  BY DEF Init, DiesStoppingOnly
<1>3. IInv /\ DiesStoppingOnly /\ [Next]_vars => DiesStoppingOnly'
  BY <1>1 DEF DiesStoppingOnly
<1> QED
  BY <1>2, <1>3, InitIInv, StepIInv, PTL DEF Spec
=============================================================================
