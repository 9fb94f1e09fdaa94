--------------------------- MODULE PointLifecycle ---------------------------
(***************************************************************************)
(* What the user of a network may believe of its points: each of them      *)
(* rests until its time has come, waits for its turn, is the next one, or  *)
(* is out for polling, alone, and comes back when its device was asked.    *)
(* None goes from rest to a poll without waiting, and a step that is about *)
(* one point moves no other.                                               *)
(***************************************************************************)
CONSTANTS Point,
          Due     \* the points that are to be polled

VARIABLES place,  \* where each point is
          up      \* polling has started

vars == <<place, up>>

In(x) == {p \in Point : place[p] = x}
Comes(p, x) == place' = [place EXCEPT ![p] = x]

Init == place = [p \in Point |-> "away"] /\ up = FALSE

\* The process starts: it takes in the points that are due, one by one.
Enter(p) == /\ ~up /\ p \in Due /\ place[p] = "away"
            /\ Comes(p, "waiting") \/ Comes(p, "resting")
            /\ UNCHANGED up

\* Who may be the next point: one of those that wait, if any do.
Heirs == IF In("waiting") = {} THEN {{}} ELSE {{p} : p \in In("waiting")}

\* The next point goes out and leaves its place to an heir.
Advance ==
    \E heir \in Heirs :
        place' = [p \in Point |-> IF p \in heir THEN "next"
                                  ELSE IF place[p] = "next" THEN "out" ELSE place[p]]

Start == ~up /\ In("away") \cap Due = {} /\ Advance /\ up' = TRUE

Draw == up /\ In("out") \cup In("asked") = {} /\ Advance /\ UNCHANGED up

\* The device of p was asked, whatever it answered, or could not be.
Ask(p) == up /\ place[p] = "out" /\ Comes(p, "asked") /\ UNCHANGED up

Return(p) == /\ up /\ place[p] = "asked"
             /\ Comes(p, "waiting") \/ Comes(p, "resting")
             /\ UNCHANGED up

\* The time of p has come.
Wake(p) == place[p] = "resting" /\ Comes(p, "waiting") /\ UNCHANGED up

\* The process dies; what it knows of the points is lost.
Crash == place' = [p \in Point |-> "away"] /\ up' = FALSE

Next == \/ Start \/ Draw \/ Crash
        \/ \E p \in Point : Enter(p) \/ Ask(p) \/ Return(p) \/ Wake(p)

Spec == Init /\ [][Next]_vars
=============================================================================
