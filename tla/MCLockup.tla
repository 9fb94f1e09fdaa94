------------------------------ MODULE MCLockup ------------------------------
(***************************************************************************)
(* Values for the constants of the lockup timers: read_only points of one  *)
(* device.                                                                 *)
(***************************************************************************)
EXTENDS LockupTimers, TLC

CONSTANTS a, b,    \* the points
          dev,     \* the device
          Copies   \* bound: polling points with one UUID

MCPP == Point \X (1..Copies)
MCPointUUID == [o \in MCPP |-> o[1]]
MCDeviceUUID == [p \in Point |-> dev]
MCMode == [p \in Point |-> "read_only"]
\* The points differ in nothing.
MCSymmetry == Permutations(Point)
=============================================================================
