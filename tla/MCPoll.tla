------------------------------- MODULE MCPoll -------------------------------
(***************************************************************************)
(* Values for the constants of the poll manager: up to three points of one *)
(* device.                                                                 *)
(***************************************************************************)
EXTENDS PollProperties

CONSTANTS a, b, c, dev,         \* points and the device
          ModeA, ModeB, ModeC,  \* the modes of the points
          StartA, StartB,       \* PollOnStartup of a, and of the others
          Absent,               \* points that are yet to be added
          Copies                \* bound: polling points with one UUID

MCPP == Point \X (1..Copies)
MCPointUUID == [o \in MCPP |-> o[1]]
MCDeviceUUID == [p \in Point |-> dev]
MCMode == [p \in Point |-> IF p = a THEN ModeA
                           ELSE IF p = b THEN ModeB ELSE ModeC]
MCPollOnStart == [p \in Point |-> IF p = a THEN StartA ELSE StartB]
MCValue == {0, 1}
\* Both values are read back as they were written.
MCReadback == [v \in MCValue |-> v]
MCRegister == [p \in Point |-> 0]
\* The rows as addPoint leaves them.
MCRow == [p \in Point |->
    [life |-> IF p \in Absent THEN "absent" ELSE "live", enable |-> TRUE, read |-> TRUE,
     write |-> IsWriteable(MCMode[p]) /\ MCPollOnStart[p], priority |-> "normal",
     wv |-> NoValue, ov |-> NoValue]]
=============================================================================
