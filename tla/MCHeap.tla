------------------------------- MODULE MCHeap -------------------------------
(***************************************************************************)
(* Five polling points, two of them of one point UUID, on two devices: the *)
(* array is up to four long, so that it has a grandchild.                  *)
(***************************************************************************)
EXTENDS PollHeap

MCObj == 1..5
MCUUID == [o \in MCObj |-> IF o = 5 THEN 1 ELSE o]
MCDevice == [o \in MCObj |-> o % 2]
=============================================================================
