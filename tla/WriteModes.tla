----------------------------- MODULE WriteModes -----------------------------
(***************************************************************************)
(* What becomes of a polling point when one poll of it, or one update of   *)
(* it, is complete: the switch over the point's write mode in              *)
(* NetworkPollManager.PollingPointCompleteNotification                     *)
(* (pollqueue/queue_loader.go).  Pure: no state.                           *)
(*                                                                         *)
(* A flag that is nil in the code (a *bool) reads as FALSE, as             *)
(* boolean.IsTrue reads it.                                                *)
(***************************************************************************)
EXTENDS Naturals

CONSTANTS NoValue       \* a nil WriteValue or OriginalValue

ReadModes  == {"read_once", "read_only"}
WriteModes == {"write_once", "write_once_read_once", "write_always",
               "write_once_then_read", "write_and_maintain"}
Modes      == ReadModes \cup WriteModes

IsWriteable(mode) == mode \in WriteModes

\* PollRetryType
Retries == {"normal", "immediate", "delayed", "never"}

\* The arguments of a completion that decide about the point.
Completion == [writeSuccess : BOOLEAN, readSuccess : BOOLEAN,
               pointUpdate : BOOLEAN, resetPriority : BOOLEAN,
               retryType : Retries, notRequired : BOOLEAN]

-----------------------------------------------------------------------------
\* Where the polling point goes: into the priority queue, how often into the
\* standby list, whether its re-poll timer is armed; and the two flags that the
\* point's row is left with.
Disposal == [queue : BOOLEAN, standby : 0..2, repoll : BOOLEAN,
             read : BOOLEAN, write : BOOLEAN]

ToQueue(r, w)   == [queue |-> TRUE,  standby |-> 0, repoll |-> FALSE,
                    read |-> r, write |-> w]
ToStandby(r, w) == [queue |-> FALSE, standby |-> 1, repoll |-> FALSE,
                    read |-> r, write |-> w]
ToRepoll(r, w)  == [queue |-> FALSE, standby |-> 1, repoll |-> TRUE,
                    read |-> r, write |-> w]
Nowhere(r, w)   == [queue |-> FALSE, standby |-> 0, repoll |-> FALSE,
                    read |-> r, write |-> w]

ReadOnce(pt, c) ==
    LET normal == c.retryType = "normal" IN
    IF c.retryType = "never" \/ (normal /\ (c.readSuccess \/ c.notRequired))
      THEN ToStandby(FALSE, FALSE)
    ELSE IF c.retryType = "immediate" \/ (normal /\ pt.read /\ ~c.readSuccess)
      THEN ToQueue(TRUE, FALSE)
    ELSE IF c.retryType = "delayed"
      THEN ToRepoll(TRUE, FALSE)
    ELSE Nowhere(pt.read, FALSE)

\* Mutant of ReadOnly: a failed read that is not retried at once loses the point.
ReadOnlyForgets(pt, c) ==
    IF c.retryType = "delayed" \/ (c.retryType = "normal" /\ c.readSuccess)
      THEN ToRepoll(TRUE, FALSE)
    ELSE Nowhere(TRUE, FALSE)

ReadOnly(pt, c) ==
    LET normal == c.retryType = "normal" IN
    IF c.retryType = "delayed" \/ (normal /\ (c.readSuccess \/ c.notRequired))
      THEN ToRepoll(TRUE, FALSE)
    ELSE IF c.retryType = "never"
      THEN ToStandby(TRUE, FALSE)
    ELSE ToQueue(TRUE, FALSE)

WriteOnce(pt, c) ==
    LET normal == c.retryType = "normal" IN
    IF c.retryType = "never" \/ (normal /\ (c.writeSuccess \/ c.notRequired))
      THEN ToStandby(FALSE, FALSE)
    ELSE IF c.retryType = "immediate" \/ (normal /\ pt.write /\ ~c.writeSuccess)
      THEN ToQueue(FALSE, TRUE)
    ELSE IF c.retryType = "delayed"
      THEN ToRepoll(FALSE, TRUE)
    ELSE Nowhere(FALSE, pt.write)

\* The first branch of the code has no break, so a successful write goes on to
\* the second if: the point then enters the standby list twice, or the standby
\* list and the priority queue.
WriteOnceReadOnce(pt, c) ==
    LET normal  == c.retryType = "normal"
        written == c.retryType = "never" \/ (normal /\ pt.write /\ c.writeSuccess)
        again   == \/ c.pointUpdate
                   \/ c.retryType = "immediate"
                   \/ normal /\ pt.write /\ ~c.writeSuccess
        haveRead == c.retryType = "never" \/ (normal /\ c.readSuccess)
        reRead   == normal /\ pt.read /\ ~c.readSuccess IN
    IF ~written /\ again
      THEN ToQueue(pt.read \/ c.pointUpdate, TRUE)
    ELSE IF ~written /\ c.retryType = "delayed"
      THEN ToRepoll(TRUE, TRUE)
    ELSE [queue   |-> reRead /\ ~haveRead,
          standby |-> (IF written THEN 1 ELSE 0) + (IF haveRead THEN 1 ELSE 0),
          repoll  |-> FALSE,
          read    |-> pt.read /\ ~haveRead,
          write   |-> pt.write /\ ~written]

WriteAlways(pt, c) ==
    LET normal == c.retryType = "normal" IN
    IF c.retryType = "delayed" \/ (normal /\ (c.writeSuccess \/ c.notRequired))
      THEN ToRepoll(FALSE, TRUE)
    ELSE IF c.retryType = "never"
      THEN ToStandby(FALSE, TRUE)
    ELSE ToQueue(FALSE, TRUE)

WriteOnceThenRead(pt, c) ==
    LET normal == c.retryType = "normal"
        owed   == pt.write /\ ~c.writeSuccess IN
    IF c.retryType = "never"
      THEN ToStandby(TRUE, owed)
    ELSE IF c.pointUpdate \/ c.retryType = "immediate" \/ (normal /\ owed)
      THEN ToQueue(TRUE, owed)
    ELSE IF c.retryType = "delayed" \/ pt.write \/ c.readSuccess
      THEN ToRepoll(TRUE, owed)
    ELSE ToQueue(TRUE, owed)

\* Mutant of WriteAndMaintain: the value is written once and no longer maintained.
WriteAndForget(pt, c) ==
    IF c.retryType = "immediate" \/ (pt.write /\ ~c.writeSuccess)
      THEN ToQueue(TRUE, pt.write)
    ELSE ToRepoll(TRUE, FALSE)

WriteAndMaintain(pt, c) ==
    LET normal == c.retryType = "normal" IN
    IF c.retryType = "immediate" \/ (normal /\ pt.write /\ ~c.writeSuccess)
      THEN ToQueue(TRUE, pt.write)
    ELSE IF c.retryType = "delayed"
      THEN ToRepoll(TRUE, pt.write)
    ELSE IF c.retryType = "never"
      THEN ToStandby(TRUE, pt.write)
    ELSE IF pt.wv # NoValue /\ pt.ov # pt.wv
      THEN ToQueue(TRUE, TRUE)
    ELSE ToRepoll(TRUE, FALSE)

\* The switch itself.
Dispose(mode, pt, c) ==
    CASE mode = "read_once"            -> ReadOnce(pt, c)
      [] mode = "read_only"            -> ReadOnly(pt, c)
      [] mode = "write_once"           -> WriteOnce(pt, c)
      [] mode = "write_once_read_once" -> WriteOnceReadOnce(pt, c)
      [] mode = "write_always"         -> WriteAlways(pt, c)
      [] mode = "write_once_then_read" -> WriteOnceThenRead(pt, c)
      [] mode = "write_and_maintain"   -> WriteAndMaintain(pt, c)
=============================================================================
