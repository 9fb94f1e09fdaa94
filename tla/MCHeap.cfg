SPECIFICATION Spec
INVARIANT HeapOrdered
PROPERTY Urgent
CONSTANTS
  Obj <- MCObj
  UUID <- MCUUID
  Device <- MCDevice
  Rank = {0, 1}
  None = None
  MaxTime = 1
