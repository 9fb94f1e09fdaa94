SPECIFICATION Spec
INVARIANT QueuedIsWatched
SYMMETRY MCSymmetry
CONSTANTS
  dev = dev
  NoPP = NoPP
  NoRow = NoRow
  NoValue = NoValue
  a = a
  b = b
  Point = {a, b}
  Device = {dev}
  Copies = 2
  Value = {0}
  PP <- MCPP
  FFPointUUID <- MCPointUUID
  FFDeviceUUID <- MCDeviceUUID
  Mode <- MCMode
  Calls = {"update", "disable", "write", "restart", "check"}
  MaxCalls = 1
