SPECIFICATION Spec
INVARIANTS NoPanic
CONSTANTS
  a = a
  b = b
  c = c
  dev = dev
  Network = Network
  NoPP = NoPP
  NoRow = NoRow
  NoValue = NoValue
  Point = {a, b}
  Absent = {}
  Device = {dev}
  Copies = 1
  ModeA = "read_only"
  ModeB = "write_always"
  ModeC = "read_only"
  StartA = TRUE
  StartB = TRUE
  Ops = {"delete", "write"}
  Faults = {}
  MaxCalls = 2
  MaxRestarts = 0
  Value = {0, 1}
  Zero = 0
  PP <- MCPP
  FFPointUUID <- MCPointUUID
  FFDeviceUUID <- MCDeviceUUID
  Mode <- MCMode
  PollOnStart <- MCPollOnStart
  Readback <- MCReadback
  InitRow <- MCRow
  InitRegister <- MCRegister
