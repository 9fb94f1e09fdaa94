SPECIFICATION AnsweringSpec
INVARIANTS Conserved
PROPERTIES Orderly PolledAgain
CONSTANTS
  a = a
  b = b
  c = c
  dev = dev
  Network = Network
  NoPP = NoPP
  NoRow = NoRow
  NoValue = NoValue
  Point = {a, b, c}
  Absent = {}
  Device = {dev}
  Copies = 1
  ModeA = "write_once_then_read"
  ModeB = "write_and_maintain"
  ModeC = "read_only"
  StartA = TRUE
  StartB = FALSE
  Ops = {}
  Faults = {"io", "transport"}
  MaxCalls = 0
  MaxRestarts = 1
  Value = {0, 1}
  Zero = 0
  PP <- MCPP
  FFPointUUID <- MCPointUUID
  FFDeviceUUID <- MCDeviceUUID
  Mode <- MCMode
  PollOnStart <- MCPollOnStart
  Readback <- MCReadback
  InitRow <- MCRow
  InitRegister <- MCRegister
