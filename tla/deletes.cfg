SPECIFICATION PollingSpec
INVARIANTS NeverDoubled
PROPERTIES DeletedLeaves
CONSTANTS
  a = a
  b = b
  c = c
  dev = dev
  Network = Network
  NoPP = NoPP
  NoRow = NoRow
  NoValue = NoValue
  Point = {a, b}
  Absent = {b}
  Device = {dev}
  Copies = 2
  ModeA = "read_only"
  ModeB = "write_always"
  ModeC = "read_only"
  StartA = TRUE
  StartB = TRUE
  Ops = {"add", "delete", "deleteDevice"}
  Faults = {"io", "grpc", "transport"}
  MaxCalls = 3
  MaxRestarts = 1
  Value = {0, 1}
  Zero = 0
  PP <- MCPP
  FFPointUUID <- MCPointUUID
  FFDeviceUUID <- MCDeviceUUID
  Mode <- MCMode
  PollOnStart <- MCPollOnStart
  Readback <- MCReadback
  InitRow <- MCRow
  InitRegister <- MCRegister
