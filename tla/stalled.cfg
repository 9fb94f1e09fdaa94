SPECIFICATION RecoveringSpec
PROPERTIES PolledAgain
CONSTANTS
  a = a
  b = b
  c = c
  dev = dev
  Network = Network
  NoPP = NoPP
  NoRow = NoRow
  NoValue = NoValue
  Point = {a}
  Absent = {}
  Device = {dev}
  Copies = 2
  ModeA = "write_always"
  ModeB = "read_only"
  ModeC = "read_only"
  StartA = TRUE
  StartB = TRUE
  Ops = {"check", "write"}
  Faults = {"grpc"}
  MaxCalls = 1
  MaxRestarts = 0
  Value = {0, 1}
  Zero = 0
  PP <- MCPP
  FFPointUUID <- MCPointUUID
  FFDeviceUUID <- MCDeviceUUID
  Mode <- MCMode
  PollOnStart <- MCPollOnStart
  Readback <- MCReadback
  InitRow <- MCRow
  InitRegister <- MCRegister
