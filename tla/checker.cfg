SPECIFICATION CheckingSpec
CHECK_DEADLOCK FALSE
INVARIANTS TypeOK QueueUnique RepollInStandby OnlyWriteModesWrite
PROPERTIES LostIsFound
CONSTANTS
  a = a
  b = b
  c = c
  dev = dev
  Network = Network
  NoPP = NoPP
  NoRow = NoRow
  NoValue = NoValue
  Point = {a}
  Absent = {}
  Device = {dev}
  Copies = 3
  ModeA = "read_only"
  ModeB = "read_only"
  ModeC = "read_only"
  StartA = TRUE
  StartB = TRUE
  Ops = {"check", "update", "disable", "write", "delete", "device", "network", "deleteDevice"}
  Faults = {"grpc", "io", "transport"}
  MaxCalls = 1
  MaxRestarts = 1
  Value = {0, 1}
  Zero = 0
  PP <- MCPP
  FFPointUUID <- MCPointUUID
  FFDeviceUUID <- MCDeviceUUID
  Mode <- MCMode
  PollOnStart <- MCPollOnStart
  Readback <- MCReadback
  InitRow <- MCRow
  InitRegister <- MCRegister
