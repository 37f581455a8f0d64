\* Both stores, one request of the device at a time, no failing statement.
CONSTANTS
  c1 = c1
  c2 = c2
  d1 = d1
  NoDevice = NoDevice
  NoHandler = NoHandler
  Devices = {d1}
  Commands = {c1, c2}
  Handlers = {h1}
  Request <- MCSettings
  Batteries = {20}
  Repos = {"sql", "memory"}
  MaxOpenConns = 1
  MaxFaults = 0
  MaxRestarts = 1
  OverlappingRetries = FALSE
  MaxRuns = 2
SPECIFICATION FairSystemSpec
INVARIANTS
  SystemTypeOK
  SettingIsKept
  UpdatesOnce
PROPERTIES
  ImplementsLedger
  SettingReachesDevice
  AcceptedIsConfirmed
  DeviceUpdates
