\* A restart between the acknowledgement of a setting and the next telemetry.
CONSTANTS
  c1 = c1
  c2 = c2
  d1 = d1
  NoDevice = NoDevice
  NoHandler = NoHandler
  Devices = {d1}
  Commands = {c1, c2}
  Handlers = {h1}
  Request <- MCSettings
  Batteries <- MCBatteries
  Repos = {"sql"}
  MaxOpenConns = 1
  MaxFaults = 0
  MaxRestarts = 1
  OverlappingRetries = FALSE
  MaxRuns = 2
SPECIFICATION SystemSpec
INVARIANT SettingSurvives
