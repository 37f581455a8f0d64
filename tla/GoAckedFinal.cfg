\* The client may time out while the handler of its request is at work.
CONSTANTS
  c1 = c1
  c2 = c2
  d1 = d1
  NoDevice = NoDevice
  NoHandler = NoHandler
  Devices = {d1}
  Commands = {c1, c2}
  Handlers = {h1, h2}
  Request <- MCSettings
  Batteries <- MCBatteries
  Repos = {"sql"}
  MaxOpenConns = 1
  MaxFaults = 0
  MaxRestarts = 0
  OverlappingRetries = TRUE
  MaxRuns = 2
SPECIFICATION FairSystemSpec
PROPERTY AckedIsFinal
