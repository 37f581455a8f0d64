\* One device, overlapping requests, one statement or process failing.
CONSTANTS
  c1 = c1
  c2 = c2
  d1 = d1
  w1 = w1
  w2 = w2
  NoDevice = NoDevice
  NoWorker = NoWorker
  NoCommand = NoCommand
  NoSetting = NoSetting
  Devices = {d1}
  Commands = {c1, c2}
  Target <- MCTarget
  Setting <- MCSettings
  Workers = {w1, w2}
  MaxSeq = 1
  MaxCount = 3
  MaxFaults = 1
  DefaultInterval = 15
  MaxInterval = 86400
  MaxOverlaps = 2
  MaxPowerCycles = 0
SYMMETRY Symmetry
SPECIFICATION SystemSpec
INVARIANTS
  SystemTypeOK
  TotalNeverAhead
PROPERTIES
  ImplementsLedger
