\* One device, one PHP process, a client timeout, a fault and a power cycle.
CONSTANTS
  c1 = c1
  c2 = c2
  d1 = d1
  w1 = w1
  w2 = w2
  NoDevice = NoDevice
  NoWorker = NoWorker
  NoCommand = NoCommand
  NoSetting = NoSetting
  Devices = {d1}
  Commands = {c1, c2}
  Target <- MCTarget
  Setting <- MCSettings
  Workers = {w1}
  MaxSeq = 1
  MaxCount = 1
  MaxFaults = 1
  DefaultInterval = 15
  MaxInterval = 86400
  MaxOverlaps = 1
  MaxPowerCycles = 1
SPECIFICATION FairSystemSpec
PROPERTIES
  IntervalConverges
  PendingIsTaken
