\* A command queued between the SELECT and the UPDATE of a request.
CONSTANTS
  c1 = c1
  c2 = c2
  d1 = d1
  w1 = w1
  w2 = w2
  NoDevice = NoDevice
  NoWorker = NoWorker
  NoCommand = NoCommand
  NoSetting = NoSetting
  Devices = {d1}
  Commands = {c1, c2}
  Target <- MCTarget
  Setting <- MCMixed
  Workers = {w1}
  MaxSeq = 1
  MaxCount = 1
  MaxFaults = 0
  DefaultInterval = 15
  MaxInterval = 86400
  MaxOverlaps = 0
  MaxPowerCycles = 0
SPECIFICATION FairSystemSpec
PROPERTY DeliveredWasAnswered
