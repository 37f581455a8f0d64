\* The open server over both stores: two handlers, two devices, two commands.
CONSTANTS
  c1 = c1
  c2 = c2
  d1 = d1
  d2 = d2
  h1 = h1
  h2 = h2
  NoDevice = NoDevice
  Devices = {d1, d2}
  Commands = {c1, c2}
  Handlers = {h1, h2}
  Request <- MCRequest
  Batteries <- MCBatteries
  Repos = {"sql", "memory"}
  MaxOpenConns = 1
  MaxFaults = 2
  MaxRestarts = 1
SYMMETRY Symmetry
SPECIFICATION Spec
INVARIANTS
  TypeOK
  AnsweredIsMarked
  AnswerIsConsistent
  AnswerKeepsOrder
  NoHoldAndWait
