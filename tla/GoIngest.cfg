\* Two handlers, a payload with two alerts and one with none.
CONSTANTS
  d1 = d1
  m1 = m1
  m2 = m2
  h1 = h1
  h2 = h2
  Devices = {d1}
  Telemetries = {m1, m2}
  Payload <- MCPayload
  NoTelemetry = NoTelemetry
  Handlers = {h1, h2}
  NoHandler = NoHandler
  MaxPosts = 2
  MaxReads = 1
  MaxFaults = 1
  MaxRestarts = 1
\* The bounds stop the clients: then the server rests.
CHECK_DEADLOCK FALSE
SPECIFICATION FairSpec
INVARIANTS
  TypeOK
  TotalsAgree
  DeviceShowsLastRow
  ListIsCurrent
  AlertsAreAccounted
  NotifiedIsStored
PROPERTY EveryRequestEnds
