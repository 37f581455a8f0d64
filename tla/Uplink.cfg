\* Eight telemetries by six kinds of senders, and every cut of the edge's form.
CONSTANTS
  Null = Null
  NoCert = NoCert
  None = None
  BypassDevice <- MCBypass
  Devices <- MCDevices
  Samples <- MCSamples
  Extras <- MCExtras
SPECIFICATION Spec
INVARIANTS
  TypeOK
  StoredIsOwn
  StoredAsMeasured
  OwnDataIsAccepted
  CutIsNotMisread
  EncodedFits
