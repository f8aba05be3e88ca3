SPECIFICATION FairSpec
CONSTANTS
  c1 = c1
  c2 = c2
  d1 = d1
  d2 = d2
  ai = ai
  Nobody = Nobody
  NoDevice = NoDevice
  NoTask = NoTask
  Connections = {c1, c2}
  Devices = {d1}
  Tasks = {ai}
  Remote = {}
  OfflineAfter = 2
  Revocations = TRUE
INVARIANTS
  TypeOK
  ClaimsAgree
PROPERTIES
  ClaimsAreRespected
  NoInputUnderAI
  ClosedConnectionFreesPhone
