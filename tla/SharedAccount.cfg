SPECIFICATION Spec
CONSTANTS
  t1 = t1
  t2 = t2
  d1 = d1
  d2 = d2
  a1 = a1
  p1 = p1
  w1 = w1
  NoTask = NoTask
  NoDevice = NoDevice
  Tasks = {t1, t2}
  Devices = {d1, d2}
  Configured = {d1, d2}
  BootStatus <- AllIdle
  Permitted <- Everywhere
  TaskInput <- PlainInput
  Priorities = {"normal"}
  DiskMayFail = FALSE
  Research = {t1, t2}
  AccountOf <- SharedAccount
  SignedInOn <- NoAffinity
  WorkspaceOf <- OneWorkspace
  ProviderOf <- OneProvider
  WorkspaceLimit = 3
  ProviderLimit = 3
  MaxWorkers = 3
INVARIANTS
  AccountExclusive
