SPECIFICATION RouteSpec
CONSTANTS
  NoPhone = NoPhone
  Phones = {d1, d2}
  RouteFaults = {}
  MaxRecoveries = 1
  MaxEvents = 4
INVARIANTS
  LostIsBlocked
CHECK_DEADLOCK FALSE
