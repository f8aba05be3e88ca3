SPECIFICATION EgressSpec
CONSTANTS
  Handhelds = {u1, u2}
  Nothing = Nothing
  Proxies = {x1, x2}
  Checks = {1}
  MaxTurns = 1
INVARIANT RoutedProxyIsLeased
CHECK_DEADLOCK FALSE
