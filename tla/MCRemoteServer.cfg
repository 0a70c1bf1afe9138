SPECIFICATION FairSpec
CONSTANTS
  Sessions = {s1, s2}
  Panes = {p1, p2}
  Hosts = {h1}
  Paths = {d1}
  None = None
  MAX_RECONNECT_ATTEMPTS = 2
  MaxClients <- ClientsOf
  reconnecting = s1
  ClientsOfIt = 3

INVARIANT TypeOK
INVARIANT HostsMatch
INVARIANT NotResurrected
INVARIANT OneFlow
INVARIANT BootstrapTold
INVARIANT NavigationAsked
INVARIANT ExecutorCurrent
PROPERTY Settles
CHECK_DEADLOCK FALSE
