SPECIFICATION Spec
CONSTANTS
  Sessions = {s1}
  Panes = {p1}
  Hosts = {h1}
  Paths = {d1}
  None = None
  MAX_RECONNECT_ATTEMPTS = 2
  MaxClients <- ClientsOf
  reconnecting = s1
  ClientsOfIt = 1
INVARIANT NotBlocked
CHECK_DEADLOCK FALSE
