CONSTANTS
  c1 = c1
  Conns = {c1}
  NULL = NULL
  Fds = {0}
  TableSize = 1
  NumServers = 1
  MaxConnects = 1
  MaxInFlight = 1
SPECIFICATION Spec
INVARIANT BranchEventAlive
