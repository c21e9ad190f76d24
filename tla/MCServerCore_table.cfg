CONSTANTS
  c1 = c1
  c2 = c2
  c3 = c3
  c4 = c4
  Conns = {c1, c2, c3, c4}
  NULL = NULL
  Fds = {9, 10, 11, 12}
  TableSize = 11
  NumServers = 4
  MaxConnects = 1
  MaxInFlight = 1
SPECIFICATION Spec
SYMMETRY Addresses
INVARIANT AdmittedFitsTable
