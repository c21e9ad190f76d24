CONSTANTS
  c1 = c1
  c2 = c2
  c3 = c3
  Conns = {c1, c2, c3}
  NULL = NULL
  Fds = {0, 1, 2}
  TableSize = 3
  NumServers = 1
  MaxConnects = 2
  MaxInFlight = 2
SPECIFICATION Spec
SYMMETRY Addresses
INVARIANTS TypeOK FreeFdIsClean OnlyBadFdThrows NoDanglingRegistration SetKeysSound NoLostRequest ReplyArmed ServerOwnsConnected
PROPERTIES ClosingIsFinal ImplementsService
