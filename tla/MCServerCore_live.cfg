CONSTANTS
  c1 = c1
  c2 = c2
  Conns = {c1, c2}
  NULL = NULL
  Fds = {0, 1}
  TableSize = 2
  NumServers = 1
  MaxConnects = 2
  MaxInFlight = 1
SPECIFICATION FairSpec
PROPERTIES ClosingIsDestroyed RequestTaken
