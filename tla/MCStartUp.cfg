CONSTANTS
  NumServers = 3
  Leftovers = {0, 7}
  MaxPeers = 7
SPECIFICATION Spec
INVARIANTS CrashesInWindows DealtInTurn NothingLeft
