CONSTANTS
  Conns = {c1, c2}
  NULL = NULL
  Fds = {0, 1}
  TableSize = 2
  Requests <- Kinds
  MaxRequests = 2
  Limits = {1, 2}
SPECIFICATION FairSpec
INVARIANTS BackendsStayEqual RepliesInOrder OnlyBehindOther DescriptorsOwned
PROPERTIES CloseAsked
