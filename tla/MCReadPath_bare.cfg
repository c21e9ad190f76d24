CONSTANTS
  Sendable <- Silent
  Conversations <- Lonely
  Word = 65536
  Chunks = {1, 3}
SPECIFICATION Spec
INVARIANT ParserReturns
