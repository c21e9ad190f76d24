CONSTANTS
  Sendable <- Every
  Conversations <- Few
  Word = 65536
  Chunks = {1, 3, 40}
SPECIFICATION Spec
INVARIANTS TakenExactly PairsFound GoodNeverRefused NothingInvented LostOnlyTo TextFits
PROPERTY NothingAfterBad
