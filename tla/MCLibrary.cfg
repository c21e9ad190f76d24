CONSTANTS
  Chars = {32, 37, 50}
  Junk = 256
  SizeMax = 63
  SizeXor <- BitXor
  BufferLength = 2
  MaxText = 4
  MaxArg = 2
  DigitBuffer = 4
  second = 4
  Word = 16
  Messages = {"", "a", "b"}
  Empty = ""
  Priorities = {"low", "high"}
  CountMax = 2
  MaxSent = 5
  Bits = 7
  Bases = {1, 2, 3, 10, 16, 35, 36}
  Hours = 30
  Letters = {32, 37, 50, 65, 97, 250}
  Delimiters = {{32}, {32, 37}}
  Cased = {32, 65, 97}
  Longest = 3
SPECIFICATION LibrarySpec
INVARIANTS Covered HoldsText ReadFits SearchAgrees HelpersAgree LogTells
