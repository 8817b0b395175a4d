SPECIFICATION Spec
CONSTANTS
  BufferSize = 3
  Redundancy = 2
  LineSize = 4
  PrefixSizes = {0, 1}
  Text <- MCText
  DictShort = 1
  MakeShort = 4
  DictLong = 1
  MakeLong = 6
INVARIANT LineFits
