SPECIFICATION Spec
CONSTANTS
  BufferSize = 3
  Redundancy = 2
  LineSize = 4
  PrefixSizes = {0, 1}
  Text <- MCText
  DictShort = 5
  MakeShort = 4
  DictLong = 7
  MakeLong = 6
INVARIANT WithinBounds
INVARIANT InOrder
INVARIANT NothingDropped
INVARIANT OwnLines
INVARIANT RawCopies
INVARIANT MarkTabs
PROPERTY Ends
