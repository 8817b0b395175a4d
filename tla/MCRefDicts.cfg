CONSTANTS
  Word = {"a"}
  Name = {"m", "n"}
  NoName = "none"
  MaxDicts = 3
  MaxDepth = 3
SPECIFICATION Spec
INVARIANTS
  AllIndexSound
PROPERTIES
  ScopeSpec
