CONSTANTS
  Worker = {w1, w2}
  NoTask = NoTask
  NoName = "none"
  Directive <- ErrorDirectives
  MaxDirectives = 3
  Ending = {"top", "unclosed", "syntax", "stray"}
SYMMETRY Workers
SPECIFICATION Spec
CHECK_DEADLOCK FALSE
INVARIANTS
  TypeOK
  JobsExact
  FreedDictsReady
  OutputIsMeaning
  ErrorExact
  CleanExit
PROPERTIES
  ReadyFrozen
