CONSTANTS
  Worker = {w1, w2}
  NoTask = NoTask
  NoName = "none"
  Directive <- ProgressDirectives
  MaxDirectives = 3
  Ending = {"top", "syntax"}
SPECIFICATION Spec
PROPERTIES
  Terminates
  PoolSpec
