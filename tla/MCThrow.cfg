CONSTANTS
  Worker = {w1}
  NoTask = NoTask
  NoName = "none"
  Directive <- ThrowDirectives
  MaxDirectives = 1
  Ending = {"top"}
SPECIFICATION Spec
CHECK_DEADLOCK FALSE
PROPERTIES
  Terminates
