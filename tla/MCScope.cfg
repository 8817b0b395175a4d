CONSTANTS
  Worker = {w1, w2}
  NoTask = NoTask
  NoName = "none"
  Directive <- ScopeDirectives
  MaxDirectives = 4
  Ending = {"top"}
SYMMETRY Workers
SPECIFICATION Spec
INVARIANTS
  NoDanglingUse
  ShelvesSound
  NoOvertaking
  WaitsOnlyOnRunning
  OutputIsMeaning
