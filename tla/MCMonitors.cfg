CONSTANTS
  Maker = {m1, m2}
  User = {u1, u2}
  Ender = ender
  Main = main
  NoThread = NoThread
  Ctx = ctx
  Subs = 1
SPECIFICATION Spec
INVARIANTS
  NoLostWakeup
  JoinsAlone
  NoUseAfterFree
PROPERTIES
  GuardsSpec
