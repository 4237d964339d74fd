\* Every function of up to four statements without helper calls.
CONSTANTS
  b = b
  u = u
  v = v
  x = x
  y = y
  same = same
  wrap = wrap
  pick = pick
  idle = idle
  far = far
  save = save
  Offsets = {x, y}
  Vars = {b, u}
  Param = b
  Helpers = {}
  Summary <- MCSummary
  Gives <- MCGives
  Stores <- MCStores
  Guards = {"plain", "allow", "type", "isType", "ok"}
  NoSummary = NoSummary
  NoVar = NoVar
  Deep = 2
  MaxStmts = 4
SPECIFICATION Spec
SYMMETRY Alike
INVARIANTS
  TypeOK
  SoundOutsideGaps
  ExactOutsideBlurs
  ShapeImpliesBoolean
  ReachesImpliesFinding
CHECK_DEADLOCK FALSE
