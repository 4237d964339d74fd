\* Every function of up to four statements that calls helpers, at most one branch deep.
CONSTANTS
  b = b
  u = u
  v = v
  x = x
  y = y
  same = same
  wrap = wrap
  pick = pick
  idle = idle
  far = far
  save = save
  Offsets = {x, y}
  Vars = {b, u, v}
  Param = b
  Helpers = {same, wrap, pick, idle, far, save}
  Summary <- MCSummary
  Gives <- MCGives
  Stores <- MCStores
  Guards = {"plain"}
  NoSummary = NoSummary
  NoVar = NoVar
  Deep = 1
  MaxStmts = 4
SPECIFICATION Spec
INVARIANTS
  SoundOutsideGaps
  NoMissedSink
  ReturnFlagged
CHECK_DEADLOCK FALSE
