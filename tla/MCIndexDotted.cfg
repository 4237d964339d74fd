\* An import of ./users.service.
CONSTANTS
  db = db
  sql = sql
  Targets <- MCTargets
  Names = {"u", "d", "default"}
  Rules <- MCRules
  Programs <- DottedPrograms
  Specifiers <- MCSpecifiers
  Extensions <- MCExtensions
  Aliases <- MCAliases
  MaxHops = 3
  DefaultName = "default"
  NoFile = NoFile
  Idle = Idle
SPECIFICATION Spec
INVARIANT
  DirectImportsResolve
CHECK_DEADLOCK FALSE
