\* Every import of the small projects of MCIndex through their barrels.
CONSTANTS
  db = db
  sql = sql
  Targets <- MCTargets
  Names = {"u", "d", "default"}
  Rules <- MCRules
  Programs <- MCPrograms
  Specifiers <- MCSpecifiers
  Extensions <- MCExtensions
  Aliases <- MCAliases
  MaxHops = 3
  DefaultName = "default"
  NoFile = NoFile
  Idle = Idle
SPECIFICATION FairSpec
INVARIANTS
  TypeOK
  NoFlagLost
  NeverTheWrongFunction
  PlainChainsResolve
PROPERTY
  EveryImportSettled
CHECK_DEADLOCK FALSE
