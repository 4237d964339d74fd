\* Every rule, handlers of any length over two variables.
CONSTANTS
  Names = {"u", "p"}
  SecretNames = {"p"}
  RuleNames <- MCRules
  Projects <- MCProjects
  Forms <- MCForms
  Positions <- MCPositions
  MaxNesting <- MCNesting
  MaxShortcuts <- MCShortcuts
  MaxRounds = 10
  NoSignal = NoSignal
SPECIFICATION ReachSpec
INVARIANTS
  ReachTypeOK
  NoMissedFlow
  NoFalseAlarm
  TierExact
  CountedFlagsExact
CHECK_DEADLOCK FALSE
