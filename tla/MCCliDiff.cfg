CONSTANTS
  RuleIds <- MCRuleIds
  ShortNames <- MCShortNames
  Files <- MCFiles
  Start <- MCStart
  NewLines <- MCNewLines
  Configs <- MCConfigs
  Thresholds <- MCThresholds
  MaxLines = 4
  MaxEdits = 2
  Absent = Absent
  NoBase = NoBase
  NotRun = NotRun
SPECIFICATION SessionSpec
INVARIANT DiffSeesWorkTree
