SPECIFICATION Spec
CONSTANTS
  Trees <- MCTrees
  Expressions <- MCExpressions
  Imports <- MCImports
  Methods <- MCMethods
  NoProfile = NoProfile
  Nothing = Nothing
INVARIANTS
  ProfileTypeOK
  SameTreeSameStack
  NestOutranksTransport
  AdaptersAddNothing
  SourcesAgree
  BodyAlwaysTaints
PROPERTY WorkspaceOnlyAdds
CHECK_DEADLOCK FALSE
