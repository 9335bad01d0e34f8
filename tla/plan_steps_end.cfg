SPECIFICATION Spec
CONSTANTS
  NoNode = NoNode
  Names <- MCNames
  UserIds <- MCUserIds
  Refs <- MCRefs
CHECK_DEADLOCK FALSE
INVARIANT EndBranchEnds
