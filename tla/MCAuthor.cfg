SPECIFICATION Asking
CONSTANTS
  MaxNesting = 12
  RelationNames <- MCRelationNames
  AliasNames <- MCAliasNames
  CteNames <- MCCteNames
  Plan <- MCPlan
  Habits = {}
INVARIANTS
  ClauseAgrees
  ScopeAgrees
  OutputsAgree
  KindsAgree
  SelectListAgrees
  NoClauseTwice
PROPERTY WrittenWordOffered
CHECK_DEADLOCK FALSE
