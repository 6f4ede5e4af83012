SPECIFICATION Asking
CONSTANTS
  MaxNesting = 12
  RelationNames <- MCRelationNames
  AliasNames <- MCAliasNames
  CteNames <- MCCteNames
  Plan <- HabitPlan
  Habits = {"comma"}
INVARIANT ScopeAgrees
CHECK_DEADLOCK FALSE
