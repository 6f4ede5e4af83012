SPECIFICATION Asking
CONSTANTS
  MaxNesting = 12
  RelationNames <- MCRelationNames
  AliasNames <- MCAliasNames
  CteNames <- MCCteNames
  Plan <- BodiesPlan
  Habits = {}
PROPERTY NoWordWithheld
CHECK_DEADLOCK FALSE
