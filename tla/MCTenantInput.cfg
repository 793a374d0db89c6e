CONSTANTS
  Nil = Nil
  Times <- MCTimes
  Components <- MCComponents
  Scopes <- MCScopes
SPECIFICATION Spec
INVARIANTS RowsAddUp SomeWorkSurvives OrderIndependent
PROPERTIES ChargesStand
CHECK_DEADLOCK FALSE
