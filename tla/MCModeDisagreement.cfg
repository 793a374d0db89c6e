CONSTANTS
  Nil = Nil
  Times <- OneTime
  Components <- MCComponents
  Scopes <- DisagreeingScopes
SPECIFICATION Spec
INVARIANTS GroupAbstains
CHECK_DEADLOCK FALSE
