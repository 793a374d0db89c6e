CONSTANTS
  None = None
  Tasks <- MCTasks
  Executions <- MCExecutions
  Refs <- MCRefs
  Labels <- MCLabels
  Policies <- MCPolicies
  Forbidden <- MCForbidden
  Family <- MCFamily
  Noise <- MCNoise
  Requests <- MCRequests
  Hints <- MCHints
  Scenarios <- MCScenarios
SPECIFICATION Spec
INVARIANTS BooksBalance RequestsOnlyTighten LearnsWhatLedgerKnows
PROPERTIES OneRecordCountsOnce
CHECK_DEADLOCK FALSE
