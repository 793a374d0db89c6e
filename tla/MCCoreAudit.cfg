CONSTANTS
  None = None
  Tasks <- MCTasks
  Executions <- MCExecutions
  Refs <- MCRefs
  Labels <- MCLabels
  Scenarios <- CoreScenarios
SPECIFICATION Spec
INVARIANTS TypeOK OutcomeFromEvidence OrderFreeFacts MoneyConserved PositionsFromEvidence
INVARIANTS RepeatsHaveFreeOriginal ChargedOnce ReportAddsUp AbortChargesJustified
PROPERTIES OutcomeNeverWeakens RepeatChargesStand
CHECK_DEADLOCK FALSE
