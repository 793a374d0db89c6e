CONSTANTS
  None = None
  Tasks <- TwoTasks
  Agentic <- TwoTasks
  Revisions <- TwoRevisions
  Executions <- MCExecutions
  Refs <- MCRefs
  Labels <- TwoRevisions
  Branches <- MCBranches
  HeadBranch <- MCHeadBranch
  Runs <- MCRuns
  Checks <- MCChecks
  Usage <- MCUsage
  Scenarios <- CiHistories
SPECIFICATION Spec
INVARIANTS TypeOK EvidenceComplete PaidOnceIfUsageKnown BindingsNeverInvented
CHECK_DEADLOCK FALSE
