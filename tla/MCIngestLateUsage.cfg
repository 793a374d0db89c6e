CONSTANTS
  None = None
  Tasks <- OneTask
  Agentic <- OneTask
  Revisions <- TwoRevisions
  Executions <- MCExecutions
  Refs <- MCRefs
  Labels <- TwoRevisions
  Branches <- MCBranches
  HeadBranch <- MCHeadBranch
  Runs <- MCRuns
  Checks <- NoEvidence
  Usage <- NoEvidence
  Scenarios <- LateUsageHistory
SPECIFICATION Spec
INVARIANTS MinutesPaidOnce
CHECK_DEADLOCK FALSE
