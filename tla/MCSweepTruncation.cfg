CONSTANTS
  None = None
  Tasks <- TwoTasks
  Agentic <- TwoTasks
  Revisions <- TwoRevisions
  Executions <- MCExecutions
  Refs <- MCRefs
  Labels <- TwoRevisions
  Branches <- MCBranches
  HeadBranch <- MCHeadBranch
  Runs <- MCRuns
  Checks <- MCChecks
  PageSize = 1
  Usage <- MCUsage
  Scenarios <- LongPull
SPECIFICATION Spec
INVARIANTS TruncationReported
