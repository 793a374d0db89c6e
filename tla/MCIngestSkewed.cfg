CONSTANTS
  None = None
  Tasks <- OneTask
  Agentic <- OneTask
  Revisions <- TwoRevisions
  Executions <- MCExecutions
  Refs <- MCRefs
  Labels <- TwoRevisions
  Branches <- MCBranches
  HeadBranch <- MCHeadBranch
  Runs <- NoEvidence
  Checks <- NoEvidence
  Usage <- NoEvidence
  Scenarios <- SkewedHistory
SPECIFICATION Spec
INVARIANTS ReplacedNeverMerged
CHECK_DEADLOCK FALSE
