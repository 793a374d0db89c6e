CONSTANTS
  None = None
  Tasks <- OneTask
  Agentic <- OneTask
  Revisions <- ThreeRevisions
  Executions <- MCExecutions
  Refs <- MCRefs
  Labels <- ThreeRevisions
  Branches <- MCBranches
  HeadBranch <- MCHeadBranch
  Runs <- NoEvidence
  Checks <- NoEvidence
  Usage <- NoEvidence
  Scenarios <- AbsorbedHistory
SPECIFICATION Spec
INVARIANTS LedgerAuditable
CHECK_DEADLOCK FALSE
