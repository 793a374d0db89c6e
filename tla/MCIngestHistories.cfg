CONSTANTS
  None = None
  Tasks <- OneTask
  Agentic <- OneTask
  Revisions <- ThreeRevisions
  Executions <- MCExecutions
  Refs <- MCRefs
  Labels <- ThreeRevisions
  Branches <- MCBranches
  HeadBranch <- MCHeadBranch
  Runs <- NoEvidence
  Checks <- NoEvidence
  Usage <- NoEvidence
  Scenarios <- Histories
SPECIFICATION Spec
INVARIANTS SweepTellsHistory AuditableIfOrdered AgreesUnlessRevived MergedNeverReplacedIfTied
CHECK_DEADLOCK FALSE
