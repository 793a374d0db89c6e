CONSTANTS
  NoId = NoId
  MaxSeq = 6
  EventIds <- MCEventIds
  AutoId <- MCAutoId
  Bodies <- MCBodies
  Conforming <- MCConforming
  Batches <- MCBatches
SPECIFICATION Spec
INVARIANTS TypeOK SeqStrictlyMonotonic CallerIdsUnique NoSilentLoss IdsClashOnlyIfForged
PROPERTY ImplementsEvidenceLog
CHECK_DEADLOCK FALSE
