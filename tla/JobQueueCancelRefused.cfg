SPECIFICATION Spec
CONSTANTS
  collection = collection
  verification = verification
  Jobs = {collection}
  Workers = {w1, w2}
  NoWorker = NoWorker
  NoJob = NoJob
  JobType <- OneSnapshot
  Priority <- OnePriority
  MaxAttempts <- OneLimit
SYMMETRY WorkerSymmetry
INVARIANTS
  CancelNeverFails
