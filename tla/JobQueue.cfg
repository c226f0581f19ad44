SPECIFICATION FairSpec
CONSTANTS
  collection = collection
  verification = verification
  Jobs = {collection, verification}
  Workers = {w1, w2}
  NoWorker = NoWorker
  NoJob = NoJob
  JobType <- TwoTypes
  Priority <- TwoPriorities
  MaxAttempts <- TwoLimits
INVARIANTS
  TypeOK
  LeaseFencing
  PayloadLifetime
  AttemptHistory
  SuccessIsRecorded
PROPERTIES
  ImplementsLifecycle
  EverySubmittedJobSettles
