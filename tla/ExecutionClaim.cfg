SPECIFICATION Spec
CONSTANTS
  Workers = {w1, w2}
  NoWorker = NoWorker
  MaxTasks = 1
  MaxActive = 1
  Lease = 1
  MaxFaults = 2
INVARIANTS
  AtMostOnce
  CompletedMeansExit0
  NoEarlyAudit
PROPERTIES
  ClaimSpec
