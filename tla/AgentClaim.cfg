SPECIFICATION FairSpec
CONSTANTS
  Workers = {w1, w2}
  NoWorker = NoWorker
  MaxRuns = 1
  Legacy = {1}
  Audited = {1}
  Lease = 1
  MaxFaults = 1
INVARIANTS
  StatusIsReported
PROPERTIES
  ClaimSpec
  OrphanIsRecovered
  CancelStopsRun
