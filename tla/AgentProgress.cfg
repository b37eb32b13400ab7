SPECIFICATION FairSpec
CONSTANTS
  Workers = {w1}
  NoWorker = NoWorker
  MaxRuns = 2
  Legacy = {1}
  Audited = {2}
  Lease = 1
  MaxFaults = 1
PROPERTIES
  QueuedIsServed
