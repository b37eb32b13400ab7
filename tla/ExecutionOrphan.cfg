SPECIFICATION FairSpec
CONSTANTS
  Workers = {w1}
  NoWorker = NoWorker
  MaxTasks = 1
  MaxActive = 1
  Lease = 1
  MaxFaults = 1
PROPERTIES
  OrphanIsRecovered
