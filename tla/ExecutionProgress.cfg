SPECIFICATION FairSpec
CONSTANTS
  Workers = {w1}
  NoWorker = NoWorker
  MaxTasks = 2
  MaxActive = 2
  Lease = 1
  MaxFaults = 0
PROPERTIES
  StartsInOrder
  QueuedIsServed
  HeldTaskTerminates
  TerminalIsAudited
