SPECIFICATION FairSpec
CONSTANTS
  Ids = {i1, i2}
  Imports = {i1}
  Users = {u1}
  MaxEntries = 2
  MaxPerUser = 1
  Ttl = 1
  NoImport = NoImport
  Stale = 2
  MaxFaults = 3
INVARIANTS
  Consistent
  Recoverable
  ReportIsTrue
PROPERTIES
  LeftoverIsCollected
  RunningEnds
