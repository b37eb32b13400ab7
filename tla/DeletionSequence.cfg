SPECIFICATION FairSpec
CONSTANTS
  Requests = {o1, o2}
  NoRequest = NoRequest
  MaxFaults = 3
INVARIANTS
  Recoverable
  RestIsConsistent
PROPERTIES
  NoRestoreWithoutRow
  CrashIsRepaired
CHECK_DEADLOCK FALSE
