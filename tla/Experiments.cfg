SPECIFICATION FairSpec
CONSTANTS
    Comparisons = {1, 2}
    RunBytes = 1
    TotalBytes = 3
    Snapshot = 0
    Audited = {2}
    Cancelled <- SomeRuns
    Conflicting <- FirstRun
    MaxWorkers = 1
    MaxDiagnoses = 1
    MaxFaults = 1
INVARIANTS
  AuditInv
  ExplainedOnce
PROPERTIES
  ReviewPinsAudit
  ReservationReturned
CHECK_DEADLOCK FALSE
