SPECIFICATION FairSpec
CONSTANTS
    Ids = {e1}
    Scopes = {s1}
    Items = {e1, s1}
    MaxSteps = 3
    MaxActive = 1
    MaxRetries = 1
    MaxCancels = 2
    Modes = {"plain", "batch", "single"}
INVARIANTS
  ReportedWasShown
  ReportsAreExact
  WithinPolicy
  AuditIsTrue
PROPERTIES
  SealedIsFinal
  RunEnds
\* Nothing happens after a run has ended; that it ends is RunEnds.
CHECK_DEADLOCK FALSE
