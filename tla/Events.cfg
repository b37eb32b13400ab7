SPECIFICATION FairSpec
CONSTANTS
  t1 = t1
  t2 = t2
  c1 = c1
  Tasks = {t1, t2}
  Clients = {c1}
  TaskOf <- FirstTask
  MaxEvents = 1
PROPERTIES
  NoGap
  AllDelivered
  StreamEnds
CHECK_DEADLOCK FALSE
