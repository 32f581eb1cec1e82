SPECIFICATION FairSpec
CONSTANTS
  Users = {u1, u2}
  Printers = {p1, p2}
  QUEUE_SIZE = 2
  Jobs = {a, b}
  NoJob = NoJob
INVARIANTS
  TypeOK
  MutualExclusion
  SlotsConserved
  QueueConsistent
PROPERTIES
  ImplementsSpool
  JobsKeepMoving
