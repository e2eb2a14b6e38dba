CONSTANTS
  opA = opA
  opB = opB
  opC = opC
  recR = recR
  recS = recS
  task1 = task1
  task2 = task2
  bytesX = bytesX
  bytesY = bytesY
  hourly = hourly
  spend = spend
  team = team
  Op <- MCOp
  Recovery <- MCRecovery
  SourceOf <- MCSourceOf
  Workload <- MCWorkload
  Task <- MCTask
  Counter <- MCCounter
  Sums <- MCSums
  RowsOf <- MCRowsOf
  CapacityOf <- MCCapacityOf
  BoundOf <- MCBoundOf
  Amount <- MCAmount
  Engagement <- MCEngagement
  CeilingOf <- MCCeilingOf
  EngagementOf <- MCEngagementOf
  Reads <- MCReads
  Checkpoints <- MCCheckpoints
  ObservationOf <- MCObservationOf
  Echo <- MCEcho
  RecoveryAttempts = 1
  EntryDeadline = 1
  EvidenceAge = 0
  RecoveryAge = 0
  MaxRevision = 9
SPECIFICATION FairSpec
INVARIANTS
  SubmitTypeOK
  AtMostOneSend
  JournalTellsTruth
  WindowCapacity
  LifetimeCapacity
  LedgerExact
  PrerequisitesFirst
PROPERTIES
  SubmissionEnds
  ImplementsGate
CHECK_DEADLOCK FALSE
