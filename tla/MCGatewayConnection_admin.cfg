SPECIFICATION FairSpec
CONSTANTS
  Host = {"h1", "h2"}
  Session = {"s1", "s2", "s3"}
  Task = {"t1", "t2"}
  TaskHost <- MCTaskHost
  Workload <- MCWorkload
  MaxGeneration = 4
  Rounds = 2
CHECK_DEADLOCK FALSE
INVARIANTS
  ConnectionTypeOK
  DrainedMeansRecorded
  CandidateIsKept
PROPERTIES
  LinearAuthority
  RetirementSpares
  AdminEnds
