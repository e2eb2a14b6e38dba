SPECIFICATION StoresSpec
CONSTANTS
  NoInput = NoInput
  Workflow = {"w1", "w2"}
  Input <- MCInput
  InputsOf <- MCInputsOf
  Eligible <- MCInput
  Cancellable <- MCInput
  Intent = {"unit"}
  Plan <- MCPlan
  Key <- MCKey
  Amount <- MCAmount
  Additive = {"units"}
  Ceiling <- MCCeiling
  Exclusive = {}
  Retain = {}
  MaxRecords = 2
  MaxEvents = 12
  MaxAttempts = 2
  MaxObservations = 2
  Durable = TRUE
  MaxFailures = 2
  MaxRestarts = 2
  Name = {"claim1", "claim2", "slot", "conn"}
  Slot = {"slot"}
  Single = {"conn"}
  Batch = {"b1", "b2"}
  Targets <- MCTargets
  MaxVersion = 1
  MaxFaults = 2
  MaxLosses = 2
CHECK_DEADLOCK FALSE
INVARIANTS
  AcknowledgedSurvives
  SurvivorsAreSound
  ConfirmedStays
PROPERTY ImplementsRecords
