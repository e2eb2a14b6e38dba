SPECIFICATION Spec
CONSTANTS
  NoInput = NoInput
  Workflow <- MCWorkflow
  Input <- MCInput
  InputsOf <- MCInputsOf
  Eligible <- MCEligible
  Cancellable <- MCCancellable
  Intent <- MCIntent
  Plan <- MCPlan
  Key <- MCKey
  Amount <- MCAmount
  Additive = {"units"}
  Ceiling <- MCCeiling
  Exclusive = {"ref", "lock"}
  Retain = {"lock"}
  MaxRecords = 3
  MaxEvents = 12
  MaxAttempts = 2
  MaxObservations = 2
  Durable = FALSE
CHECK_DEADLOCK FALSE
INVARIANTS
  TypeOK
  AdditiveCapacity
  ExclusiveCapacity
  OneExecution
  RecordsEncode
PROPERTIES
  UseReturnedOnlyByRelease
  HistoryGrows
  ImplementsLedger
