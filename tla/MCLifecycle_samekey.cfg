SPECIFICATION Spec
CONSTANTS
  NoInput = NoInput
  Workflow <- MCWorkflow
  Input <- MCInput
  InputsOf <- MCInputsOf
  Eligible <- MCEligible
  Cancellable <- MCCancellable
  Intent <- MCIntent
  Plan <- SameKeyPlan
  Key <- MCKey
  Amount <- MCAmount
  Additive = {"units"}
  Ceiling <- SameKeyCeiling
  Exclusive = {"ref", "lock"}
  Retain = {"lock"}
  MaxRecords = 3
  MaxEvents = 12
  MaxAttempts = 2
  MaxObservations = 2
  Durable = TRUE
CHECK_DEADLOCK FALSE
INVARIANT AdditiveCapacity
