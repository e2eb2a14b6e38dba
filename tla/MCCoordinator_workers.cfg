SPECIFICATION CoordinatorSpec
CONSTANTS
  NoInput = NoInput
  Workflow = {"w1"}
  Reference = {"r1", "r2"}
  Session = {"s1", "s2"}
  Worker = {"k1", "k2"}
  MaxAbandon = 2
  Input <- MCInput
  InputsOf <- MCInputsOf
  Eligible <- MCInput
  Cancellable <- MCInput
  Intent = {"unit"}
  Plan <- MCPlan
  Key <- MCKey
  Amount <- MCAmount
  Additive = {"units"}
  Ceiling <- MCCeiling
  Exclusive = {}
  Retain = {}
  MaxRecords = 2
  MaxEvents = 12
  MaxAttempts = 2
  MaxObservations = 2
  Durable = TRUE
CHECK_DEADLOCK FALSE
INVARIANTS
  CoordinatorTypeOK
  EffectKeepsCapacity
  AtMostOneCall
  LiveStageIsCurrent
  ReferencesIdentify
  ObservationStands
 
