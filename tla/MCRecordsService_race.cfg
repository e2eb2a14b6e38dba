SPECIFICATION ServiceSpec
CONSTANTS
  NoInput = NoInput
  Workflow = {"w1", "w2", "w3"}
  Delivery = {"d1", "d2", "d3", "d4"}
  ActionOf <- MCActionOf
  TargetOf <- MCTargetOf
  Reads = {"w2"}
  MaxDisclosed = 1
  Traffic <- RaceTraffic
  Input = {"d1", "d2", "d3", "d4"}
  InputsOf <- MCInputsOf
  Eligible = {"d1", "d2", "d3", "d4"}
  Cancellable = {}
  Intent = {"unit", "pair"}
  Plan <- MCPlan
  Key <- MCKey
  Amount <- MCAmount
  Additive = {"units"}
  Ceiling <- TwoUnits
  Exclusive = {}
  Retain = {}
  MaxRecords = 2
  MaxEvents = 12
  MaxAttempts = 2
  MaxObservations = 2
  Durable = TRUE
CHECK_DEADLOCK FALSE
INVARIANT EffectKeepsCapacity
