SPECIFICATION Spec
CONSTANTS
  Calls = {"c1", "c2"}
  Keys = {"k"}
  CloudModels = {"m1", "m2"}
  BuiltIn = {"m1"}
  LocalModels = {"l1"}
  PricingTasks = {1, 2}
  MaxPrice = 3
  MaxTime = 2
  Tasks = {1, 2}
  Retries = 1
  Scenarios <- MCScenarios
  Edits <- MCEdits
  Selections <- MCSelections
  Governances <- MCGovernances
  Families = {"text", "image", "vision"}
  MaxInFlight = 2
  MinInFlight = 1
  MaxWork = 4
INVARIANTS
  AnswersAgree
  SelectedInBoundary
  AdmissionsAccounted
  OperatorPriceKept
PROPERTY
  EveryCallEnds
CHECK_DEADLOCK FALSE
