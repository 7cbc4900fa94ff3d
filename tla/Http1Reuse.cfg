SPECIFICATION Spec
CONSTANT Scenarios <- RejectScenarios
INVARIANT BodyBeforeHead
CHECK_DEADLOCK FALSE
