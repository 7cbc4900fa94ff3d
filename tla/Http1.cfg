SPECIFICATION Spec
CONSTANT Scenarios <- MCScenarios
INVARIANTS ResponseFraming PayloadWhole TimerNotStale BodyBeforeHead
PROPERTIES KeepAliveIdle ConnectionEnds
\* The dispatcher is done.
CHECK_DEADLOCK FALSE
