SPECIFICATION Spec
CONSTANTS
    MaxRuns = 2
INVARIANTS
    DeployedHasIdentifier
CHECK_DEADLOCK FALSE
