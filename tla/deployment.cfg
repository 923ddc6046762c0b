SPECIFICATION Spec
CONSTANTS
    MaxRuns = 2
INVARIANTS
    TypeOK
    AppCanPull
    SecretStaysValid
    DeployedIsComplete
PROPERTIES
    SigningKeyIsKept
CHECK_DEADLOCK FALSE
