SPECIFICATION Spec
CONSTANTS
    MaxRelease = 3
    MaxUpdates = 3
    MaxRecoveries = 2
    MaxInterrupts = 2
    MaxFailures = 2
CHECK_DEADLOCK FALSE
INVARIANTS
    TypeOK
    VerifiedReleaseSurvives
    CommittedIsInPlace
    FinishedHasNoMarker
    FailedOverIsThePrevious
