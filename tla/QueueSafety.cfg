SPECIFICATION Spec
CONSTANTS
    Requests <- TwoRequests
    NoRequest = NoRequest
    MaxAttempts = 2
    MaxRevision = 2
INVARIANTS WaitingTakesOver NothingForgotten HonestStatus
PROPERTIES DecisionsStay DeployedMovesForward
