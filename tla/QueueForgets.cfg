SPECIFICATION Spec
CONSTANTS
    Requests <- TwoRequests
    NoRequest = NoRequest
    MaxAttempts = 2
    MaxRevision = 1
INVARIANTS BuildAwaited
