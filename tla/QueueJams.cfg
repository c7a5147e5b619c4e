SPECIFICATION FairSpec
CONSTANTS
    Requests <- TwoRequests
    NoRequest = NoRequest
    MaxAttempts = 1
    MaxRevision = 1
PROPERTIES LeasesRecover
