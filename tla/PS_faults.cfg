SPECIFICATION Spec
CONSTANTS
    m1 = m1
    Monitors <- OneMonitor
    Intervals <- OneInterval
    MaxRetries = 2
    StatusEdits <- PauseResume
    Faults <- ServerFaults
INVARIANT TypeOK
INVARIANT StatusIsLastVerdict
INVARIANT SubscribersInformed
INVARIANT NoRepeatedAlert
PROPERTY DownOnlyAfterRetries
PROPERTY FeedSpec
