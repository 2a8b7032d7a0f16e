SPECIFICATION FairSpec
CONSTANTS
    m1 = m1
    Monitors <- OneMonitor
    Intervals <- TwoIntervals
    MaxRetries = 0
    StatusEdits <- PauseResume
    Faults <- WindowsAndForms
PROPERTY JobsFollowRows
PROPERTY PauseStops
PROPERTY TransitionAlerted
PROPERTY KeepsProbing
