SPECIFICATION Spec
CONSTANTS
    t1 = t1
    t2 = t2
    s1 = s1
    s2 = s2
    e1 = e1
    e2 = e2
    Triggers <- TwoTriggers
    Sessions <- ProbeJob
    EventIds <- TwoEvents
    Faults <- AllFaults
INVARIANT OneOpenIffProblem
INVARIANT AnnouncedState
PROPERTY TimelineSpec
