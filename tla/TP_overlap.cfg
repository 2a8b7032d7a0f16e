SPECIFICATION FairSpec
CONSTANTS
    t1 = t1
    t2 = t2
    s1 = s1
    s2 = s2
    e1 = e1
    e2 = e2
    Triggers <- TwoTriggers
    Sessions <- Pushes
    EventIds <- TwoEvents
    Faults <- NoFaults
INVARIANT ProblemHasEvent
PROPERTY RoundsEnd
PROPERTY StrayEventsHeal
