SPECIFICATION FairSpec
CONSTANTS
  p1 = p1
  p2 = p2
  Problems <- TwoProblems
  Ladders <- Single
  MaxOrder = 2
  MaxTime = 1
  Faults <- Restarts
PROPERTIES StopsOnceHandled StepsAscend DueStepsExecuted EscalatesWhileOpen
