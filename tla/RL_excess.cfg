SPECIFICATION Spec
CONSTANTS
  c1 = c1
  c2 = c2
  Clients <- MCClients
  LoginLimit = 2
  IngestLimit = 0
  Window = 2
  CleanEvery = 3
  MaxTime = 5
  MaxCalls = 7
SYMMETRY MCSymmetry
INVARIANT WindowBound
