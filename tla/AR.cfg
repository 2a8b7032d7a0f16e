SPECIFICATION FairSpec
CONSTANTS
  w1 = w1
  m1 = m1
  h1 = h1
  c1 = c1
  c2 = c2
  a1 = a1
  hourly = hourly
  Windows <- MCWindows
  Monitors <- MCMonitors
  Hosts <- MCHosts
  Channels <- MCChannels
  Alerts <- MCAlerts
  Patterns <- MCPatterns
  Fires <- MCFires
  Forms <- MCForms
  Severities <- MCSeverities
  Faults <- MCFaults
  MaxTime = 2
  MaxEdits = 2
INVARIANT TypeOK
PROPERTIES WindowsHonoured DeliverySpec SteadyChannelsTold
