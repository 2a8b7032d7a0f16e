SPECIFICATION Spec
CONSTANTS
  Lookback = 2
  Retention = 6
  TrendRetention = 8
  Interval = 3
  MaxLate = 2
  MaxAhead = 1
  MaxGap = 2
  MaxTime = 11
  MaxSamples = 3
INVARIANTS NoSampleLost TrendsComplete PollsSpaced
PROPERTY TrendsOnlyGrow
