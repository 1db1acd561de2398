CONSTANTS
  m1 = m1
  m2 = m2
  m3 = m3
  s1 = s1
  s2 = s2
  Sources = {s1, s2}
  Messages = {m1}
  SourceOf <- SourceOfMessage
  None = None
  Never = Never
  Overlap = 1
  Lookback = 2
  PageSize = 1
  MaxPages = 2
  Delay = 1
  Failing = {}
  MaxTime = 2
  MaxVersion <- NoEdit
  MaxErrors = 1
  MaxFaults = 2
SPECIFICATION LiveSpec
PROPERTY SourceIsFetched
