CONSTANTS
  m1 = m1
  m2 = m2
  m3 = m3
  s1 = s1
  s2 = s2
  Sources = {s1}
  Messages = {m1, m2, m3}
  SourceOf <- SourceOfMessage
  None = None
  Never = Never
  Overlap = 2
  Lookback = 2
  PageSize = 1
  MaxPages = 2
  Delay = 1
  Failing = {}
  MaxTime = 3
  MaxVersion <- EditTwice
  MaxErrors = 1
  MaxFaults = 1
SYMMETRY Interchangeable
SPECIFICATION Spec
INVARIANT TypeOK
PROPERTY CleanFetchLeavesNothing
PROPERTY RowsNeverRegress
