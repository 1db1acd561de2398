CONSTANTS
  c1 = c1
  c2 = c2
  c3 = c3
  Items = {c1, c2}
  Workers = {w1}
  Scripts = {s1}
  None = None
  Similar <- SameStory
  BatchLimit = 1
  Crashes = TRUE
  LostAnswers = TRUE
  MaxFaults = 2
SPECIFICATION LiveSpec
INVARIANT TypeOK
INVARIANT SendsSerialised
INVARIANT LedgerBacked
INVARIANT RepeatsAreBounded
PROPERTY DryRunNeverSends
PROPERTY PendingIsProcessed
