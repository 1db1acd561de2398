CONSTANTS
  c1 = c1
  c2 = c2
  c3 = c3
  Items = {c1, c2}
  Workers = {w1}
  Scripts = {s1}
  None = None
  Similar <- NoStory
  BatchLimit = 1
  Crashes = FALSE
  LostAnswers = FALSE
  MaxFaults = 0
SPECIFICATION Spec
INVARIANT AtMostOncePost
