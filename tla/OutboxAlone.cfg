CONSTANTS
  c1 = c1
  c2 = c2
  c3 = c3
  Items = {c1, c2, c3}
  Workers = {w1}
  Scripts = {}
  None = None
  Similar <- SameStory
  BatchLimit = 1
  Crashes = FALSE
  LostAnswers = FALSE
  MaxFaults = 3
SPECIFICATION Spec
INVARIANT SimilarPublishedBounded
PROPERTIES PublishesOnce
