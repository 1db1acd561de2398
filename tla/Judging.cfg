CONSTANTS
  m1 = m1
  m2 = m2
  m3 = m3
  s1 = s1
  s2 = s2
  s3 = s3
  Messages = {m1, m2, m3}
  Sources = {s1, s2, s3}
  SourceOf <- MCSourceOf
  Primary = {s1}
  Forwarded = {}
  SameText <- MCSameText
  Clusters = {c1, c2, c3}
  Nothing = Nothing
  Weight <- MCWeight
  Keywords <- MCKeywords
  PublishedAt <- MCPublishedAt
  Similarities = {70}
  Baselines = {3}
  MinMessages = 2
  MinClusters = 2
  Percentile = 75
  Fallback = 60000
  MinThreshold = 55000
  MaxThreshold = 80000
  MaxActs = 1
SPECIFICATION Spec
SYMMETRY Symmetry
INVARIANTS TypeOK CorroboratedIsTrusted
PROPERTIES TopStoryPasses LoneStoryDoesNotPass
