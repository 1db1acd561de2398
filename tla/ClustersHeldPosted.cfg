CONSTANTS
  m1 = m1
  m2 = m2
  m3 = m3
  s1 = s1
  s2 = s2
  s3 = s3
  Messages = {m1, m2, m3}
  Sources = {s1, s2, s3}
  SourceOf <- SourceOfMessage
  Primary = {s1}
  Forwarded = {}
  SameText <- NoCopies
  RejectConfidence = 40
  BatchMinConfidence = 60
  FastMinConfidence = 75
  SensitiveMinConfidence = 75
  HoldConfidence = 70
  HoldMinSources = 2
  Clusters = {c1}
  Answers <- AllAnswers
  Nothing = Nothing
  AiLimit = 20
  Live = TRUE
  Operated = FALSE
  MaxFaults = 0
SPECIFICATION Spec
PROPERTY HeldIsNotPosted
