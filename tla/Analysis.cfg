CONSTANTS
  Procs = {w, s}
  NoProc = NoProc
  Clusters = {c1, c2}
  Nothing = Nothing
  Answers <- MCAnswers
  Budget = 2
  MaxRetries = 1
  AiLimit = 2
  Live = TRUE
  MaxSources = 2
  RejectConfidence = 40
  BatchMinConfidence = 60
  FastMinConfidence = 75
  SensitiveMinConfidence = 75
  HoldConfidence = 70
  HoldMinSources = 2
SPECIFICATION Spec
SYMMETRY Symmetry
INVARIANTS TypeOK BreakerOvershoot WritersAgree FragmentIsNeverFast FastIsNeverHeld EvidenceNeverHurts
PROPERTIES LeaseKept
