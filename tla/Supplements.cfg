CONSTANTS
  Stories = {c1, c2}
  Messages = {1, 2, 3}
  alike = alike
  other = other
  Prefixes <- MCPrefixes
  PrefixOf <- MCPrefixOf
  Plain = Plain
  Marked = Marked
  MaxRetries = 2
  MaxFaults = 2
SPECIFICATION Spec
INVARIANTS
  TypeOK
  RetractedIsMarked
  RecordedIsShown
  RepeatsAreFaults
  HeldStands
PROPERTIES
  MessageIsPlaced
