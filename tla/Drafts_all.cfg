SPECIFICATION Spec
CONSTANTS
  a = a
  b = b
  Callers = {a, b}
  Tools <- MCTools
  MaxRev = 2
  TTL = 1
  MaxFaults = 1
  Drafts <- MCDrafts5
  AllWords <- MCAllWords
  InRFCState <- MCInRFCState
  PageSize = 2
  ScanCap = 4
  Limit = 2
  Concurrency = 1
  MaxOffset = 2
  MaxChanges = 2
INVARIANTS TextMatchesLabel MetadataAreFresh NotFoundIsFresh SearchIsRight PagesFit
PROPERTY SearchEnds
