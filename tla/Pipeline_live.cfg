SPECIFICATION Spec
CONSTANTS
  RFCs = {1, 2}
  Unfetchable = {}
  Workers = 1
  MaxVersion = 2
  MaxHard = 0
  MaxSigint = 1
  Ranges <- OneRange
  RefsOf <- MCRefsOf
  Refused <- MCRefused
INVARIANT BoundedWorkers
PROPERTIES RunsEnd CorpusSpec
