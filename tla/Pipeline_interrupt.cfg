SPECIFICATION Safety
CONSTANTS
  RFCs = {1, 2, 3}
  Unfetchable = {}
  Workers = 1
  MaxVersion = 1
  MaxHard = 0
  MaxSigint = 1
  Ranges <- OneRange
  RefsOf <- MCRefsOf
  Refused <- NoneRefused
INVARIANT StampedWhenProcessed
