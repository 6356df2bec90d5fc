SPECIFICATION Safety
CONSTANTS
  RFCs = {1, 2, 3}
  Unfetchable = {3}
  Workers = 2
  MaxVersion = 2
  MaxHard = 1
  MaxSigint = 1
  Ranges <- MCRanges
  RefsOf <- MCRefsOf
  Refused <- MCRegression
INVARIANTS TypeOK TornOnlyWhereCut SuccessIsComplete
PROPERTIES UpdateOnlyAdds
