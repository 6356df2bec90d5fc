SPECIFICATION Spec
CONSTANTS
  Titles <- MCTitles
  Known <- MCKnown
  Upper <- MCUpper
  Plain <- MCPlain
  MaxPlain = 1
  Fronts <- MCFronts
  Body <- MCBody
  MaxBody = 3
  Listed <- MCListed
  MaxListed = 2
INVARIANT AlwaysReturns
CHECK_DEADLOCK FALSE
