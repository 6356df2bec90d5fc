SPECIFICATION Spec
CONSTANTS
  Titles <- MCTitles
  Known <- MCKnown
  Upper <- MCUpper
  Plain <- MCPlain
  MaxPlain = 4
  Fronts <- MCFronts
  Body <- MCBody
  MaxBody = 3
  Listed <- MCListed
  MaxListed = 3
INVARIANTS SectionsAreATree TextIsKept NestedByNumber
CHECK_DEADLOCK FALSE
