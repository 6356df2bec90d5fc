SPECIFICATION Spec
CONSTANTS
  x = x
  RFCs = {1}
  Extras = {x}
  AboutExtra <- MCAboutExtra
  Workers = 2
  TTL = 1
  MaxVersion = 2
  MaxOutages = 1
  MaxFaults = 1
  Nothing = Nothing
  Zero = Zero
  Partial = Partial
  Whole = Whole
  Broken = Broken
  NoNumber = NoNumber
INVARIANTS FilesAreWhole StampIsNotLater UpdateSeesAll ImportedIsStored
PROPERTIES RowsAreKept CommandsEnd TextsArrive
