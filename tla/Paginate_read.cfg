SPECIFICATION Spec
CONSTANTS
  Texts <- MCTexts
  Offsets <- MCOffsets
  LineLimits <- MCLineLimits
  ByteLimits <- MCByteLimits
  DefaultLines = 3
  MaxInt = 40
INVARIANTS PageAdvances WithinLimits NotShort
PROPERTY ReadingEnds
CHECK_DEADLOCK FALSE
