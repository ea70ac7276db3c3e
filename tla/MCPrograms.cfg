SPECIFICATION MCSpec
CONSTANTS
  MAX_PROCESSES = 4
  STRIDE = 4
  MaxFrames = 12
  Programs <- Segments
  PAGE_SIZE = 4
CHECK_DEADLOCK FALSE
INVARIANTS CountMatches StacksReady GivesBack Loaded
PROPERTIES StacksKept
