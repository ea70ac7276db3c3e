SPECIFICATION MCSpec
CONSTANTS
  PAGE = 64
  INIT_PAGES = 2
  HEAP_START = 1000
  Requests <- MCRequests
  MaxFrames = 4
  SPAN = 2
  Pages <- MCPages
  Frames <- MCFrames
  FlagSets <- MCFlagSets
  Leftovers <- MCLeftovers
  POOL = 4
  OFFSET = 1
CHECK_DEADLOCK FALSE
PROPERTY MapsThePage
