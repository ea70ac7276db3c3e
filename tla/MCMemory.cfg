SPECIFICATION MCSpec
CONSTANTS
  PAGE = 64
  INIT_PAGES = 2
  HEAP_START = 1000
  Requests <- MCRequests
  MaxFrames = 4
  SPAN = 2
  Pages <- MCPages
  Frames <- MCFrames
  FlagSets <- MCFlagSets
  Leftovers <- MCLeftovers
  POOL = 4
  OFFSET = 0
CHECK_DEADLOCK FALSE
INVARIANTS HeapTiled NoAdjacentFree LiveDisjoint HeapBacked TableTree TlbCoherent
PROPERTIES LiveBlockStable ImplementsAddressSpace
