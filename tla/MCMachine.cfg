SPECIFICATION MCSpec
CONSTANTS
  MAX_MEMORY_MAP_ENTRIES = 3
  WORD = 8
  Entries <- MCEntries
  Sizes = {0, 24}
  Devices = {0, 2, 7}
  MaxAnswers = 1
  SLICE = 2
  GateVectors <- MCGateVectors
  ErrorCodes = {0, 4}
  SIZE = 4
  Scancodes = {1, 2, 3, 5, 130}
  scancode_to_ascii <- MCTable
CHECK_DEADLOCK FALSE
INVARIANTS PmmMatchesRecord NeverAnException EoiMatches FrameRight
PROPERTIES MCBootGoesOn MCTimerGoesOn KeysArrive ImplementsInputQueue EveryKeyTaken
