SPECIFICATION MCSpec
CONSTANTS
  NTASKS = 4
  SLICE = 2
  Naps <- MCNaps
  TICK_WORD = 16
  MsPerTick = 2
  Delays = {0, 3, 5, 14}
  MaxLate = 3
  VGA_WIDTH = 3
  VGA_HEIGHT = 2
  Printable = {" ", "a"}
  MaxLines = 2
  WORD = 32
CHECK_DEADLOCK FALSE
INVARIANTS OnlyInitialisedRuns TicksOnlyInMain RoundRobin SleepExact OneLineOut
PROPERTIES ImplementsScheduler MCTicksGoOn TasksRun SleepReturns ImplementsTerminal
