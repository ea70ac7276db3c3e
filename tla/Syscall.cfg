SPECIFICATION SyscallSpec
CONSTANTS
  MAX_SYSCALLS = 13
  Numbers = {0, 1, 2, 9, 13}
  Args = {0, 1, 4}
  CURRENT = 3
  ENTRY_LOW = 1052672
  ENTRY_HIGH = 0
CHECK_DEADLOCK FALSE
INVARIANT NumberDispatched
