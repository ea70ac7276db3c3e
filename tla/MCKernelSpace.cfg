SPECIFICATION Spec
CONSTANTS
  HEAP_PAGES = 1024
  HEAP_MAX = 1026
  TASK_PAGES = 16
  PROC_STRIDE = 256
  MAX_TASKS = 2
  MAX_PROCESSES = 2
CHECK_DEADLOCK FALSE
PROPERTIES HeapReserved
