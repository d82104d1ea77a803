\* Tables of four entries, four levels as in the code: pages 0 to 63 are the user's, the
\* last entry of every root is the kernel's, with one table behind it.
CONSTANTS
  Procs = {p1, p2}
  KernelTables = 1
  PAGETABLE_PTE_COUNT = 4
  PAGE_SIZE = 2
  USER_STACK = 31
  INTSTACK = 63
  SYSCALLSTACK = 62
  VA_MIN = 1
  VA_MAX = 64
  KernelHalf = {3}
  Images <- SomeImages
  Requests = {1, 3}
  Scenarios <- SomeScenarios
  MaxBreak = 9
  NULL = NULL
SPECIFICATION MemorySpec
\* Memory may run out.
CHECK_DEADLOCK FALSE
INVARIANTS
  FrameHasOneUse
  HeapMatchesBreak
  BreakIsMapped
