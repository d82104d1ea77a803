\* Three slots, so that a slot can be reused while two others run.
CONSTANTS
  N = 3
  Values = {v1, v2}
  Zero = Zero
  CpuLocal = CpuLocal
  Tables = {t1, t2, t3}
  kernel_pagetable = kernel_pagetable
  NULL = NULL
SPECIFICATION LazySpec
\* When the last process has exited nothing is left to run.
CHECK_DEADLOCK FALSE
INVARIANTS
  OwnRegisters
  InstalledTableIsLive
