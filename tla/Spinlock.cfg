\* Two cores, numbered from zero as cpu_local_setup numbers them, and two
\* locks, so that a core can nest them and the cores can compete.
CONSTANTS
  CPUs = {0, 1}
  Locks = {l1, l2}
SPECIFICATION Spec
INVARIANTS
  MutualExclusion
  InterruptsMaskedWhileHolding
  UnlockNeverPanics
  DeadlockPanicIsReal
CHECK_DEADLOCK FALSE
