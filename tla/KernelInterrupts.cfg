CONSTANTS
  N = 2
  Capacity = 1
  MaxPid = 3
  UserCalls = {"exec", "exit_lock", "wait_lookup", "read_lock", "read_async_lock", "sleep_lock", "yield_lock"}
  Serial = Serial
  Sched = Sched
  None = None
SPECIFICATION Spec
INVARIANTS
  KernelNotInterrupted
