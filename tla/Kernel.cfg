\* Three slots and four pids: while one process waits for a second, a third
\* can start a fourth in a slot that became free.  The yield takes the lock
\* as sleep does, and is left to KernelLiveness.cfg.
CONSTANTS
  N = 3
  Capacity = 1
  MaxPid = 5
  UserCalls = {"exec", "exit_lock", "wait_lookup", "read_lock", "read_async_lock", "sleep_lock"}
  Serial = Serial
  Sched = Sched
  None = None
SPECIFICATION Spec
INVARIANTS
  InterruptsMaskedWhileLocked
  HandOver
  OnlySelfWaitPanics
  NoReaderSleepsOnInput
  NoWaiterSleepsOnExited
  WaitTargetStable
  WaitReturnsTargetsStatus
  OneRunning
  PidsAreUnique
