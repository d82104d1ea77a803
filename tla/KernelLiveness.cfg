\* The programs cooperate; three slots, so that one process can starve another.
CONSTANTS
  N = 3
  Capacity = 1
  MaxPid = 4
  UserCalls = {"exec", "exit_lock", "wait_lookup", "yield_lock"}
  Serial = Serial
  Sched = Sched
  None = None
SPECIFICATION FairSpec
PROPERTIES
  RunnableRuns
  WaiterReturns
