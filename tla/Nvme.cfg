\* The admin queue has its real size; the I/O queue wraps around after three
\* commands, which makes its length differ from the number of phases.
CONSTANTS
  Blocks = {b1, b2}
  Values = {v1, v2}
  AdminQueueSize = 2
  IoQueueSize = 3
  None = None
SPECIFICATION FairSpec
INVARIANTS
  QuietBetweenCalls
PROPERTIES
  StorageSpec
  EveryCommandEnds
