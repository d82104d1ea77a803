\* Blocks of two, three and four headers out of chunks of four: three chunks,
\* or two and gaps.
CONSTANTS
  HeaderBytes = 2
  MoreUnits = 4
  Sizes = {2, 3, 5}
  Gaps = {1}
  MaxBreak = 12
  None = None
SPECIFICATION MallocSpec
\* The heap may be used up.
CHECK_DEADLOCK FALSE
INVARIANTS
  BlocksTileTheHeap
  FreeListInOrder
