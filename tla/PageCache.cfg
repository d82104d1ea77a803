\* Lists of one entry, so that the second block needs a second list.  The two
\* blocks, that list and the buffer of nvme_read take four frames, and the
\* rest of the kernel has one more.
CONSTANTS
  Frames = {f1, f2, f3, f4, f5}
  Blocks = {0, 1}
  Values = {v1, v2}
  PARTITION_OFFSET = 3
  SectorsPerBlock = 2
  PAGECACHE_ENTRY_COUNT = 1
  Other = Other
  None = None
SPECIFICATION Spec
SYMMETRY Symmetry
\* A panic halts the machine.
CHECK_DEADLOCK FALSE
INVARIANTS
  FrameHasOneOwner
  CleanIsOnDisk
PROPERTIES
  StorageSpec
