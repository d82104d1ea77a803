\* Two processes with more files than inodes: the table fills up, inodes and
\* dnodes are reused, and both read, write and seek in one file.
CONSTANTS
  Procs = {p1, p2}
  Names = {a, b}
  Dnodes = {d1, d2}
  Devices = {"serial", "fb"}
  MAX_OPEN_FILES = 4
  MAX_INODES = 2
  MaxSize = 2
  MaxRefs = 3
  Word = 8
  Unlinks = "closed"
  None = None
SYMMETRY Symmetry
SPECIFICATION Spec
INVARIANTS
  SizeIsOnDisk
  OffsetsWithinFile
  InodesOutliveTheirUsers
  OneInodePerDnode
\* A panic halts the machine.
CHECK_DEADLOCK FALSE
