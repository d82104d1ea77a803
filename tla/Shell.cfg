\* A line of five characters, cut into at most three arguments; a ring of
\* three, so that input is typed ahead and lost.
CONSTANTS
  SERIAL_BUFFER_LENGTH = 3
  Chars = {x, SP, DEL, CR}
  CR = CR
  NL = NL
  Letter = x
  SP = SP
  DEL = DEL
  NUL = NUL
  Garbage = Garbage
  Lengths = {1, 2, 3}
  BufferLength = 6
  MAX_ARGV = 4
  PAGE_SIZE = 64
  USER_STACK_TOP = 128
SPECIFICATION ShellSpec
\* The shell may wait for input for ever, and the kernel may panic.
CHECK_DEADLOCK FALSE
INVARIANTS
  EchoPrintsLine
  ArgumentsAreSafe
PROPERTIES
  QueueSpec
