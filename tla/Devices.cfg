\* The clock: a leap year and the three years after it, in all four formats.
\* A round of reading is six registers, seven with status register B: the
\* second is longer.  The screen: four pixels by two, with one of padding.
CONSTANTS
  Starts <- MCStarts
  UpdateLead = 7
  MaxTicks = 3
  ScreenWidth = 4
  ScreenHeight = 2
  Pitch = 5
  BufferSizes = {1, 4, 5, 9}
  Images <- MCImages
SPECIFICATION Spec
\* A kernel that has read the clock is done with it.
CHECK_DEADLOCK FALSE
INVARIANTS
  UnixTimeAfterFebruary
  WholeAndFresh
  PictureShown
PROPERTIES
  ReadingEnds
  WriteFillsRectangle
