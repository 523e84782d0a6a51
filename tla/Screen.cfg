\* The display's own width; an event that takes an hour.
CONSTANTS
  XRES      = 64
  Columns   <- MCColumns
  InRow     <- MCInRow
  Strings   <- MCStrings
  Durations <- MCDurations
  Frames    <- MCFrames
  Length    = 3600
  DatePos   = 15
SPECIFICATION Spec
INVARIANTS   PictureIsKept
CHECK_DEADLOCK FALSE
