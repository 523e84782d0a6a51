\* Four rows of three columns, two frames a time-stamp of two, two keys.
SPECIFICATION PanelSpec
CONSTANTS
  NumLines = 4
  MaxFrames = 2
  LineSize = 3
  TickMod = 2
  MaxPresses = 1
  Buttons <- MCButtons
INVARIANTS
  ScanInv
  LitRowShowsItsLine
  FrameGetsItsTime
  AtMostOneTornLine
PROPERTIES
  FlushEndsWithPicture
  LinesInRasterOrder
  KeysAreReportedOnce
