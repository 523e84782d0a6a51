SPECIFICATION LoopSpec
CONSTANTS
  NumLines = 2
  MaxFrames = 1
  LineSize = 2
  TickMod = 3
  WdtLimit = 6
  SpiTicks = 1
  RtcTicks = 1
  RtcEvery = 1
  WifiEvery = 1
  RtcFails = TRUE
 
PROPERTIES ImplementsScan LoopGoesOn
