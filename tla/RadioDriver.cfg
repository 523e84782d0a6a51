SPECIFICATION DriverSpec
CONSTANTS
  Faulty = TRUE
  QueueSize = 2
  Wpa = TRUE
INVARIANTS
  InterruptNotLost
  OneFrameAtATime
  RadioIsUnderstood
  ConnectsWhenSetUp
