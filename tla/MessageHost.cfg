\* Seconds: a screen of a message lasts one, as its tail and the rest between two
\* rounds, a video four, so that it goes on after a message.
CONSTANTS
  Texts      = {0, 1, 2}
  MaxStep    = 1
  MaxLeft    = 4
  Screens    = 2
  ScreenTime = 1
  TailTime   = 1
  ScrollTime = 1
  MovieTime  = 4
  MaxRest    = 1
  MaxPosts   = 1
SPECIFICATION Spec
INVARIANTS  MessageStaysUp
PROPERTIES MessageIsRead
