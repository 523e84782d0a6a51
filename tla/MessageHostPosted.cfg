CONSTANTS
  Texts      = {0, 1}
  MaxStep    = 0
  MaxLeft    = 2
  Screens    = 1
  ScreenTime = 1
  TailTime   = 1
  ScrollTime = 1
  MovieTime  = 1
  MaxRest    = 1
  MaxPosts   = 1
SPECIFICATION Spec
PROPERTY PostedIsShown
