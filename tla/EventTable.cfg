SPECIFICATION PlanSpec
CONSTANTS
  MaxEvents = 5
  MaxTitles = 2
  FirstTime = 0
  NumShows = 7
  Start <- MCStart
  End <- MCEnd
  MaxGap = 1
  MaxTime = 11
INVARIANTS
  RunningIsOnAir
  TitleMatchesTime
  PlanTakesEffect
CHECK_DEADLOCK FALSE
