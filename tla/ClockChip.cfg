SPECIFICATION MCSpec
CONSTANTS
  Times <- MCTimes
  WildDays = {0}
  MaxTicks = 3
  MaxSets = 2
  Faulty = TRUE
INVARIANTS
  ChipHoldsOneTime
  ReadingIsOneInstant
  UptimeIsKept
  CalendarsAgree
CHECK_DEADLOCK FALSE
