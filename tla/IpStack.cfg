\* Three hosts for two slots, so that the oldest is evicted; arptime wraps
\* after 6 ticks and slots should last 2.
CONSTANTS
  Hosts     = {ha, hb, hr}
  Router    = hr
  Macs      = {m1, m2}
  TableSize = 2
  MaxAge    = 2
  TimeMod   = 6
  NoHost    = NoHost
  Elsewhere = Elsewhere
SPECIFICATION MCSpec
INVARIANTS ArpTableHolds ArithmeticHolds
CHECK_DEADLOCK FALSE
