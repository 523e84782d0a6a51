CONSTANTS
  Mss      = 2
  MaxRtx   = 2
  Packets  <- MCPackets
  Header   <- MCHeader
  Missing  <- MCMissing
  Pages    <- MCPages
  Requests <- MCRequests
  Writes   <- MCWrites
  Ends     <- MCEnds
  FwHosts  = {"a", "b"}
  Us       = "us"
  Nets     <- MCNets
  Arrivals <- MCArrivals
  OwnIds   = {3}
  CacheSize  = 2
  FwTime     = 2
  MaxSegment = 5
  MaxNetifs  = 1
  MaxSent    = 4
SPECIFICATION MCSpec
INVARIANTS   ForwardsOnceAndWhole
PROPERTIES ResponseEnds
