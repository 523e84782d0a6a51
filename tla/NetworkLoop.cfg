\* Seconds that stand for 240 s with a connection and 90 s without one.
CONSTANTS
  Faulty         = TRUE
  QueueSize      = 1
  Wpa            = FALSE
  ReconnectAfter = 1
  JumpAfter      = 0
  Keys           = {"left", "right", "center"}
SPECIFICATION NetSpec
INVARIANTS AttemptGetsItsTime
PROPERTIES ImplementsDriver LinkRecovers
