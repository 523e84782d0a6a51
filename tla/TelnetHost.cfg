\* Two connections; the first may carry three lines, the second one.
CONSTANTS
  Conns     = {1, 2}
  Capacity  = 1
  MaxRtx    = 1
  MaxSynRtx = 1
  MaxLines  = 3
  Pictures  = TRUE
SPECIFICATION Spec
INVARIANTS HandledOnce EndsAgree
PROPERTIES AnswerIsToTheQuestion GoneIsForgottenUnlessIdle
