SPECIFICATION Spec
CONSTANTS
  Tasks = {t1, t2}
  Sender = sender
  RingSize = 3
  MaxFrames = 1
  MaxCalls = 2
INVARIANTS TouchuanIsBacked
CHECK_DEADLOCK FALSE
