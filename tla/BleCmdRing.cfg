SPECIFICATION FairSpec
CONSTANTS
  Tasks = {t1, t2}
  Sender = sender
  RingSize = 2
  MaxFrames = 2
  MaxCalls = 3
INVARIANTS TypeOK RingIsQueue
PROPERTIES ImplementsFifo Delivered
CONSTRAINT WhileClean
CHECK_DEADLOCK FALSE
