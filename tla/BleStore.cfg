SPECIFICATION Spec
CONSTANTS
  TopId = 2
  LastId = 2
  MaxTemp = 2
  Text <- MCText
  Passwords = {"admin"}
  MaxOrders = 4
  MaxAnswers = 1
  MaxCuts = 1
INVARIANTS TypeOK NoTwice Counted Agreement JoinedIsStored AdminStored
PROPERTIES StoreSpec
CONSTRAINT FewRepeats
CHECK_DEADLOCK FALSE
