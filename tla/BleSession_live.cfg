SPECIFICATION FairSpec
CONSTANTS
  Ops = {"unlock", "add"}
  Authorised = FALSE
  DealLimit = 2
  PinLimit = 2
  BindLimit = 3
  BindRetry = 2
  Rescans = 1
  MaxCalls = 2
PROPERTIES EndsInTime AddTakenUp
VIEW NoHistory
CONSTRAINT TwoDue
