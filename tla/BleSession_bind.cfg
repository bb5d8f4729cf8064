SPECIFICATION Spec
CONSTANTS
  Ops = {"bind", "remote", "channel"}
  Authorised = TRUE
  DealLimit = 2
  PinLimit = 2
  BindLimit = 3
  BindRetry = 2
  Rescans = 1
  MaxCalls = 1
INVARIANTS TypeOK NeverLate CountsItsOwn
VIEW NoOutputs
CONSTRAINT TwoDue
