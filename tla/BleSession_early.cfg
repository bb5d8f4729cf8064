SPECIFICATION Spec
CONSTANTS
  Ops = {"unlock"}
  Authorised = TRUE
  DealLimit = 2
  PinLimit = 2
  BindLimit = 3
  BindRetry = 2
  Rescans = 1
  MaxCalls = 2
PROPERTIES FullTime
CONSTRAINT FewDue
