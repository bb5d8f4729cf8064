SPECIFICATION Spec
CONSTANTS
  Ops = {"add", "remote"}
  Authorised = TRUE
  DealLimit = 2
  PinLimit = 2
  BindLimit = 3
  BindRetry = 2
  Rescans = 1
  MaxCalls = 2
PROPERTIES DeletionReported
CONSTRAINT FewDue
