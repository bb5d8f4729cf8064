SPECIFICATION Spec
CONSTANTS
  Ops = {"add", "del"}
  Authorised = FALSE
  DealLimit = 2
  PinLimit = 2
  BindLimit = 3
  BindRetry = 2
  Rescans = 1
  MaxCalls = 2
INVARIANTS RequestsKept RetryArmed
VIEW NoClocks
CONSTRAINT FewDue
