SPECIFICATION Spec
CONSTANTS
  Requests = {"challenge"}
  Responses = {"reclist"}
  MaxFrames = 4
  MaxMessages = 3
INVARIANTS TypeOK Room NoGap
PROPERTIES WholeOrRefused
