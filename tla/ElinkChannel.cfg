SPECIFICATION FairSpec
CONSTANTS
  Fds = {0, 1}
  LoginTries = 0
  LoginErrors = 2
  ConnectErrors = 2
  HeartTime = 2
  HeartBeat = 1
  LoginAnswers = {"accepted", "refused", "garbled", "cut"}
  isOperSuccess = TRUE
  QueueMax = 2
INVARIANTS TypeOK Watched Admitted LoginIsNamed
PROPERTIES SilenceNoticed
