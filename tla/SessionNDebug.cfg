\* The same session in a Release build.
CONSTANTS
  Workers = {w1, w2}
  MaxMsgs = 1
  ServiceTypes = {"Server"}
  IoErrors = {}
  ConnectMayFail = FALSE
  NDebug = TRUE
SPECIFICATION FairSpec
PROPERTIES
  SessionReleased
CHECK_DEADLOCK FALSE
