\* The server refuses the connection.
CONSTANTS
  Workers = {w1}
  MaxMsgs = 1
  ServiceTypes = {"Client"}
  IoErrors = {}
  ConnectMayFail = TRUE
  NDebug = FALSE
SPECIFICATION Spec
INVARIANTS
  ConnectedMeansOpen
CHECK_DEADLOCK FALSE
