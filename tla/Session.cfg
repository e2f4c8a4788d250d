\* An accepted or a connecting session, which may be refused, under two workers;
\* a healthy socket takes every send.
CONSTANTS
  Workers = {w1, w2}
  MaxMsgs = 3
  ServiceTypes = {"Server", "Client"}
  IoErrors = {}
  ConnectMayFail = TRUE
  NDebug = FALSE
SPECIFICATION FairSpec
INVARIANTS
  SingleSend
  OwnerHeld
  ReleaseOnce
  NoStrandedPacket
  FlagHasSender
PROPERTIES
  ImplementsChannel
  SessionReleased
CHECK_DEADLOCK FALSE
