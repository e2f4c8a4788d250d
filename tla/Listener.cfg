\* Two accept events, two workers, three clients, two calls that fail.
CONSTANTS
  AcceptEvents = {e1, e2}
  Workers = {w1, w2}
  Main = w1
  Clients = {c1, c2, c3}
  NDebug = FALSE
  NoEvent = NoEvent
  NoClient = NoClient
  MaxFailures = 2
SPECIFICATION LFairSpec
INVARIANTS
  EventHeld
  SessionsApart
PROPERTIES
  ClientsServed
CHECK_DEADLOCK FALSE
