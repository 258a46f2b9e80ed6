SPECIFICATION Spec
CONSTANTS
  r1 = r1  junk = junk  w1 = w1  w2 = w2  alice = alice  bob = bob
  NoOne = NoOne
  NoReply = NoReply
  NoMessage = NoMessage
  Requests <- OneRequest
  Messages <- OneMessage
  Workers <- OneWorker
  Staff <- OneStaff
  DemoRequests <- NoRequests
  MaxDelivery = 2
  MaxFaults = 1
PROPERTIES
  ResolvedIsTerminal
CHECK_DEADLOCK FALSE
