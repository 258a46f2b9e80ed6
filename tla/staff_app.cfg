SPECIFICATION AppSpec
CONSTANTS
  r1 = r1  w1 = w1  alice = alice  bob = bob  tab1 = tab1  tab2 = tab2
  NoOne = NoOne
  NoReply = NoReply
  NoMessage = NoMessage
  Requests <- OneRequest
  Messages <- OneRequest
  Workers <- OneWorker
  Staff <- TwoCalls
  Members <- OneMember
  Caller <- ByAlice
  DemoRequests <- OneRequest
  MaxDelivery = 1
  MaxFaults = 0
  MaxCalls = 2
INVARIANTS
  PageIsBacked
  ExportFindsDrafts
  RemovedFinishesItsCalls
SYMMETRY Tabs
CHECK_DEADLOCK FALSE
