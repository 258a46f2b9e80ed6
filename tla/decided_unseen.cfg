SPECIFICATION AppSpec
CONSTANTS
  r1 = r1  w1 = w1  alice = alice  bob = bob  tab1 = tab1  tab2 = tab2
  NoOne = NoOne
  NoReply = NoReply
  NoMessage = NoMessage
  Requests <- OneRequest
  Messages <- OneRequest
  Workers <- OneWorker
  Staff <- OneCall
  Members <- OneMember
  Caller <- ByAlice
  DemoRequests <- OneRequest
  MaxDelivery = 2
  MaxFaults = 0
  MaxCalls = 2
PROPERTIES
  RecordsWhatWasSeen
CHECK_DEADLOCK FALSE
