SPECIFICATION FairSpec
CONSTANTS
  r1 = r1  junk = junk  w1 = w1  w2 = w2  alice = alice  bob = bob
  NoOne = NoOne
  NoReply = NoReply
  NoMessage = NoMessage
  Requests <- OneRequest
  Messages <- OneMessage
  Workers <- TwoWorkers
  Staff <- OneStaff
  DemoRequests <- OneRequest
  MaxDelivery = 2
  MaxFaults = 1
INVARIANTS
  NoOrphans
PROPERTIES
  PublicPageSpec
  PgmqDelivers
  AcceptedIsSettled
  StaffCallsEnd
CHECK_DEADLOCK FALSE
