SPECIFICATION Spec
CONSTANTS
  r1 = r1  junk = junk  w1 = w1  w2 = w2  alice = alice  bob = bob
  NoOne = NoOne
  NoReply = NoReply
  NoMessage = NoMessage
  Requests <- OneRequest
  Messages <- OneAndJunk
  Workers <- OneWorker
  Staff <- TwoStaff
  DemoRequests <- NoRequests
  MaxDelivery = 2
  MaxFaults = 0
SYMMETRY Symmetry
INVARIANTS
  DraftVersionsUniqueAndContiguous
  ResolutionIsAudited
  IntakeIsDurableInOrder
  AuditCrossReferencesDrafts
PROPERTIES
  HistoryIsAppendOnly
CHECK_DEADLOCK FALSE
