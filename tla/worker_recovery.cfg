SPECIFICATION Spec
CONSTANTS
  r1 = r1  junk = junk  w1 = w1  w2 = w2  alice = alice  bob = bob
  NoOne = NoOne
  NoReply = NoReply
  NoMessage = NoMessage
  Requests <- OneRequest
  Messages <- OneMessage
  Workers <- TwoWorkers
  Staff <- OneStaff
  DemoRequests <- NoRequests
  MaxDelivery = 2
  MaxFaults = 2
SYMMETRY Symmetry
INVARIANTS
  TypeOK
  LocksBelongToOpenTransactions
  VerdictMatchesCurrentDraft
  NoHalfDoneTriage
  AckedOnlyWhenTriaged
  DeadLetteredOnlyAtCeiling
  ExtraDeliveriesArePaidByFaults
CHECK_DEADLOCK FALSE
