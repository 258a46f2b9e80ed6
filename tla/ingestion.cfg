SPECIFICATION FairSpec
CONSTANTS
  guide = guide  junk = junk  w1 = w1  w2 = w2  k1 = k1  k2 = k2
  NoMessage = NoMessage
  Documents <- MCDocuments
  Orgs <- MCOrgs
  Contents <- MCContents
  Ingesters <- MCIngesters
  Starts <- MCStarts
  Messages <- MCMessages
  MaxDelivery = 2
  MaxFaults = 1
INVARIANTS
  TypeOK
  ChunksAreOneGeneration
  AckedOnlyWhenSettled
PROPERTY
  PendingIsSettled
CHECK_DEADLOCK FALSE
