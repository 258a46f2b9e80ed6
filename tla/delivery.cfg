SPECIFICATION FairSpec
CONSTANTS
  m1 = m1  junk = junk  null = null  garbled = garbled  c1 = c1  c2 = c2
  NoHandle = NoHandle
  Messages <- Mail
  Malformed <- Junk
  NullBodies <- Nulls
  Unreadable <- Garbled
  Consumers <- TwoConsumers
  MaxDelivery = 3
  MaxFaults = 2
  MaxReceives = 5
  MaxSent = 2
INVARIANTS
  TypeOK
  ExtraOutcomesArePaidByFaults
  ReceivesArePaidByFaults
  RemovalEvicts
  CacheHoldsWhatIsNeeded
PROPERTIES
  SqsDelivers
  SentIsSettled
CHECK_DEADLOCK FALSE
