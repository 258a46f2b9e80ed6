SPECIFICATION Spec
CONSTANTS
  dental = dental  legal = legal  s1 = s1  s2 = s2  j1 = j1  j2 = j2
  visitor = visitor  api = api  q1 = q1  q2 = q2
  mailbox = mailbox  nobody = nobody
  ORGS <- BothOrgs
  DemoOrg = dental
  Files <- OneFileEach
  DEMO_REQUESTS <- TwoRequests
  Approved <- FirstApproved
  SEED_OWNER_EMAIL <- Addresses
  WithAt <- Mailboxes
  Seeders <- TwoSeeders
  Jobs <- TwoJobs
  BatchSize = 2
  Visitors <- OneVisitor
  ApiClients <- OneApiClient
  KeyOrg <- ItsOrg
  MaxFaults = 2
  Casts <- PairsAndPurges
SYMMETRY Symmetry
INVARIANTS
  HalfSeededIsPaidByFaults
  SeedDelivers
  OverdueIsPurged
  OneRequestPerClient
PROPERTIES
  OperatorKeepsSettings
CHECK_DEADLOCK FALSE
