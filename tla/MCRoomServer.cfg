SPECIFICATION FairSpec
CONSTANTS
  ann = ann  bob = bob  cem = cem
  Ids = {ann, bob, cem}
  NoId = NoId
  MaxClients = 2
  MaxPosts = 2
  SyncDelay = 1
  Attempts = {0, 1}
  MaxFailures = 2
  NoAck = NoAck
  ReadOnlyAllowed = TRUE
  Stamps = {1, 2, 3}
  Commands <- RemoveOrPromote
  Budgets <- Scenarios
INVARIANTS TypeOK NoPostSkipped PostedOnce
PROPERTIES AdminsStay PostsReachClients
\* the clients run out of things to say
CHECK_DEADLOCK FALSE
