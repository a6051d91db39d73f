CONSTANTS
  db = db
  db1 = db1
  db2 = db2
  Nobody = Nobody
  Members <- MCMembers
  Order <- MCOrder
  SyncStandbys <- MCSync
  Quorum = 2
  RemoteApply = FALSE
  Enabled = TRUE
  AutoDegrade = TRUE
  DownAfter = 1
  MaxWrites = 1
  MaxFaults = 2
SPECIFICATION Spec
PROPERTIES PromotionKeepsSynced
CHECK_DEADLOCK FALSE
