SPECIFICATION ConsoleSpec
CONSTANTS
  s1 = s1
  s2 = s2
  lb = lb
  n1 = n1
  n2 = n2
  n3 = n3
  e1 = e1
  e2 = e2
  None = None
  NoSystem = NoSystem
  MaxUpsets = 2
  Draws <- MCDraws
  Upsets <- MCUpsets
  Conv = {1, 2, 3, 4}
  Key = {k1, k2}
  InUse = {k1}
  Kinds <- MCKinds
  System = {s1, s2}
  Container = {lb, n1, n2, n3}
  Lb = lb
  OutageId = {1, 2}
  Setups <- MCSetups
  Talk = {1, 2}
  MaxTurns = 2
  MaxWipes = 2
  Contract = {"c1", "c2"}
  Method = {"m1", "m2"}
  Field = {"f1", "f2", "message"}
  Keyword = {"message"}
  Service = {"r1", "r2", "r3"}
  Brought = "c1"
  MaxWaiting = 1
  BankScopes <- MCBankScopes
  RedisId <- MCRedisId
  RedisKey = {"k1", "k2"}
  Digit <- MCDigit
  ClusterSizes = {3, 4}
  MaxReplicas = 2
  Persistences = {"image", "aof"}
  RedisScopes <- MCRedisScopes
  MaxStandbys = 2
  MaxOrdinal = 3
  ClusterBudgets <- MCClusterBudgets
  Engines = {"postgres", "mongodb", "cassandra", "dynamodb"}
  RowKey = {"k1"}
  RowValue = {"a", "b"}
  Keyless = "none"
  SeedTab = {1, 2}
  SeedBudgets <- MCSeedBudgets
  Places <- MCPlaces
  Whole = Whole
  NoAnswer = NoAnswer
  MaxPolls = 2
  MaxEdition = 2
  MaxFigure <- MCMaxFigure
  PanelBudgets <- MCPanelBudgets
CHECK_DEADLOCK FALSE
INVARIANTS QueueServed AuthoredAsRecorded RunsWhatIsDeclared OneConversation ContractsHold RedisHolds  ShownHolds
