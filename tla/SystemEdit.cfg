SPECIFICATION Spec
CONSTANTS
  None = None
  Name <- MCName
  Chosen <- MCChosen
  Sub <- MCSub
  DefaultGroup <- MCSub
  Ordinals <- MCOrdinals
  MaxOps = 5
  MaxPending = 2
  Topic = {"t", "s"}
  Fn = {"f", "g"}
  Group = {"b-g"}
  Model = {"M"}
  MaxPartitions = 3
  Method = {"GET"}
  Path <- MCPath
  Alias = {"f", "g"}
  Process = {"p"}
  Sizes = {1, 3}
  Config = {"c"}
  Key = {"y"}
  Value = {"1", "2"}
  Setups <- MCSetups
INVARIANTS TypeOK ReferencesResolve RegistriesAgree LiveMatchesRegistry FootprintMatches
CHECK_DEADLOCK FALSE
