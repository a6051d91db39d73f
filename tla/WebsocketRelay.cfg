CONSTANTS
  s1 = s1
  s2 = s2
  bob = bob
  None = None
  Servers <- MCServers
  Clients <- MCClients
  MaxConns = 2
  Entry <- MCEntry
  MaxMessages = 2
  MaxFaults = 1
SPECIFICATION FairSpec
INVARIANTS TypeOK RegistriesKeepNewest ArrivesOnceInOrder OneOutcomeWhenSteady
PROPERTIES OutcomeComes LostClientForgotten
CHECK_DEADLOCK FALSE
