\* Servers and clients of one node come, work, go and die.
CONSTANTS
  s1 = s1
  s2 = s2
  c1 = c1
  c2 = c2
  v1 = v1
  v2 = v2
  Server = {s1, s2}
  Client = {c1, c2}
  Key = {k1}
  Value = {v1, v2}
  Missing = Missing
  Nothing = Nothing
  Environments <- AllLives
SPECIFICATION FairSpec
INVARIANTS
  TypeOK
  ServerWorksAlone
  ServerStorageIntact
PROPERTIES
  ImplementsMap
  DataSurvivesCrashes
  ServerOperationReturns
CHECK_DEADLOCK FALSE
