\* Two servers stopping at the same time, one of which may crash instead.
CONSTANTS
  Node = {n1, n2}
  Alike = {}
  Seeds = {n1, n2}
  MayStop = {n1, n2}
  MayCrash = {n2}
  MaxGen = 1
  MaxHb = 1
  MaxLate = 0
SPECIFICATION FairSpec
PROPERTIES
  ShutdownCompletes
CHECK_DEADLOCK FALSE
