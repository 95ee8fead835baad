\* A running server keeps a later generation: refuted by start().
CONSTANTS
  Node = {n1, n2}
  Alike = {}
  Seeds = {n1, n2}
  MayStop = {}
  MayCrash = {n1}
  MaxGen = 2
  MaxHb = 1
  MaxLate = 0
SPECIFICATION Spec
PROPERTIES
  StaleGenerationIgnored
CHECK_DEADLOCK FALSE
