\* Both replicas may be dead when a client inserts.
CONSTANTS
  c1 = c1
  c2 = c2
  k1 = k1
  k2 = k2
  v1 = v1
  v2 = v2
  Client = {c1, c2}
  Key = {k1, k2}
  Value = {v1, v2}
  Missing = Missing
  Failed = Failed
  First = 0
  Node = {0, 1, 2}
  NodePos <- MCNodePos
  KeyPos <- MCKeyPos
  RingSize = 4
  VirtualNodes = 1
  Environments <- TwoMayDie
  MaxWire = 1
SPECIFICATION Spec
PROPERTIES
  InsertReachesBuddy
