\* Three servers of which one may die, and two that only talk to each other.
CONSTANTS
  n1 = n1
  n2 = n2
  n3 = n3
  Node = {n1, n2, n3}
  Subject = n1
  Situations <- MCSituations
SPECIFICATION FairSpec
INVARIANTS
  TypeOK
  DetectedInTime
  NoFalseAlarm
PROPERTIES
  DeadForGood
CHECK_DEADLOCK FALSE
