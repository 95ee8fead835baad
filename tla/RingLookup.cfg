\* Three nodes with three tokens each on a crowded ring, every hash of the node ids.
CONSTANTS
  RingSize = 7
  VirtualNodes = 3
  Node = {0, 1, 2}
SPECIFICATION Spec
INVARIANTS
  TypeOK
  PrimaryIsNearest
  BuddyIsSecondNode
  RangesAgree
PROPERTIES
  LeavePromotesBuddy
  JoinDemotesToBuddy
