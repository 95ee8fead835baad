\* The printed ranges cover the ring: refuted at the last position.
CONSTANTS
  RingSize = 8
  VirtualNodes = 2
  Node = {0, 1, 2}
SPECIFICATION Spec
INVARIANTS
  RangesCover
