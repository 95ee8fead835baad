\* Three servers with one seed: views travel over a third party.
CONSTANTS
  Node = {n1, n2, n3}
  Alike = {n2, n3}
  Seeds = {n1}
  MayStop = {}
  MayCrash = {n1}
  MaxGen = 1
  MaxHb = 1
  MaxLate = 0
SPECIFICATION Spec
SYMMETRY Symmetry
PROPERTIES
  RingFollowsView
  SplitIsPermanent
CHECK_DEADLOCK FALSE
