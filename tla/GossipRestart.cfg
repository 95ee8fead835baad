\* Two servers, one that stops and one that crashes; both may be started again.
CONSTANTS
  Node = {n1, n2}
  Alike = {}
  Seeds = {n1, n2}
  MayStop = {n1}
  MayCrash = {n2}
  MaxGen = 2
  MaxHb = 1
  MaxLate = 1
SPECIFICATION Spec
INVARIANTS
  TypeOK
  OwnRecordIsOwn
  NeverAheadOfOwner
  FarewellIsFinal
PROPERTIES
  MonotoneTables
CHECK_DEADLOCK FALSE
