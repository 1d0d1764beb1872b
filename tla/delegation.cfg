SPECIFICATION Spec
CONSTANTS
  d1 = d1
  d2 = d2
  d3 = d3
  k = k
  Ids = {d1, d2, d3}
  IdemKeys = {k}
  NoKey = NoKey
  MaxCrashes = 1
SYMMETRY Sym
INVARIANTS OneAtATime ResultAgrees EndIsRecorded
PROPERTIES SlotsHold
CHECK_DEADLOCK FALSE
