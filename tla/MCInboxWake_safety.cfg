SPECIFICATION Spec
CONSTANTS
  Readers = {r1, r2}
  Notifiers = {p1}
  Keys = {k1}
  NoKey = NoKey
  Bodies = {"plain"}
  MaxRecords = 3
  MaxShared = 2
  MaxBinds = 0
  MaxCrashes = 1
CHECK_DEADLOCK FALSE
INVARIANTS NothingSkipped ClaimsExclusive StaleMeansShown BacklogHasOwner KeyOnce NoReplay
SYMMETRY Symmetry
