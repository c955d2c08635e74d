SPECIFICATION StorageSpec
CONSTANTS
  Limits = {l1, l2}
  Unlimited = l1
  Preferences = {p1, p2}
  Positions = {x0, x1}
  Origin = x0
  Masks = {m0, m1}
  NoAxis = m0
  None = None
  MachineDelay = 1
  PreferencesDelay = 1
  MaxTime = 2
  MaxChanges = 2
INVARIANT StorageTypeOK
INVARIANT SavedWhenClean
INVARIANT SavedPositionRested
CHECK_DEADLOCK FALSE
