SPECIFICATION Spec
CONSTANTS
  Keys = {ctrl, c}
  Modifiers = {ctrl}
  Calls = {p1, p2}
  Timers = {t1, t2}
  None = None
INVARIANT
  ReleaseEndsHold
CHECK_DEADLOCK FALSE
