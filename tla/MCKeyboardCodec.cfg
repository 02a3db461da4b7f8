SPECIFICATION PathSpec
CONSTANTS
  Keys = {"ControlLeft", "C"}
  Modifiers = {"ControlLeft"}
  Calls = {p1, p2}
  Timers = {t1, t2}
  None = None
  GridKeys = {"c"}
  StripKeys = {"Escape"}
  MediaButtons = {"mute"}
  Batch = 2
  MaxTyped = 3
  Pasted = {3}
  MaxReports = 2
  MaxFrames = 2
  Deflates = TRUE
  Kinds = {"default", "native"}
  Platforms = {"linux", "win32"}
  Grants = {{"media"}, {"keyboard", "media"}}
INVARIANT
  EveryFrameDecodes
CHECK_DEADLOCK FALSE
