SPECIFICATION Spec
CONSTANTS
  fits = fits
  over = over
  image = image
  Texts = {fits, over}
  Images = {image}
  Size <- MCSize
  TextCap = 2
  ImageCap = 2
  ItemCap = 2
  Calls = {p1, p2}
  Platforms = {"darwin", "win32"}
  None = None
  MaxHistory = 2
  MaxFrames = 1
  MaxStores = 1
SYMMETRY Symmetry
INVARIANTS
  TypeOK
  MarkedEditStays
  FailedWriteMayRetry
CHECK_DEADLOCK FALSE
