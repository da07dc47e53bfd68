SPECIFICATION Spec
CONSTANTS
  MAX_ROW = 2
  MAX_COL = 2
  Tab = 2
  Byte = 2
  Text = {"a", "nl", "cr", "tab"}
  Keys = {"b", "bs", "cr", "unknown"}
  MaxPrints = 3
  MaxKeys = 2
INVARIANTS
  TypeOK
  CursorOnScreen
  ScreenIsPaper
  CursorShown
PROPERTY
  KeysInOrder
CHECK_DEADLOCK FALSE
