SPECIFICATION Spec
CONSTANTS
  Contexts = {c1}
  NullContexts = {}
  Slots = {e1}
  LogStore = "LY_LOSTORE_LAST"
  None = None
  Freed = Freed
  MaxMessages = 3
  MaxModules = 1
INVARIANTS
  CapturedIsCause
CHECK_DEADLOCK FALSE
