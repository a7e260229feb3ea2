SPECIFICATION Spec
CONSTANTS
  Contexts = {c1}
  NullContexts = {}
  Slots = {e1}
  LogStore = "LY_LOSTORE"
  None = None
  Freed = Freed
  MaxMessages = 3
  MaxModules = 1
INVARIANTS
  NeverLater
CHECK_DEADLOCK FALSE
