SPECIFICATION Spec
CONSTANTS
  Contexts = {c1}
  NullContexts = {}
  Slots = {e1}
  LogStore = "LY_LOSTORE"
  None = None
  Freed = Freed
  MaxMessages = 2
  MaxModules = 3
INVARIANTS
  ListsLoadedModules
CHECK_DEADLOCK FALSE
