SPECIFICATION Spec
CONSTANTS
  Contexts = {c1, n1}
  NullContexts = {n1}
  Slots = {e1, e2}
  LogStore = "LY_LOSTORE"
  None = None
  Freed = Freed
  MaxMessages = 4
  MaxModules = 1
INVARIANTS
  TypeOK
  CapturedIsCause
  CapturedIsNotLater
PROPERTIES
  TextIsFixed
CHECK_DEADLOCK FALSE
