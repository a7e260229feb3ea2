SPECIFICATION Spec
CONSTANTS
  types1 = types1
  ifaces1 = ifaces1
  ifaces2 = ifaces2
  ip1 = ip1
  usr = usr
  cwd = cwd
  nodirs = nodirs
  nocwd = nocwd
  NULL = NULL
  None = None
  Paths <- MCPaths
  Modules <- MCModules
  Names <- MCNames
  NameOf <- MCNameOf
  Holds <- MCHolds
  Cwd = cwd
  Options <- MCOptions
  DisableSearchdirs = nodirs
  DisableSearchdirCwd = nocwd
  Internal <- MCInternal
  Imports <- MCImports
  OptionLists <- MCOptionLists
  Objects = {o1, o2}
  Handles = {h1}
  MaxContexts = 2
  MaxPaths = 1
SYMMETRY Symmetry
INVARIANTS
  TypeOK
  OneOwner
  LookupIsStable
  LoadedIsFound
