SPECIFICATION Spec
CONSTANTS
  usrlocal = usrlocal
  usr = usr
  home = home
  ifaces1 = ifaces1
  ifaces0 = ifaces0
  ip1 = ip1
  yanglib = yanglib
  nodirs = nodirs
  nocwd = nocwd
  NULL = NULL
  Paths <- MCPaths
  Modules <- MCModules
  Names <- MCNames
  NameOf <- MCNameOf
  Holds <- MCHolds
  Cwd = home
  Options <- MCOptions
  DisableSearchdirs = nodirs
  DisableSearchdirCwd = nocwd
  NoYanglibrary = yanglib
  kDefaultSearchPaths <- MCSearchPaths
  kDefaultModules <- MCDefaultModules
  Callers = {t1}
  CallerOptions <- MCOptionLists
  CallerPaths <- MCNone
  CallerModules <- MCNone
  InitialPaths <- MCPaths
  MaxSearchPaths = 2
  MaxFaults = 0
INVARIANTS
  DefaultHasNoYanglibrary
