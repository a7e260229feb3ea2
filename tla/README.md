# A TLA+ model of stelleri_yang

stelleri_yang is a small C++ library over libyang. It keeps one process-wide libyang context with
a canonical set of YANG modules, turns libyang errors into exceptions, and converts two YANG data
models (`ietf-interfaces`, `ietf-routing`) between C++ objects and libyang trees.

Paths below are relative to the repository; `Yang.cpp` is `src/Yang.cpp` there, and
`src/src/Yang.cpp` in PROJECT.json.

## Inventory

| Part | State | Operations | What makes it correct |
|---|---|---|---|
| `Yang` (Yang.cpp, Yang.hpp) | two function-local statics: `instance` in `getContext`, `initialized` in `getDefaultContext`; two tables of paths and modules | `getContext(opts)`, `getDefaultContext()` | one context; what is returned is fully loaded; a failed initialization can be retried |
| `YangContext` | the owned `ly_ctx*`, `search_paths_`, `options_` | two constructors, destructor, `addSearchPath`, `loadModuleInContext`, `GetLoadedModuleByName`, `raw`, `searchPaths` | one owner per `ly_ctx`; a load that fails throws; what was loaded is found |
| `YangSchemaModule` | a pointer to a `lys_module` | accessors | its context is alive |
| `YangError`, `YangDataError` (Exceptions.hpp) | `error_` (a pointer into libyang's error list), `ctx_`, the cached text | construction, `what()` and accessors | the text is that of the failure; it does not change |
| `YangModel` | none | `parseXml`; the interface of the two models | a tree or an exception; the caller frees the tree |
| `IetfInterfaces` | the vector `ifs_` | `addInterface`, `removeInterfaceByName`, `serialize`, `deserialize` | what is written is read back; nothing is invented |
| `IetfRouting` | one `Routing` record | accessors, `serialize`, `deserialize` | a complete tree or an exception; names are merged, neither doubled nor dropped; what came back once stays as it is |
| `IanaIfType` | none | `ianaIfTypeToString`, `ianaIfTypeFromString` | they are inverse |
| `IetfInetTypes`, `IetfYangTypes` | none | type aliases | |

Interactions. `getDefaultContext` calls `getContext`, which constructs a `YangContext`; all callers
share it by `shared_ptr` and may add paths and load modules themselves. Every wrapper throws
`YangDataError(*this)`, which keeps a pointer to the context and to libyang's last error item and
reads both when `what()` is called. The models call `lyd_new_path` and walk trees of a context.
There are no callbacks into the library and no locks, and the repository starts no threads; its
tests call everything from one thread.

What is hard here:

* `getDefaultContext` is a long sequence of steps on shared state, each of which can fail; nothing is
  undone, and the next call starts over on what is left.
* It looks at the file system (`exists`), which may throw, and acts on it later, and others may change
  it between.
* The statics are not locked, should a program use threads.
* Exceptions carry pointers that are read later than they are taken.
* `IetfInterfaces::serialize` ignores the result of every libyang call but the first, so a partial
  tree is a normal result. `IetfRouting::serialize` throws at the first call that fails, and the tree
  made so far belongs to nobody.
* A context can hold a module several times, in different revisions and only imported; a lookup by
  name has to choose.

## Modules

| Module | Models |
|---|---|
| `YangContextObject` | A `YangContext` as a value, and its member functions on it. The owned `ly_ctx` is `[flags, dirs, modules]`. No variables. |
| `Yang` | `getContext`, `getDefaultContext` and the callers, as a state machine over that value. |
| `DefaultContext` | The abstract promise of Yang.hpp:21-24. `Yang` refines it (`KeepsPromise`). |
| `YangContextObjectProofs`, `YangProofs`, `YangErrorsProofs`, `YangContextProofs`, `IetfInterfacesObjectProofs`, `IetfInterfacesProofs`, `IetfRoutingProofs` | Lemmas and theorems about the modules they are named after; those of `LydTree` are in `IetfInterfacesObjectProofs`. |
| `SequenceLemmas` | What the sequence operators of the libraries (`\o`, `Append`, `SubSeq`, `FlattenSeq`, ...) return; that a set of numbers has one enumeration in increasing order; what comes first in a sequence (`Leads`). |
| `MCYang` | The instance of `Yang` for TLC. |
| `YangErrors` | The exceptions, and libyang's error list, last message and module list that they read. Checked directly. |
| `LydTree` | A libyang tree and `lyd_new_path`, external, as the serializers use them. |
| `IetfInterfacesObject` | The data of `IetfInterfaces` as values: the calls `serialize` makes for an interface, what `deserialize` reads, the identity conversion. No variables; both models use it. |
| `IetfInterfaces` | The vector, `serialize` one call at a time, `deserialize`. |
| `IetfRouting` | The `Routing` record, `serialize` one call at a time, `deserialize` of the two trees. |
| `YangContext` | The life of `YangContext` objects, raw contexts and the modules lookups return. |
| `MCIetfInterfaces`, `MCIetfRouting`, `MCYangContext` | The instances for TLC. |

Operators that begin with a comment "Mutant:" are no part of the specification. Each is the form
an action or helper would have with a plausible bug; PROJECT.json says which property notices it.

### Yang

`ctxs` are the `YangContext` objects in order of construction; `instance` and every `shared_ptr` (`held`)
are indices into it, 0 for a null pointer. One action is one access to a static or one call into
libyang or the file system, so other threads and the file system may act between any two:

| Place `pc[t]` | Code | Actions that leave it |
|---|---|---|
| `check` | Yang.cpp:21 | `CheckInstance` |
| `construct` | Yang.cpp:22, YangContext.cpp:9-15 | `Construct`, `ConstructFails` (throws `YangError`) |
| `assign` | Yang.cpp:22 | `AssignInstance` |
| `copy` | Yang.cpp:24 | `CopyInstance` |
| `started` | Yang.cpp:33 | `AlreadyInitialized`, `StartInitialization` |
| `probe` | Yang.cpp:38-40, 46 | `ProbePath`, `ProbeThrows` (`filesystem_error`), `PathsDone` (throws if `added == 0`) |
| `add` | Yang.cpp:41-42 | `AddDefaultPath` |
| `load` | Yang.cpp:55-64 | `LoadDefaultModule`, `LoadFails` (throws `YangDataError`), `SetInitialized` |

`DirectoryChanges` is the environment: a directory of modules is installed, removed, or made one that may
not be examined (`barred`). `exists` and `is_directory` are called in the overloads that report an error by
an exception, so `ProbeThrows` ends the call for a barred path; "not found" is no error.
`ly_ctx_set_searchdir` refuses a directory that is not there; `ly_ctx_load_module` finds a module
that is in the context already or whose file is where libyang looks, and refuses a
second revision of a module. libyang looks in the directories of the context and in the current working
directory, unless the context has `DisableSearchdirs` or `DisableSearchdirCwd` (`Searched`); no caller in the
repository gives either, the runs do. So libyang may find a module in a directory that `searchPaths()` does
not report. Lines 31 and 50-53 of Yang.cpp cannot be reached with a null pointer,
because `make_shared` throws before that, and have no action.

Threads. Nothing in Yang.cpp is synchronized: two threads race on the static `shared_ptr`, on the plain
bool `initialized`, on `search_paths_` and inside one `ly_ctx` (lines 21-24, 33, 41, 61, 64), which is undefined
behaviour. The model puts the accesses in some order, which is the mildest outcome. It can show with several
callers what goes wrong even then (`YangTwoCallers`), never that concurrent calls are safe, and no
property or theorem says so: the passing run has one caller, and the theorems for more are about callers
that take turns.

### YangErrors

A message is the number of the log call that produced it. `items[c]` is libyang's error list of a
context; `error_` is an index into it. With `LY_LOSTORE_LAST`, libyang's default, the list has one
item that is overwritten in place; with `LY_LOSTORE`, which the repository's tests for the models set,
items are appended. `WhatData` builds the text on the first `what()` and keeps it; `WhatYangError`
writes the thread's last message into the buffer that all `YangError`s share. Contexts may be
destroyed at any time; reading one afterwards gives `Freed`. `ThrowWithoutFailure` stands for the
throws that follow no failing libyang call: no search path (Yang.cpp:47), a tree `deserialize` does not
accept (IetfRouting.cpp:136), a parse that gives no tree and no error (YangModel.hpp:45). Such an exception
captures an older item, or none if the context has none; `at` is the last message at the throw. One that
captured an item reports none later than that (`CapturedIsNotLater`). One that captured none falls back on
the thread's last message when `what()` is called (Exceptions.hpp:109), which may be a later one; the run
`YangErrorsNoItem` shows it.

### IetfInterfaces

`Calls(i)` is the list of `lyd_new_path` calls that serialize makes for interface `i`: path, value, and
what the context must know for it (`needs`), here the prefixes that occur in them. `SerializeRoot` starts, `NewPath` makes one call and goes on whether
or not it fails, `NewPathOutOfMemory` is a call that fails for no reason of its own, `RootFails` is the
one checked call. A node of the tree is a path and a value. Strings are abstract: an address is the
parts before and after its slash, and the operational fields that `serialize` never writes are the one
field `oper_status`. `IsInterfacesTree` says what libyang sees to in a tree, its own or a parsed one: a
path has one node, whose parent is there, a list entry has its key leaves (`WellFormed`), and values are
of their types (`OfSchema`). `TypeOK` has it of every tree of the program, so the runs check that
`lyd_new_path` as modelled keeps it. `resolves` is the set of prefixes libyang can resolve. `serialize`
writes the YANG prefixes `ip:` and `ianaift:`; `lyd_new_path` takes paths and values in libyang's JSON
form, where a prefix is a module name. `resolves` is chosen at the start, so that one run checks the rest of
the function both as it was meant to work and as it does.

`NothingInvented` compares every field that comes back with those of the interfaces of its name: an address
with its ip, its prefix length with one that was given for that ip in that container, an mtu with one of that
container. It does not say that nothing is missing: if the call for the prefix length fails
(IetfInterfaces.cpp:91), 192.0.2.1/24 comes back as 192.0.2.1.

The nodes of a tree are in the order of their creation. libyang 3 and later sort the entries of lists of
configuration by their keys instead. No property speaks of the order of interfaces, addresses or ribs:
`SameConfiguration` and `SameModel` compare them as sets. The order of state lists and leaf-lists, which have
no keys (routes, the names of `routing/interfaces`), is the order of creation in every version, and is compared.

### IetfRouting

A tree is a function on those of the two top-level siblings `interfaces` and `routing` that are there, as
the tested document has both; each is well formed and of its schema (`IsTree`), and `NoTree` has neither. `RoutingCalls(m)` lists the calls below the root. Each of them throws when it fails
(`NewPathFails`, `NewPathOutOfMemory`), past a local root that is never freed (`lost`). What libyang does
with a call, as `LydTree` has it:

* a list entry is created with all its keys, and a node that exists is refused. A rib's first call
  writes its key, which is how the entry comes to be; a protocol's first call writes `type`, so its
  second, for `name`, always fails;
* a key-less list and a leaf-list of state data have instances that no path tells apart, and every
  call adds one (`Instance`);
* `router-id` exists only if its feature is enabled, `static-routes/route` in no module (`resolves`);
* an identity is stored as "module:name" (`Canonical`); without a module it is looked up in ietf-routing
  only. `deserialize` cuts the string at the colon (`LocalName`);
* of the other values, a router-id or an identity may be refused and the rest never is; an identity that
  is accepted has one colon at most (`RoutingSchemaAssumption`).

The names of the leaf-list join those of the first tree one by one (`AddNames`, `AddName`). `NamedOnce` says that
the result has exactly the names of the interface objects and the values of the leaf-list (`ListedNames`), once each.

A `Route` is its preference: the other fields are neither written nor read. `interfaces_info` is read
from the first tree and never written.

`Carried(m)` says, without any tree, what of `m` comes back: the names once each in the order of their first
occurrence (`FirstOnes`), the ribs, in some order, with the routes that have a preference (`Preferences`) and with the
identity cut. `Written(m)` is the tree that `serialize` makes of `m` when no call fails.

### YangContext

`Yang` has one context that lives as long as the process. Here objects come and go in places
`Objects`, made by either constructor: `Construct` and `ConstructFails` (YangContext.cpp:9-15), `Wrap`
(line 17) of a `ly_ctx` the program made with `MakeRaw`, or of null. `ly[i]` is the i-th libyang context;
`Destruct` destroys the object's. Of libyang this module keeps what `Yang` can leave out: the modules of
a fresh context, the modules a load imports, and which of them are implemented; a load appends what is
missing (`Missing`) in any order (`LoadOrders`). `GetLoadedModuleByName` returns the first of the name; `handles` remember what was asked
and found. Copying is deleted in the header and has no action.

## Runs

Passing:

| Run | Shows | Bounds |
|---|---|---|
| `YangOneCaller` | With one thread: `ReadyIsLoaded`, `ReturnedIsLoaded`, `InitializesOnce`, `OneContext`, `NothingIsUndone`, the refinement `KeepsPromise`, and `Recovers`: failures do no lasting harm | 2 default directories and modules, 1 foreign directory, the working directory, with another revision; contexts with no option, `DisableSearchdirs`, `DisableSearchdirCwd` or `NoYanglibrary`; `MaxFaults = 2`, `MaxSearchPaths = 5` |
| `YangErrorsStore` | `CapturedIsCause`, `CapturedIsNotLater`, `TextIsFixed` under `LY_LOSTORE` | 2 contexts (one null), 2 exceptions in flight, 4 messages |
| `Interfaces` | `BackIsNormal`, `NormalSurvives`, `NothingInvented`, `NamesComeBack`, `DisabledStaysDisabled`, with either set of prefixes | 6 interfaces that collide in name and address, 2 foreign documents, vectors of 2, one call out of memory |
| `Routing` | `AllOrNothing`, `ThrowsExactly`, `NamedOnce`, `SecondRoundIsExact` | up to 2 of 5 ribs, 2 protocols, 5 foreign documents, the feature on and off, one call out of memory |
| `YangContext` | `OneOwner`, `LookupIsStable`, `LoadedIsFound` | 2 places (symmetric) and 2 contexts, 1 lookup kept, 4 modules of which one is in every context and two are revisions of each other, one search path and the working directory, contexts with no option or `DisableSearchdirCwd` |

Expected to be violated; each is a finding in PROJECT.json, with the line that says otherwise:

| Run | The code |
|---|---|
| `YangTwoCallers` | Two racing first calls of `getDefaultContext` construct two contexts; one loads its own and sets `initialized`, and the other, which has made the empty one the shared one, returns it early. |
| `YangFlags` | `getContext({})` before `getDefaultContext` decides the flags. |
| `YangErrorsLast` | With `LY_LOSTORE_LAST` a later message replaces the captured one. |
| `YangErrorsNoItem` | An exception thrown when there was no item to capture reports a message logged after it. |
| `YangErrorsModules` | Every second loaded module is left out of `what()`. |
| `InterfacesRoundTrip` | Type and addresses are silently lost: `ianaift:` and `ip:` are no module names. |
| `RoutingRoundTrip` | A model with a control-plane-protocol, such as the tested one, cannot be serialized: the protocol's key `name` is written twice. |

Other disagreements seen in the models, for which no run is kept:

* a retry of `getDefaultContext` pushes every search path again, so `searchPaths()` holds duplicates
  (Yang.cpp:41);
* `searchPaths()` reports a path that libyang refused (YangContext.cpp:29-30);
* `YangError::what` gives the last message of the thread, in a buffer all `YangError`s share
  (Exceptions.hpp:20-22);
* `what()` after `~YangContext` reads freed memory (Exceptions.hpp:54, 106);
* `deserialize` drops the mtu of an ip container without addresses (IetfInterfaces.cpp:235);
* `YangError::what` frees the text that an earlier `what()` returned a pointer to (Exceptions.hpp:21);
* when `IetfRouting::serialize` throws after its first call, nobody can free the root, although
  YangModel.hpp:21-22 makes the caller responsible for the tree (`lost` in `IetfRouting`);
* `IetfRouting::serialize` drops routes without a preference and all of `interfaces_info`;
* an identity of another module than ietf-routing comes back without its module and is then refused
  by `serialize` (IetfRouting.cpp:226, as TODO.md:11 expects; `SecondRoundIsExact`);
* `GetLoadedModuleByName` may return an import-only revision although the caller loaded another
  one (YangContext.cpp:53; the exception in `LoadedIsFound`).

Why the bounds are enough. Two default directories, each needed for one of two modules, give every
partial outcome of both loops: no path, one path, the first module only. `MaxFaults = 2` allows a
directory to vanish between `exists` and the call, or to become unreadable, and to come back, or a
construction to fail before either. `MaxSearchPaths` limits `search_paths_`, which every retry extends; 5 leaves room for two whole
passes and a caller's own path. A call that can succeed is never cut off by it (`Room \/ Installable`),
or recovery would be excluded by the bound. Errors: two exceptions and four messages let each be
thrown, overtaken and read in either order. Interfaces and ribs: two in a vector are enough for every way of
colliding in a tree, which compares keys pairwise; three names in a leaf-list are enough for one that
comes twice with another between. Contexts: two objects, two `ly_ctx` and a null one give every way of
handing a context over; one kept lookup is enough because `LookupIsStable` speaks of one at a time.

Deadlock is checked in all runs but those of `YangErrors`, where a program that has destroyed its
contexts and ended its handlers has nothing more to do.

Fairness. Only `Recovers` needs it: weak fairness of each thread's steps inside the library, which is
that a running thread goes on; the functions block on nothing. Callers are not assumed to call: that
they keep calling, and that the directories are installed and stay, are hypotheses of `Recovers`.

## Proofs

For every value of the constants. The assumptions are those the modules name: `NamesAssumption`,
`HoldsAssumption`, `CwdAssumption`, `OptionsAssumption`, `YangAssumption`, `ErrorsAssumption` and `ContextAssumption`, which give the constants
their types (and keep `None` apart from an object); those of the two data models are below.

Part 1 of `YangProofs`, for any number of callers that take turns at the steps of the model (see Threads above). The type invariant is not inductive: that
`ctxs[held[t]]` is defined in `add` and `load` depends on how the caller came there. `IInv` is `TypeOK`
and, per caller, `CallerInv`: what the code before its place has established (in `copy`, `instance` is
set; from `started` on, `held` is; in `load`, the modules before `idx` are in the held context,
`LoadedSoFar`). It is stable under the steps of others because contexts only grow (`ContextsGrow`,
`CallerInvStable`). From it follow

* `TypeCorrect` (`TypeOK`);
* `NothingUndone` (`NothingIsUndone`).

Part 2 assumes `OneCaller`. `SoloInv` adds what interleaving destroys: `held` is `instance` but between
construction and assignment; before that there is no context; once `initialized`, the caller is never
inside the loops. `WarmedUp` carries `ReadyIsLoaded`: the caller that sets `initialized` has walked through
the whole list (`LoopLoadsAll`), and its context is the shared one. It yields `ReadyLoaded`, `ReturnedLoaded`,
`InitializedOnce`, `SingleContext`, and with `PromiseStep` (each action is a step of `DefaultContext` or a stutter) the
refinement `PromiseKept`. The run `YangTwoCallers` shows that `OneCaller` cannot be left out.

`YangErrorsProofs`. Type correctness needs that `error_` points to an item its list has, and that lists
never get shorter: they grow with `LY_LOSTORE`, and with `LY_LOSTORE_LAST` hold one item for good
(`RoomForItems`). `IInv` is that and, for `TextFixed`, that `said` is `what_buf_`. It holds for either
`LogStore`. Part 2 assumes `Storing`, that is `LY_LOSTORE`. `CaptureInv` says that items are not later than
the last message, that a captured item is the cause and not later than the throw, and that a text
agrees with it. It is stable because a log call then moves no item (`ItemsStay`, `LogsKeepItems`), which is
what fails with `LY_LOSTORE_LAST` and what the run `YangErrorsLast` shows. It yields `CausesKept` and
`CapturedNotLater`.

`YangContextProofs`. `OwnInv`: the context of an object exists and is not the program's, two objects
never share one, and one that exists and is not the program's has an object. Each of the steps that
hand over a context (`Construct`, `MakeRaw`, `Wrap`, `Destruct`) has its lemma, the others are
`SameOwners`. `Ownership` follows by counting. `ContentsInv` adds what contexts hold: each module once, one
implemented revision of a name at most, what was returned still there and implemented, and for every
handle that what it was answered is still the first hit of its name (`Answered`). It is inductive because
a load only appends what is missing, in any order (`LoadOrders`), so that the first hit of a name stays
the first once there is one (`FirstHit`). It yields `ContextTypes`, `LookupsStay` and `LoadsAreFound`.

`IetfInterfacesObjectProofs`, about trees without any state. `NewPathKeeps`: a call of `lyd_new_path` on a
well-formed tree makes a well-formed tree that has the whole path (`NewPathNodes` says which nodes it
creates). `ReadIsNormal`: of any tree that libyang can hold, whoever wrote it, `deserialize` makes a
vector of the type in which names, and the addresses of an interface, are not repeated. The rest says
which nodes the calls of an interface can make (`Made`), and that reading them gives back the fields.

`IetfInterfacesProofs`. `IInv` is `TypeOK` and four parts. `PhaseInv`: what `back` and `rejected` are is what
`deserialize` makes of `tree`. `CallsInv`: the calls still to be made belong to interfaces of `source`.
`MadeInv`: so does every node of the tree; without it nothing could be said of a node when it is
read. `CompleteInv`: if none has run out of memory, each call of each interface is still to be made, has its
node, or is one that libyang refuses in every tree; a call that fails because its node exists leaves no gap.
From `PhaseInv` and `ReadIsNormal` follows `ReadsNormal`; with `MadeInv`, `InventsNothing`, for which each leaf
that was read is traced to its node and to the interface that made it (`ReadIpIsTaken`); with `CompleteInv`,
`NamesReturn`, `StaysDisabled` and `NormalReturns`, in which `MadeInv` bounds what is read from above and
`CompleteInv` from below.

`IetfRoutingProofs`. `ReadRoutingNames` is about any pair of trees; `AddNamesOnce` goes through the names one
by one. In `IInv`, next to `TypeOK` and `PhaseInv`, `DoneInv` says of a `serialize` in progress how far it is:
for some `j` the first `j` calls have been taken, each was one that libyang does not refuse and for a path that
no earlier one had made, and the tree has exactly the paths these calls make. `OutcomeInv` is what becomes of
it: without allocation failure, `serialize` has thrown just if the calls of `source` do not pass (`Passes`), which
speaks of no tree. What remains is a fact about the calls alone, `PassesWritable`: a list of parts passes just if
each part does and no call is for a node that a call of an earlier part makes (`PassesConcat`, `PassesFlat`). Calls
of different kinds begin with different segments (`OtherFirst`); calls for a rib make its entry, the key leaf and
their own leaf (`RibCall`), so two of them clash only for one leaf or one name (`OtherLeaves`, `RibsClash`); a
control-plane-protocol always clashes with itself (`CppClash`). Together they give `Throws` (`ThrowsExactly`);
`NamesOnce` (`NamedOnce`) and `Types` need only `PhaseInv` and the lemmas about trees.

`ComesBack` (`AllOrNothing`) compares whole models, so the invariant also says what is in the tree. `Built(nodes,
cs, d)`: the nodes are well formed, they have exactly the paths of the first `d` calls, each is a node that one
of these calls makes, and a node that stands before another was made no later (`InOrder`). `DoneInv` has it of the
root, and `ReturnInv` of the tree that was returned, until another one takes its place. The rest is about a tree
with `Built`, and no state: `RoutingNodes` lists the nodes it can have, `RibNodeOf`, `RouteNodeOf`, `EntryNodeOf` what
stands at a path, and from above and below follow the leaves (`ReadsRouterId`, `ReadsRibLeaves`). For the lists the
order matters: the entries of a list in the tree are an enumeration of the elements of the model whose calls
made them, and there is only one enumeration in increasing order (`EntriesInOrder`, `OneEnumeration`). Its premise is
that the call for an earlier element comes before every call that could make a later one (`Leads`: `NameLeads`,
`RibLeads`, `RouteLeads`). That gives `ReadsNames`, `ReadsRibEntries`, `ReadsRoutes` and, put together, `ReadsBack`:
`ReadRouting` of such a tree is `Carried(m)`, in the model even in the order of the ribs, of which `AllOrNothing` says nothing.

`SecondRound` (`SecondRoundIsExact`) applies `ReadsBack` a second time: `Written(back)` is `Built`
(`WrittenIsBuilt`), and `Carried` changes nothing of what it has made (`CarriedAgain`), because the names of `back` do
not repeat, no preference of it is missing, and an identity cut once has no colon left. When `back` can be
written at all is `CarriedIsWritable`.

The assumptions of these modules (`InterfaceDataAssumption`, `InterfaceSchemaAssumption`, `InterfacesAssumption`,
`RoutingDataAssumption`, `RoutingSchemaAssumption`, `RoutingAssumption`) give the constants their types, say that
the table of identities is injective and that `None` is no value, and take from the YANG modules which leaves
are keys, which types refuse nothing and which values libyang stores as they are. TLC evaluates
them in the runs `Interfaces` and `Routing`.

Only model-checked: `Recovers`, because liveness is out of the prover's reach. Every invariant and action
property of the passing runs is a theorem. Properties that the
expected violations refute (`RoundTrips` and others) have no theorem. `FlattenSeq`, `AddNames` and `Written` are recursive
functions; the library's induction theorems take an operator as parameter, which no installed prover can
instantiate, so inductions over a prefix use `UpTo` of `SequenceLemmas`: a set of numbers with 0 that has the next
number with each has all up to `n`.

## Not modelled

* The typedef headers: no state, no operation.
* The wording of messages, XML syntax, and the lexical rules of values beyond accepted and refused.
* The two tables of Yang.hpp and the 290 identities of IanaIfType.hpp are constants: any finite
  sequences, any injective table. That `ianaIfTypeFromString` inverts `ianaIfTypeToString` then holds
  because the header's tables are injective, which was checked by reading them.
* Within `IetfRouting`: `next_hop`, `metadata` and `default_rib`, which no function touches; `stoul`, whose
  argument libyang has checked to be a uint32.
* Reading a `YangSchemaModule` or a tree after its context is destroyed: undefined, and the code promises
  nothing.

## Plan

Every part with state is modelled. What is left:

1. A composition of `IetfRouting` and `YangErrors`: the exception that a failing `serialize` throws
   reports that call.
2. An abstract serializer ("the tree of the whole model, or an exception") that `IetfRouting` refines;
   `AllOrNothing` and `ThrowsExactly` say the same of its end states.
