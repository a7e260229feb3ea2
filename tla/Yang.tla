-------------------------------- MODULE Yang --------------------------------
(***************************************************************************)
(* The process-wide context of Yang.cpp: getContext and getDefaultContext, *)
(* their function-local statics `instance' and `initialized', and the      *)
(* callers that use the shared YangContext.  One step is one access to a   *)
(* static or one call into libyang or the file system, so directories may  *)
(* come and go between the steps of a call.                                *)
(*   Nothing in Yang.cpp is synchronized.  With several callers its data   *)
(* races are undefined behaviour, and the interleavings of these steps are *)
(* only some of what can happen: enough to show what goes wrong, never to  *)
(* show that concurrent calls are safe.                                    *)
(***************************************************************************)
EXTENDS YangContextObject, Naturals

CONSTANTS
  Callers,             \* threads of the program; the tests have one
  NoYanglibrary,       \* YangContextOption::NoYanglibrary
  kDefaultSearchPaths, \* sequence of paths
  kDefaultModules,     \* sequence of modules
  CallerOptions,       \* the option lists callers give to getContext
  CallerPaths,         \* the paths callers add to the shared context
  CallerModules,       \* the modules callers load into it
  InitialPaths,        \* the directories present at the start
  MaxSearchPaths,      \* bound: callers add or retry while room is left
  MaxFaults            \* bound: directory changes and ly_ctx_new failures

ASSUME YangAssumption ==
  /\ NoYanglibrary \in Options
  /\ kDefaultSearchPaths \in Seq(Paths)
  /\ kDefaultModules \in Seq(Modules)
  /\ CallerOptions \subseteq SUBSET Options
  /\ CallerPaths \subseteq Paths
  /\ CallerModules \subseteq Modules
  /\ InitialPaths \subseteq Paths
  /\ MaxSearchPaths \in Nat
  /\ MaxFaults \in Nat

VARIABLES
  instance,     \* getContext's static: an index into ctxs, 0 for nullptr
  initialized,  \* getDefaultContext's static
  ctxs,         \* the YangContext objects constructed, in order
  pc,           \* where each caller is, "idle" outside the library
  fn,           \* the function the caller is in, or called last
  opts,         \* getContext's parameter
  held,         \* the shared_ptr the caller last got, an index into ctxs
  idx,          \* loop position in getDefaultContext
  added,        \* getDefaultContext's count of search paths
  outcome,      \* how the last call ended
  present,      \* the directories that exist now and can be used
  barred,       \* the paths that may not be examined now (EACCES)
  faults        \* environment events so far

statics == <<instance, initialized>>
locals  == <<fn, opts, held, idx, added>>
env     == <<present, barred, faults>>
vars    == <<statics, ctxs, pc, locals, outcome, env>>

Places == {"idle", "check", "construct", "assign", "copy", "started",
           "probe", "add", "load"}
CalledFunctions == {"none", "getContext", "getDefaultContext",
                    "addSearchPath", "loadModuleInContext"}
Outcomes == {"none", "returned", "YangError", "YangDataError",
             "filesystem_error"}

TypeOK ==
  /\ ctxs \in Seq(Context)
  /\ instance \in 0..Len(ctxs)
  /\ initialized \in BOOLEAN
  /\ pc \in [Callers -> Places]
  /\ fn \in [Callers -> CalledFunctions]
  /\ opts \in [Callers -> SUBSET Options]
  /\ held \in [Callers -> 0..Len(ctxs)]
  /\ idx \in [Callers -> Nat]
  /\ added \in [Callers -> Nat]
  /\ outcome \in [Callers -> Outcomes]
  /\ present \in SUBSET Paths
  /\ barred \in SUBSET Paths
  /\ faults \in Nat

Init ==
  /\ instance = 0
  /\ initialized = FALSE
  /\ ctxs = <<>>
  /\ pc = [t \in Callers |-> "idle"]
  /\ fn = [t \in Callers |-> "none"]
  /\ opts = [t \in Callers |-> {}]
  /\ held = [t \in Callers |-> 0]
  /\ idx = [t \in Callers |-> 0]
  /\ added = [t \in Callers |-> 0]
  /\ outcome = [t \in Callers |-> "none"]
  /\ present = InitialPaths
  /\ barred = {}
  /\ faults = 0

-----------------------------------------------------------------------------
At(t, place)   == pc[t] = place
Goto(t, place) == pc' = [pc EXCEPT ![t] = place]
Finish(t, o)   == Goto(t, "idle") /\ outcome' = [outcome EXCEPT ![t] = o]

\* Every default module is in the context c.
FullyLoaded(c) == \A i \in DOMAIN kDefaultModules : HasModule(c, kDefaultModules[i])

\* An initialization that ran now would succeed: every default search path can
\* be examined, one of them is there, and with them libyang can load every
\* default module into the shared context, or into a new one.
Installable ==
  LET there == Range(kDefaultSearchPaths) \intersect present
      ly == IF instance = 0 THEN ly_ctx_new({NoYanglibrary})
                            ELSE ctxs[instance].ctx_
  IN /\ Range(kDefaultSearchPaths) \intersect barred = {}
     /\ there # {}
     /\ \A m \in Range(kDefaultModules) :
          Loadable([ly EXCEPT !.dirs = @ \union there], m, present)

\* A caller stops retrying when search_paths_ is full, unless the retry can
\* succeed.
Room ==
  instance # 0 =>
    Len(ctxs[instance].search_paths_) + Len(kDefaultSearchPaths) <= MaxSearchPaths

-----------------------------------------------------------------------------
(* getContext, which getDefaultContext calls first *)

CallGetContext(t, o) ==
  /\ At(t, "idle")
  /\ Goto(t, "check")
  /\ fn' = [fn EXCEPT ![t] = "getContext"]
  /\ opts' = [opts EXCEPT ![t] = o]
  /\ UNCHANGED <<statics, ctxs, held, idx, added, outcome, env>>

CallGetDefaultContext(t) ==
  /\ At(t, "idle")
  /\ Room \/ Installable
  /\ Goto(t, "check")
  /\ fn' = [fn EXCEPT ![t] = "getDefaultContext"]
  /\ opts' = [opts EXCEPT ![t] = {NoYanglibrary}]
  /\ UNCHANGED <<statics, ctxs, held, idx, added, outcome, env>>

\* Mutant: the test of the static is missing.
ConstructAlways(t) ==
  /\ At(t, "check")
  /\ Goto(t, "construct")
  /\ UNCHANGED <<statics, ctxs, locals, outcome, env>>

\* if (!instance)
CheckInstance(t) ==
  /\ At(t, "check")
  /\ Goto(t, IF instance = 0 THEN "construct" ELSE "copy")
  /\ UNCHANGED <<statics, ctxs, locals, outcome, env>>

\* make_shared<YangContext>(flags)
Construct(t) ==
  /\ At(t, "construct")
  /\ ctxs' = Append(ctxs, NewContext(opts[t]))
  /\ held' = [held EXCEPT ![t] = Len(ctxs')]
  /\ Goto(t, "assign")
  /\ UNCHANGED <<statics, fn, opts, idx, added, outcome, env>>

\* Mutant: the constructor does not throw and the object is used.
FailedConstructionUsed(t) ==
  /\ At(t, "construct")
  /\ faults < MaxFaults
  /\ faults' = faults + 1
  /\ held' = [held EXCEPT ![t] = Len(ctxs) + 1]
  /\ Goto(t, "assign")
  /\ UNCHANGED <<statics, ctxs, fn, opts, idx, added, outcome, present, barred>>

\* ly_ctx_new fails: the constructor throws and nothing is assigned
ConstructFails(t) ==
  /\ At(t, "construct")
  /\ faults < MaxFaults
  /\ faults' = faults + 1
  /\ Finish(t, "YangError")
  /\ UNCHANGED <<statics, ctxs, locals, present, barred>>

AssignInstance(t) ==
  /\ At(t, "assign")
  /\ instance' = held[t]
  /\ Goto(t, "copy")
  /\ UNCHANGED <<initialized, ctxs, locals, outcome, env>>

\* return instance
CopyInstance(t) ==
  /\ At(t, "copy")
  /\ held' = [held EXCEPT ![t] = instance]
  /\ IF fn[t] = "getDefaultContext"
       THEN Goto(t, "started") /\ UNCHANGED outcome
       ELSE Finish(t, "returned")
  /\ UNCHANGED <<statics, ctxs, fn, opts, idx, added, env>>

-----------------------------------------------------------------------------
(* the rest of getDefaultContext *)

\* if (initialized) return instance
AlreadyInitialized(t) ==
  /\ At(t, "started")
  /\ initialized
  /\ Finish(t, "returned")
  /\ UNCHANGED <<statics, ctxs, locals, env>>

\* Mutant: the early return does not stop the initialization.
StartAgain(t) ==
  /\ At(t, "started")
  /\ idx' = [idx EXCEPT ![t] = 1]
  /\ added' = [added EXCEPT ![t] = 0]
  /\ Goto(t, "probe")
  /\ UNCHANGED <<statics, ctxs, fn, opts, held, outcome, env>>

\* Mutant: initialized is set before the work instead of after it.
InitializedTooEarly(t) ==
  /\ At(t, "started")
  /\ ~initialized
  /\ initialized' = TRUE
  /\ idx' = [idx EXCEPT ![t] = 1]
  /\ added' = [added EXCEPT ![t] = 0]
  /\ Goto(t, "probe")
  /\ UNCHANGED <<instance, ctxs, fn, opts, held, outcome, env>>

StartInitialization(t) ==
  /\ At(t, "started")
  /\ ~initialized
  /\ idx' = [idx EXCEPT ![t] = 1]
  /\ added' = [added EXCEPT ![t] = 0]
  /\ Goto(t, "probe")
  /\ UNCHANGED <<statics, ctxs, fn, opts, held, outcome, env>>

\* exists or is_directory throws: the overloads without an error_code do for
\* any failure but "not found".  The paths before it have been added.
ProbeThrows(t) ==
  /\ At(t, "probe")
  /\ idx[t] <= Len(kDefaultSearchPaths)
  /\ kDefaultSearchPaths[idx[t]] \in barred
  /\ Finish(t, "filesystem_error")
  /\ UNCHANGED <<statics, ctxs, locals, env>>

\* exists(pp) && is_directory(pp)
ProbePath(t) ==
  /\ At(t, "probe")
  /\ idx[t] <= Len(kDefaultSearchPaths)
  /\ kDefaultSearchPaths[idx[t]] \notin barred
  /\ IF kDefaultSearchPaths[idx[t]] \in present
       THEN Goto(t, "add") /\ UNCHANGED idx
       ELSE idx' = [idx EXCEPT ![t] = @ + 1] /\ UNCHANGED pc
  /\ UNCHANGED <<statics, ctxs, fn, opts, held, added, outcome, env>>

\* Mutant: a path the context has already is neither added nor counted.
OnlyNewPaths(t) ==
  /\ At(t, "add")
  /\ LET p == kDefaultSearchPaths[idx[t]]
         c == ctxs[held[t]]
     IN IF p \in Range(c.search_paths_)
          THEN UNCHANGED <<ctxs, added>>
          ELSE /\ ctxs' = [ctxs EXCEPT ![held[t]] = AddSearchPath(c, p, present)]
               /\ added' = [added EXCEPT ![t] = @ + 1]
  /\ idx' = [idx EXCEPT ![t] = @ + 1]
  /\ Goto(t, "probe")
  /\ UNCHANGED <<statics, fn, opts, held, outcome, env>>

\* instance->addSearchPath(...); ++added.  The directory may be gone by now.
AddDefaultPath(t) ==
  /\ At(t, "add")
  /\ ctxs' = [ctxs EXCEPT ![held[t]] =
                AddSearchPath(@, kDefaultSearchPaths[idx[t]], present)]
  /\ added' = [added EXCEPT ![t] = @ + 1]
  /\ idx' = [idx EXCEPT ![t] = @ + 1]
  /\ Goto(t, "probe")
  /\ UNCHANGED <<statics, fn, opts, held, outcome, env>>

\* if (added == 0) throw; otherwise go on to the module loop
PathsDone(t) ==
  /\ At(t, "probe")
  /\ idx[t] > Len(kDefaultSearchPaths)
  /\ IF added[t] = 0
       THEN Finish(t, "YangDataError") /\ UNCHANGED idx
       ELSE Goto(t, "load") /\ idx' = [idx EXCEPT ![t] = 1] /\ UNCHANGED outcome
  /\ UNCHANGED <<statics, ctxs, fn, opts, held, added, env>>

LoadDefaultModule(t) ==
  /\ At(t, "load")
  /\ idx[t] <= Len(kDefaultModules)
  /\ Loadable(ctxs[held[t]].ctx_, kDefaultModules[idx[t]], present)
  /\ ctxs' = [ctxs EXCEPT ![held[t]] =
                LoadModuleInContext(@, kDefaultModules[idx[t]])]
  /\ idx' = [idx EXCEPT ![t] = @ + 1]
  /\ UNCHANGED <<statics, pc, fn, opts, held, added, outcome, env>>

\* Mutant: a module that cannot be loaded is skipped.
LoadSkips(t) ==
  /\ At(t, "load")
  /\ idx[t] <= Len(kDefaultModules)
  /\ ~Loadable(ctxs[held[t]].ctx_, kDefaultModules[idx[t]], present)
  /\ idx' = [idx EXCEPT ![t] = @ + 1]
  /\ UNCHANGED <<statics, ctxs, pc, fn, opts, held, added, outcome, env>>

\* Mutant: a failed initialization is undone.
LoadFailsUndone(t) ==
  /\ At(t, "load")
  /\ idx[t] <= Len(kDefaultModules)
  /\ ~Loadable(ctxs[held[t]].ctx_, kDefaultModules[idx[t]], present)
  /\ ctxs' = [ctxs EXCEPT ![held[t]] = NewContext(@.ctx_.flags)]
  /\ Finish(t, "YangDataError")
  /\ UNCHANGED <<statics, locals, env>>

LoadFails(t) ==
  /\ At(t, "load")
  /\ idx[t] <= Len(kDefaultModules)
  /\ ~Loadable(ctxs[held[t]].ctx_, kDefaultModules[idx[t]], present)
  /\ Finish(t, "YangDataError")
  /\ UNCHANGED <<statics, ctxs, locals, env>>

\* Mutant: the flag is not set.
InitializedForgotten(t) ==
  /\ At(t, "load")
  /\ idx[t] > Len(kDefaultModules)
  /\ Finish(t, "returned")
  /\ UNCHANGED <<statics, ctxs, locals, env>>

\* initialized = true; return instance
SetInitialized(t) ==
  /\ At(t, "load")
  /\ idx[t] > Len(kDefaultModules)
  /\ initialized' = TRUE
  /\ Finish(t, "returned")
  /\ UNCHANGED <<instance, ctxs, locals, env>>

-----------------------------------------------------------------------------
(* what a caller does with the context it holds *)

CallerAddsPath(t, p) ==
  /\ At(t, "idle")
  /\ held[t] # 0
  /\ Len(ctxs[held[t]].search_paths_) < MaxSearchPaths
  /\ ctxs' = [ctxs EXCEPT ![held[t]] = AddSearchPath(@, p, present)]
  /\ fn' = [fn EXCEPT ![t] = "addSearchPath"]
  /\ Finish(t, "returned")
  /\ UNCHANGED <<statics, opts, held, idx, added, env>>

CallerLoads(t, m) ==
  /\ At(t, "idle")
  /\ held[t] # 0
  /\ fn' = [fn EXCEPT ![t] = "loadModuleInContext"]
  /\ IF Loadable(ctxs[held[t]].ctx_, m, present)
       THEN /\ ctxs' = [ctxs EXCEPT ![held[t]] = LoadModuleInContext(@, m)]
            /\ Finish(t, "returned")
       ELSE Finish(t, "YangDataError") /\ UNCHANGED ctxs
  /\ UNCHANGED <<statics, opts, held, idx, added, env>>

\* Somebody else installs, removes or bars a directory of YANG modules.
DirectoryChanges ==
  /\ faults < MaxFaults
  /\ faults' = faults + 1
  /\ \E p \in Paths :
       \/ present' = present \union {p} /\ barred' = barred \ {p}
       \/ present' = present \ {p} /\ barred' = barred \ {p}
       \/ present' = present \ {p} /\ barred' = barred \union {p}
  /\ <<present, barred>>' # <<present, barred>>
  /\ UNCHANGED <<statics, ctxs, pc, locals, outcome>>

-----------------------------------------------------------------------------
\* The steps inside a call.
Step(t) ==
  \/ CheckInstance(t) \/ Construct(t) \/ ConstructFails(t)
  \/ AssignInstance(t) \/ CopyInstance(t)
  \/ AlreadyInitialized(t) \/ StartInitialization(t)
  \/ ProbePath(t) \/ ProbeThrows(t) \/ AddDefaultPath(t) \/ PathsDone(t)
  \/ LoadDefaultModule(t) \/ LoadFails(t) \/ SetInitialized(t)

Call(t) ==
  \/ \E o \in CallerOptions : CallGetContext(t, o)
  \/ CallGetDefaultContext(t)
  \/ \E p \in CallerPaths : CallerAddsPath(t, p)
  \/ \E m \in CallerModules : CallerLoads(t, m)

Next == DirectoryChanges \/ \E t \in Callers : Step(t) \/ Call(t)

Spec == Init /\ [][Next]_vars

\* A thread inside the library keeps running; nobody has to call.
FairSpec == Spec /\ \A t \in Callers : WF_vars(Step(t))

-----------------------------------------------------------------------------
(* Properties *)

\* There is one caller: the way the repository's tests use the library.
OneCaller == \A s, t \in Callers : s = t

Initializing == {"probe", "add", "load"}

\* `initialized' set means the shared context exists and has every module of
\* kDefaultModules, whatever failed calls, retries, directory changes and
\* callers' own loads came before (Yang.cpp:55-64).
ReadyIsLoaded ==
  initialized => instance # 0 /\ FullyLoaded(ctxs[instance])

\* A getDefaultContext that returned gave its caller the shared context with
\* every default module in it, on the early return too (Yang.cpp:33, 65).
ReturnedIsLoaded ==
  \A t \in Callers :
    fn[t] = "getDefaultContext" /\ At(t, "idle") /\ outcome[t] = "returned"
      => held[t] = instance /\ held[t] # 0 /\ FullyLoaded(ctxs[held[t]])

\* Once initialized, no call probes, adds or loads again (Yang.cpp:33).
InitializesOnce ==
  initialized => \A t \in Callers : pc[t] \notin Initializing

\* At most one YangContext is ever constructed, failed constructions and
\* repeated calls included, and it is never replaced (Yang.cpp:20-24).
OneContext == Len(ctxs) <= 1

\* A call that throws leaves what its earlier steps did: no context loses a
\* search path, a directory or a module, so a retry continues from there.
NothingIsUndone ==
  [][\A c \in DOMAIN ctxs :
       /\ c \in DOMAIN ctxs'
       /\ ctxs[c].ctx_.dirs \subseteq ctxs'[c].ctx_.dirs
       /\ Range(ctxs[c].ctx_.modules) \subseteq Range(ctxs'[c].ctx_.modules)
       /\ Len(ctxs[c].search_paths_) <= Len(ctxs'[c].search_paths_)]_ctxs

\* Failed initializations do no lasting harm: if from some time on the default
\* paths can be examined, the modules are installed and no other revision
\* opposes them, and getDefaultContext is entered again and again, the context
\* becomes initialized, whatever was recorded and refused before (Yang.cpp:38-45).
Recovers ==
  (/\ <>[]Installable
   /\ []<>(\E t \in Callers : fn[t] = "getDefaultContext" /\ ~At(t, "idle")))
  => <>initialized

-----------------------------------------------------------------------------
(* The promise of Yang.hpp:21-24, in DefaultContext *)

DefaultAnswer(t) ==
  CASE fn[t] # "getDefaultContext" -> "none"
    [] fn[t] = "getDefaultContext" /\ ~At(t, "idle") -> "pending"
    [] OTHER -> IF outcome[t] = "returned" THEN "context" ELSE "error"

Promise == INSTANCE DefaultContext WITH
  Default <- Range(kDefaultModules),
  shared <- IF instance = 0 THEN {} ELSE Range(ctxs[instance].ctx_.modules),
  ready <- initialized,
  answer <- [t \in Callers |-> DefaultAnswer(t)]

\* One caller's getDefaultContext keeps the promise: it throws only before
\* the first success, and whatever it returns has every default module.
KeepsPromise == Promise!Spec

-----------------------------------------------------------------------------
(* What the comments and tests say and the code does not do.  The runs that *)
(* check these are expected to find a counterexample.                       *)

\* "Create a context that does not auto-initialize ietf-yang-library"
\* (Yang.cpp:29): the context getDefaultContext returns has the flag.
DefaultHasNoYanglibrary ==
  \A t \in Callers :
    fn[t] = "getDefaultContext" /\ At(t, "idle") /\ outcome[t] = "returned"
      => NoYanglibrary \in ctxs[held[t]].ctx_.flags

\* "Return a fully-initialized default context" (Yang.hpp:21): the context it
\* returns, the shared one or not, has every default module.
ReturnedHasModules ==
  \A t \in Callers :
    fn[t] = "getDefaultContext" /\ At(t, "idle") /\ outcome[t] = "returned"
      => held[t] # 0 /\ FullyLoaded(ctxs[held[t]])

=============================================================================
