----------------------------- MODULE YangProofs -----------------------------
(***************************************************************************)
(* Proofs about Yang, for every set of callers, paths and modules.  Part 2 *)
(* assumes OneCaller.  Part 1 does not need it, but with several callers   *)
(* it speaks of callers that take turns at the steps of Yang, not of       *)
(* threads that race on the unsynchronized variables of Yang.cpp.          *)
(***************************************************************************)
EXTENDS Yang, YangContextObjectProofs

-----------------------------------------------------------------------------
(* Part 1: callers that take turns *)

\* The modules of kDefaultModules before idx[t] are in the caller's context.
LoadedSoFar(t) ==
  \A i \in DOMAIN kDefaultModules :
    i < idx[t] => HasModule(ctxs[held[t]], kDefaultModules[i])

\* What a caller relies on where it is.
CallerInv(t) ==
  /\ pc[t] = "copy" => instance # 0
  /\ pc[t] = "assign" => held[t] # 0
  /\ pc[t] \in {"started"} \union Initializing =>
       held[t] # 0 /\ fn[t] = "getDefaultContext"
  /\ pc[t] \in Initializing => idx[t] # 0
  /\ pc[t] = "add" => idx[t] <= Len(kDefaultSearchPaths)
  /\ pc[t] = "load" => LoadedSoFar(t)

IInv == TypeOK /\ \A t \in Callers : CallerInv(t)

\* The invariant holds at the start of the program (Yang.cpp:20, 28): there is
\* no context and no caller is inside the library.
LEMMA InitIInv == Init => IInv
<1>. SUFFICES ASSUME Init PROVE IInv
  OBVIOUS
<1>1. TypeOK
  <2>1. ctxs \in Seq(Context) /\ instance \in 0..Len(ctxs)
    BY DEF Init
  <2>2. held \in [Callers -> 0..Len(ctxs)]
    BY DEF Init
  <2>. QED
    BY <2>1, <2>2, YangAssumption DEF Init, TypeOK, Places, CalledFunctions, Outcomes
<1>2. ASSUME NEW t \in Callers PROVE CallerInv(t)
  BY DEF Init, CallerInv, Initializing
<1>. QED
  BY <1>1, <1>2 DEF IInv

\* Every step keeps the state well-typed: held and instance stay indices of
\* constructed contexts, whatever libyang and the file system answer.
LEMMA TypeInvariant ==
  ASSUME IInv, [Next]_vars
  PROVE  TypeOK'
<1>. USE DEF IInv, TypeOK
<1>. USE YangAssumption
<1>1. CASE DirectoryChanges
  BY <1>1 DEF DirectoryChanges, statics, locals
<1>2. ASSUME NEW t \in Callers, Step(t) \/ Call(t)
      PROVE  TypeOK'
  <2>1. ASSUME NEW o \in CallerOptions, CallGetContext(t, o) PROVE TypeOK'
    BY <2>1 DEF CallGetContext, At, Goto, statics, env, Places, CalledFunctions
  <2>2. CASE CallGetDefaultContext(t)
    BY <2>2 DEF CallGetDefaultContext, At, Goto, statics, env, Places, CalledFunctions
  <2>3. CASE CheckInstance(t)
    BY <2>3 DEF CheckInstance, At, Goto, statics, locals, env, Places
  <2>4. CASE Construct(t)
    <3>1. NewContext(opts[t]) \in Context
      BY NewContextType
    <3>2. ctxs' \in Seq(Context) /\ Len(ctxs') = Len(ctxs) + 1 /\ Len(ctxs) \in Nat
      BY <2>4, <3>1 DEF Construct
    <3>. QED
      BY <2>4, <3>2 DEF Construct, At, Goto, statics, env, Places
  <2>5. CASE ConstructFails(t)
    BY <2>5 DEF ConstructFails, At, Finish, Goto, statics, locals, Places, Outcomes
  <2>6. CASE AssignInstance(t)
    BY <2>6 DEF AssignInstance, At, Goto, locals, env, Places
  <2>7. CASE CopyInstance(t)
    BY <2>7 DEF CopyInstance, At, Finish, Goto, statics, env, Places, Outcomes
  <2>8. CASE AlreadyInitialized(t)
    BY <2>8 DEF AlreadyInitialized, At, Finish, Goto, statics, locals, env, Places, Outcomes
  <2>9. CASE StartInitialization(t)
    BY <2>9 DEF StartInitialization, At, Goto, statics, env, Places
  <2>10. CASE ProbePath(t)
    <3>1. CASE kDefaultSearchPaths[idx[t]] \in present
      BY <2>10, <3>1 DEF ProbePath, At, Goto, statics, env, Places
    <3>2. CASE kDefaultSearchPaths[idx[t]] \notin present
      <4>1. idx' = [idx EXCEPT ![t] = idx[t] + 1] /\ UNCHANGED pc
        BY <2>10, <3>2 DEF ProbePath
      <4>2. idx' \in [Callers -> Nat]
        BY <4>1
      <4>. QED
        BY <2>10, <4>1, <4>2 DEF ProbePath, statics, env
    <3>. QED
      BY <3>1, <3>2
  <2>11. CASE AddDefaultPath(t)
    <3>1. /\ held[t] \in DOMAIN ctxs
          /\ kDefaultSearchPaths[idx[t]] \in Paths
      BY <2>11 DEF AddDefaultPath, At, CallerInv, Initializing
    <3>2. AddSearchPath(ctxs[held[t]], kDefaultSearchPaths[idx[t]], present) \in Context
      BY <3>1, AddSearchPathFacts
    <3>3. ctxs' \in Seq(Context) /\ Len(ctxs') = Len(ctxs)
      BY <2>11, <3>1, <3>2 DEF AddDefaultPath
    <3>. QED
      BY <2>11, <3>3 DEF AddDefaultPath, At, Goto, statics, env, Places
  <2>12. CASE PathsDone(t)
    <3>1. CASE added[t] = 0
      BY <2>12, <3>1 DEF PathsDone, At, Finish, Goto, statics, env, Places, Outcomes
    <3>2. CASE added[t] # 0
      <4>1. /\ idx' = [idx EXCEPT ![t] = 1]
            /\ pc' = [pc EXCEPT ![t] = "load"]
            /\ UNCHANGED outcome
        BY <2>12, <3>2 DEF PathsDone, Goto
      <4>2. idx' \in [Callers -> Nat] /\ pc' \in [Callers -> Places]
        BY <4>1 DEF Places
      <4>. QED
        BY <2>12, <4>1, <4>2 DEF PathsDone, statics, env
    <3>. QED
      BY <3>1, <3>2
  <2>13. CASE LoadDefaultModule(t)
    <3>1. /\ held[t] \in DOMAIN ctxs
          /\ kDefaultModules[idx[t]] \in Modules
      BY <2>13 DEF LoadDefaultModule, At, CallerInv, Initializing
    <3>2. LoadModuleInContext(ctxs[held[t]], kDefaultModules[idx[t]]) \in Context
      BY <3>1, LoadModuleFacts
    <3>3. ctxs' \in Seq(Context) /\ Len(ctxs') = Len(ctxs)
      BY <2>13, <3>1, <3>2 DEF LoadDefaultModule
    <3>. QED
      BY <2>13, <3>3 DEF LoadDefaultModule, At, statics, env
  <2>14. CASE LoadFails(t) \/ ProbeThrows(t)
    BY <2>14 DEF LoadFails, ProbeThrows, At, Finish, Goto, statics, locals, env,
         Places, Outcomes
  <2>15. CASE SetInitialized(t)
    BY <2>15 DEF SetInitialized, At, Finish, Goto, locals, env, Places, Outcomes
  <2>16. ASSUME NEW p \in CallerPaths, CallerAddsPath(t, p) PROVE TypeOK'
    <3>1. held[t] \in DOMAIN ctxs /\ p \in Paths
      BY <2>16 DEF CallerAddsPath
    <3>2. AddSearchPath(ctxs[held[t]], p, present) \in Context
      BY <3>1, AddSearchPathFacts
    <3>3. ctxs' \in Seq(Context) /\ Len(ctxs') = Len(ctxs)
      BY <2>16, <3>1, <3>2 DEF CallerAddsPath
    <3>. QED
      BY <2>16, <3>3 DEF CallerAddsPath, At, Finish, Goto, statics, env, Places,
           Outcomes, CalledFunctions
  <2>17. ASSUME NEW m \in CallerModules, CallerLoads(t, m) PROVE TypeOK'
    <3>1. held[t] \in DOMAIN ctxs /\ m \in Modules
      BY <2>17 DEF CallerLoads
    <3>2. LoadModuleInContext(ctxs[held[t]], m) \in Context
      BY <3>1, LoadModuleFacts
    <3>3. ctxs' = ctxs
          \/ ctxs' = [ctxs EXCEPT ![held[t]] = LoadModuleInContext(ctxs[held[t]], m)]
      BY <2>17 DEF CallerLoads
    <3>4. ctxs' \in Seq(Context) /\ Len(ctxs') = Len(ctxs)
      <4>1. CASE ctxs' = ctxs
        BY <4>1
      <4>2. CASE ctxs' = [ctxs EXCEPT ![held[t]] = LoadModuleInContext(ctxs[held[t]], m)]
        BY <4>2, <3>1, <3>2
      <4>. QED
        BY <3>3, <4>1, <4>2
    <3>5. /\ pc' = [pc EXCEPT ![t] = "idle"]
          /\ outcome' = [outcome EXCEPT ![t] = "returned"]
             \/ outcome' = [outcome EXCEPT ![t] = "YangDataError"]
      BY <2>17 DEF CallerLoads, Finish, Goto
    <3>. QED
      BY <2>17, <3>4, <3>5 DEF CallerLoads, statics, env, Places,
           Outcomes, CalledFunctions
  <2>. QED
    BY <1>2, <2>1, <2>2, <2>3, <2>4, <2>5, <2>6, <2>7, <2>8, <2>9, <2>10, <2>11,
       <2>12, <2>13, <2>14, <2>15, <2>16, <2>17 DEF Step, Call
<1>3. CASE UNCHANGED vars
  BY <1>3 DEF vars, statics, locals, env
<1>. QED
  BY <1>1, <1>2, <1>3 DEF Next

\* Context c of the next state has whatever it has now (the body of
\* NothingIsUndone).
Keeps(c) ==
  /\ c \in DOMAIN ctxs'
  /\ ctxs[c].ctx_.dirs \subseteq ctxs'[c].ctx_.dirs
  /\ Range(ctxs[c].ctx_.modules) \subseteq Range(ctxs'[c].ctx_.modules)
  /\ Len(ctxs[c].search_paths_) <= Len(ctxs'[c].search_paths_)

\* No step takes a context away, or a path or a module from one.
LEMMA ContextsGrow ==
  ASSUME IInv, [Next]_vars, NEW c \in DOMAIN ctxs
  PROVE  Keeps(c)
<1>. USE YangAssumption
<1>0. ctxs[c] \in Context /\ Len(ctxs[c].search_paths_) <= Len(ctxs[c].search_paths_)
  <2>1. ctxs[c] \in Context
    BY DEF IInv, TypeOK
  <2>2. Len(ctxs[c].search_paths_) \in Nat
    BY <2>1 DEF Context
  <2>. QED
    BY <2>1, <2>2
<1>1. CASE UNCHANGED ctxs
  BY <1>0, <1>1 DEF Keeps
<1>2. ASSUME NEW h \in DOMAIN ctxs, NEW p \in Paths,
             ctxs' = [ctxs EXCEPT ![h] = AddSearchPath(ctxs[h], p, present)]
      PROVE  Keeps(c)
  <2>1. CASE c = h
    BY <1>0, <1>2, <2>1, AddSearchPathFacts DEF Keeps
  <2>2. CASE c # h
    BY <1>0, <1>2, <2>2 DEF Keeps
  <2>. QED
    BY <2>1, <2>2
<1>3. ASSUME NEW h \in DOMAIN ctxs, NEW m \in Modules,
             ctxs' = [ctxs EXCEPT ![h] = LoadModuleInContext(ctxs[h], m)]
      PROVE  Keeps(c)
  <2>1. CASE c = h
    BY <1>0, <1>3, <2>1, LoadModuleFacts DEF Keeps
  <2>2. CASE c # h
    BY <1>0, <1>3, <2>2 DEF Keeps
  <2>. QED
    BY <2>1, <2>2
<1>4. ASSUME NEW t \in Callers, Construct(t)
      PROVE  Keeps(c)
  <2>1. NewContext(opts[t]) \in Context
    BY NewContextType DEF IInv, TypeOK
  <2>2. c \in DOMAIN ctxs' /\ ctxs'[c] = ctxs[c]
    BY <1>4, <2>1 DEF Construct, IInv, TypeOK
  <2>. QED
    BY <1>0, <2>2 DEF Keeps
<1>5. ASSUME NEW t \in Callers, AddDefaultPath(t)
      PROVE  Keeps(c)
  <2>1. held[t] \in DOMAIN ctxs /\ kDefaultSearchPaths[idx[t]] \in Paths
    BY <1>5 DEF AddDefaultPath, At, IInv, TypeOK, CallerInv, Initializing
  <2>. QED
    BY <1>2, <1>5, <2>1 DEF AddDefaultPath
<1>6. ASSUME NEW t \in Callers, LoadDefaultModule(t)
      PROVE  Keeps(c)
  <2>1. held[t] \in DOMAIN ctxs /\ kDefaultModules[idx[t]] \in Modules
    BY <1>6 DEF LoadDefaultModule, At, IInv, TypeOK, CallerInv, Initializing
  <2>. QED
    BY <1>3, <1>6, <2>1 DEF LoadDefaultModule
<1>7. ASSUME NEW t \in Callers, NEW p \in CallerPaths, CallerAddsPath(t, p)
      PROVE  Keeps(c)
  <2>1. held[t] \in DOMAIN ctxs /\ p \in Paths
    BY <1>7 DEF CallerAddsPath, IInv, TypeOK
  <2>. QED
    BY <1>2, <1>7, <2>1 DEF CallerAddsPath
<1>8. ASSUME NEW t \in Callers, NEW m \in CallerModules, CallerLoads(t, m)
      PROVE  Keeps(c)
  <2>1. held[t] \in DOMAIN ctxs /\ m \in Modules
    BY <1>8 DEF CallerLoads, IInv, TypeOK
  <2>2. \/ UNCHANGED ctxs
        \/ ctxs' = [ctxs EXCEPT ![held[t]] = LoadModuleInContext(ctxs[held[t]], m)]
    BY <1>8 DEF CallerLoads
  <2>. QED
    BY <1>1, <1>3, <2>1, <2>2
<1>9. UNCHANGED vars \/ DirectoryChanges => UNCHANGED ctxs
  BY DEF vars, DirectoryChanges
<1>10. ASSUME NEW t \in Callers,
              \/ \E o \in CallerOptions : CallGetContext(t, o)
              \/ CallGetDefaultContext(t)
              \/ CheckInstance(t) \/ ConstructFails(t) \/ AssignInstance(t)
              \/ CopyInstance(t) \/ AlreadyInitialized(t)
              \/ StartInitialization(t) \/ ProbePath(t) \/ ProbeThrows(t)
              \/ PathsDone(t) \/ LoadFails(t) \/ SetInitialized(t)
       PROVE  UNCHANGED ctxs
  BY <1>10 DEF CallGetContext, CallGetDefaultContext, CheckInstance,
       ConstructFails, AssignInstance, CopyInstance, AlreadyInitialized,
       StartInitialization, ProbePath, ProbeThrows, PathsDone, LoadFails, SetInitialized
<1>. QED
  BY <1>1, <1>4, <1>5, <1>6, <1>7, <1>8, <1>9, <1>10 DEF Next, Step, Call

\* A step of one caller leaves the locals of the others alone.
LEMMA OthersStay ==
  ASSUME TypeOK, NEW t \in Callers, Step(t) \/ Call(t),
         NEW u \in Callers, u # t
  PROVE  /\ pc'[u] = pc[u] /\ fn'[u] = fn[u] /\ held'[u] = held[u]
         /\ idx'[u] = idx[u] /\ outcome'[u] = outcome[u]
<1>. USE DEF TypeOK
<1>1. CASE Call(t)
  BY <1>1 DEF Call, CallGetContext, CallGetDefaultContext, CallerAddsPath,
       CallerLoads, Finish, Goto
<1>2. CASE CheckInstance(t) \/ Construct(t) \/ ConstructFails(t)
           \/ AssignInstance(t) \/ CopyInstance(t)
  BY <1>2 DEF CheckInstance, Construct, ConstructFails, AssignInstance,
       CopyInstance, locals, Finish, Goto
<1>3. CASE AlreadyInitialized(t) \/ StartInitialization(t) \/ ProbePath(t)
           \/ ProbeThrows(t) \/ AddDefaultPath(t) \/ PathsDone(t)
  BY <1>3 DEF AlreadyInitialized, StartInitialization, ProbePath, ProbeThrows,
       ProbeThrows, AddDefaultPath, PathsDone, locals, Finish, Goto
<1>4. CASE LoadDefaultModule(t) \/ LoadFails(t) \/ SetInitialized(t)
  BY <1>4 DEF LoadDefaultModule, LoadFails, SetInitialized, locals, Finish, Goto
<1>. QED
  BY <1>1, <1>2, <1>3, <1>4 DEF Step

\* What a caller relies on survives the steps of everybody else.
LEMMA CallerInvStable ==
  ASSUME IInv, [Next]_vars, NEW u \in Callers,
         pc'[u] = pc[u], fn'[u] = fn[u], held'[u] = held[u], idx'[u] = idx[u],
         instance # 0 => instance' # 0
  PROVE  CallerInv(u)'
<1>1. CallerInv(u) /\ held[u] \in 0..Len(ctxs) /\ Len(ctxs) \in Nat
  BY DEF IInv, TypeOK
<1>2. ASSUME pc[u] = "load", NEW i \in DOMAIN kDefaultModules, i < idx[u]
      PROVE  HasModule(ctxs[held[u]], kDefaultModules[i])'
  <2>1. held[u] \in DOMAIN ctxs
    BY <1>1, <1>2 DEF CallerInv, Initializing, IInv, TypeOK
  <2>2. Keeps(held[u])
    BY <2>1, ContextsGrow
  <2>3. HasModule(ctxs[held[u]], kDefaultModules[i])
    BY <1>1, <1>2 DEF CallerInv, LoadedSoFar
  <2>. QED
    BY <2>2, <2>3 DEF HasModule, Keeps
<1>. QED
  BY <1>1, <1>2 DEF CallerInv, LoadedSoFar, Initializing

\* A caller's own steps keep what is known of it at each place of the code
\* (Yang.cpp:20-65), and CallerInvStable covers everybody else's.
LEMMA CallerInvariant ==
  ASSUME IInv, [Next]_vars, NEW u \in Callers
  PROVE  CallerInv(u)'
<1>. USE YangAssumption
<1>1. instance # 0 => instance' # 0
  <2>1. ASSUME NEW t \in Callers, AssignInstance(t) PROVE instance' # 0
    BY <2>1 DEF AssignInstance, At, IInv, CallerInv
  <2>2. ASSUME NEW t \in Callers, Step(t) \/ Call(t), ~AssignInstance(t)
        PROVE  UNCHANGED instance
    BY <2>2 DEF Step, Call, CallGetContext, CallGetDefaultContext, CheckInstance,
         Construct, ConstructFails, CopyInstance, AlreadyInitialized,
         StartInitialization, ProbePath, ProbeThrows, AddDefaultPath, PathsDone,
         LoadDefaultModule, LoadFails, SetInitialized, CallerAddsPath,
         CallerLoads, statics
  <2>. QED
    BY <2>1, <2>2 DEF Next, DirectoryChanges, vars, statics
<1>2. CASE UNCHANGED vars \/ DirectoryChanges
  BY <1>1, <1>2, CallerInvStable DEF vars, DirectoryChanges, locals
<1>3. ASSUME NEW t \in Callers, Step(t) \/ Call(t)
      PROVE  CallerInv(u)'
  <2>1. CASE u # t
    BY <1>1, <1>3, <2>1, OthersStay, CallerInvStable DEF IInv
  <2>2. CASE u = t
    <3>. USE DEF IInv, TypeOK, CallerInv, Initializing
    <3>1. CASE Call(t)
      <4>1. pc'[t] \in {"check", "idle"}
        BY <1>3, <3>1 DEF Call, CallGetContext, CallGetDefaultContext,
             CallerAddsPath, CallerLoads, Finish, Goto
      <4>. QED
        BY <2>2, <4>1
    <3>2. CASE CheckInstance(t)
      BY <2>2, <3>2 DEF CheckInstance, Goto, statics
    <3>3. CASE Construct(t)
      <4>1. Len(ctxs') = Len(ctxs) + 1 /\ Len(ctxs) \in Nat
        BY <3>3, NewContextType DEF Construct
      <4>2. held'[t] # 0 /\ pc'[t] = "assign"
        BY <3>3, <4>1 DEF Construct, Goto
      <4>. QED
        BY <2>2, <4>2
    <3>4. CASE ConstructFails(t) \/ AlreadyInitialized(t) \/ LoadFails(t)
               \/ ProbeThrows(t) \/ SetInitialized(t)
      <4>1. pc'[t] = "idle"
        BY <3>4 DEF ConstructFails, AlreadyInitialized, LoadFails,
             ProbeThrows, SetInitialized, Finish, Goto
      <4>. QED
        BY <2>2, <4>1
    <3>5. CASE AssignInstance(t)
      BY <2>2, <3>5 DEF AssignInstance, At, Goto
    <3>6. CASE CopyInstance(t)
      <4>1. instance # 0 /\ UNCHANGED fn
        BY <3>6 DEF CopyInstance, At
      <4>2. held'[t] # 0
        BY <3>6, <4>1 DEF CopyInstance
      <4>3. CASE fn[t] = "getDefaultContext"
        BY <2>2, <3>6, <4>1, <4>2, <4>3 DEF CopyInstance, Goto
      <4>4. CASE fn[t] # "getDefaultContext"
        <5>1. pc'[t] = "idle"
          BY <3>6, <4>4 DEF CopyInstance, Finish, Goto
        <5>. QED
          BY <2>2, <5>1
      <4>. QED
        BY <4>3, <4>4
    <3>7. CASE StartInitialization(t)
      BY <2>2, <3>7 DEF StartInitialization, At, Goto
    <3>8. CASE ProbePath(t)
      <4>1. pc[t] = "probe" /\ held'[t] = held[t] /\ fn'[t] = fn[t]
        BY <3>8 DEF ProbePath, At
      <4>2. CASE kDefaultSearchPaths[idx[t]] \in present
        BY <2>2, <3>8, <4>1, <4>2 DEF ProbePath, Goto
      <4>3. CASE kDefaultSearchPaths[idx[t]] \notin present
        <5>1. pc'[t] = "probe" /\ idx'[t] = idx[t] + 1
          BY <3>8, <4>1, <4>3 DEF ProbePath
        <5>. QED
          BY <2>2, <4>1, <5>1
      <4>. QED
        BY <4>2, <4>3
    <3>9. CASE AddDefaultPath(t)
      <4>1. /\ pc[t] = "add" /\ held'[t] = held[t] /\ fn'[t] = fn[t]
            /\ pc'[t] = "probe" /\ idx'[t] = idx[t] + 1
        BY <3>9 DEF AddDefaultPath, At, Goto
      <4>. QED
        BY <2>2, <4>1
    <3>10. CASE PathsDone(t)
      <4>1. pc[t] = "probe" /\ held'[t] = held[t] /\ fn'[t] = fn[t]
        BY <3>10 DEF PathsDone, At
      <4>2. pc'[t] = "idle" \/ (pc'[t] = "load" /\ idx'[t] = 1)
        BY <3>10 DEF PathsDone, Finish, Goto
      <4>3. idx'[t] = 1 => LoadedSoFar(t)'
        BY DEF LoadedSoFar
      <4>. QED
        BY <2>2, <4>1, <4>2, <4>3
    <3>11. CASE LoadDefaultModule(t)
      <4>1. /\ pc[t] = "load" /\ held[t] \in DOMAIN ctxs
            /\ kDefaultModules[idx[t]] \in Modules
        BY <3>11 DEF LoadDefaultModule, At
      <4>2. /\ held'[t] = held[t] /\ fn'[t] = fn[t] /\ pc'[t] = pc[t]
            /\ idx'[t] = idx[t] + 1
            /\ ctxs'[held[t]] =
                 LoadModuleInContext(ctxs[held[t]], kDefaultModules[idx[t]])
        BY <3>11, <4>1 DEF LoadDefaultModule
      <4>3. Range(ctxs'[held[t]].ctx_.modules)
              = Range(ctxs[held[t]].ctx_.modules) \union {kDefaultModules[idx[t]]}
        <5>1. ctxs[held[t]] \in Context
          BY <4>1
        <5>2. Range(LoadModuleInContext(ctxs[held[t]], kDefaultModules[idx[t]]).ctx_.modules)
                = Range(ctxs[held[t]].ctx_.modules) \union {kDefaultModules[idx[t]]}
          BY <4>1, <5>1, LoadModuleFacts
        <5>. QED
          BY <4>2, <5>2
      <4>4. LoadedSoFar(t)'
        <5>. SUFFICES ASSUME NEW i \in DOMAIN kDefaultModules, i < idx[t] + 1
                      PROVE  kDefaultModules[i] \in Range(ctxs'[held[t]].ctx_.modules)
          BY <4>2 DEF LoadedSoFar, HasModule
        <5>1. i < idx[t] => kDefaultModules[i] \in Range(ctxs[held[t]].ctx_.modules)
          BY <4>1 DEF LoadedSoFar, HasModule
        <5>2. i < idx[t] \/ i = idx[t]
          OBVIOUS
        <5>. QED
          BY <4>3, <5>1, <5>2
      <4>. QED
        BY <2>2, <4>1, <4>2, <4>4
    <3>. QED
      BY <1>3, <3>1, <3>2, <3>3, <3>4, <3>5, <3>6, <3>7, <3>8, <3>9, <3>10,
         <3>11 DEF Step
  <2>. QED
    BY <2>1, <2>2
<1>. QED
  BY <1>2, <1>3 DEF Next

\* Every reachable state is type-correct, and every caller is where the code
\* before its place has taken it.
THEOREM InductiveInvariant == Spec => []IInv
<1>1. IInv /\ [Next]_vars => IInv'
  BY TypeInvariant, CallerInvariant DEF IInv
<1>. QED
  BY <1>1, InitIInv, PTL DEF Spec

\* The state stays well-typed, whatever callers, libyang and file system do.
THEOREM TypeCorrect == Spec => []TypeOK
<1>1. IInv => TypeOK
  BY DEF IInv
<1>. QED
  BY <1>1, InductiveInvariant, PTL

\* Failed calls and retries undo nothing (Yang.cpp:38-62).
THEOREM NothingUndone == Spec => NothingIsUndone
<1>1. IInv /\ [Next]_vars =>
        [\A c \in DOMAIN ctxs :
           /\ c \in DOMAIN ctxs'
           /\ ctxs[c].ctx_.dirs \subseteq ctxs'[c].ctx_.dirs
           /\ Range(ctxs[c].ctx_.modules) \subseteq Range(ctxs'[c].ctx_.modules)
           /\ Len(ctxs[c].search_paths_) <= Len(ctxs'[c].search_paths_)]_ctxs
  BY ContextsGrow DEF Keeps
<1>. QED
  BY <1>1, InductiveInvariant, PTL DEF Spec, NothingIsUndone

\* A caller at the end of the module loop has the whole list.
LEMMA LoopLoadsAll ==
  ASSUME IInv, NEW t \in Callers, SetInitialized(t)
  PROVE  held[t] # 0 /\ FullyLoaded(ctxs[held[t]])
<1>1. pc[t] = "load" /\ idx[t] > Len(kDefaultModules) /\ CallerInv(t) /\ idx[t] \in Nat
  BY DEF SetInitialized, At, IInv, TypeOK
<1>2. ASSUME NEW i \in DOMAIN kDefaultModules
      PROVE  i < idx[t]
  <2>1. Len(kDefaultModules) \in Nat /\ i \in 1..Len(kDefaultModules)
    BY YangAssumption
  <2>. QED
    BY <1>1, <2>1
<1>. QED
  BY <1>1, <1>2 DEF CallerInv, LoadedSoFar, FullyLoaded, Initializing

\* No caller is between `if (!instance)' and the assignment, and whoever is
\* past getContext holds the shared context.
WarmedUp ==
  /\ instance # 0
  /\ \A t \in Callers :
       /\ pc[t] \notin {"construct", "assign"}
       /\ pc[t] \in {"started"} \union Initializing => held[t] = instance

\* From there no step replaces the context or sets `initialized' too early.
LEMMA WarmUpStep ==
  ASSUME IInv, WarmedUp, ReadyIsLoaded, [Next]_vars
  PROVE  WarmedUp' /\ ReadyIsLoaded' /\ instance' = instance
<1>. USE DEF WarmedUp
<1>1. instance' = instance
  <2>1. ASSUME NEW t \in Callers, Step(t) \/ Call(t) PROVE instance' = instance
    <3>1. ~AssignInstance(t)
      BY DEF AssignInstance, At
    <3>. QED
      BY <2>1, <3>1 DEF Step, Call, CallGetContext, CallGetDefaultContext,
         CheckInstance, Construct, ConstructFails, CopyInstance,
         AlreadyInitialized, StartInitialization, ProbePath, ProbeThrows,
         AddDefaultPath, PathsDone, LoadDefaultModule, LoadFails, SetInitialized,
         CallerAddsPath, CallerLoads, statics
  <2>. QED
    BY <2>1 DEF Next, DirectoryChanges, vars, statics
<1>2. ASSUME NEW u \in Callers
      PROVE  /\ pc'[u] \notin {"construct", "assign"}
             /\ pc'[u] \in {"started"} \union Initializing => held'[u] = instance
  <2>. USE DEF IInv, TypeOK, Initializing
  <2>1. CASE UNCHANGED vars \/ DirectoryChanges
    BY <2>1 DEF vars, DirectoryChanges, locals
  <2>2. ASSUME NEW t \in Callers, Step(t) \/ Call(t), u # t
        PROVE  pc'[u] = pc[u] /\ held'[u] = held[u]
    BY <2>2, OthersStay
  <2>3. CASE Call(u)
    <3>1. pc'[u] \in {"check", "idle"}
      BY <2>3 DEF Call, CallGetContext, CallGetDefaultContext, CallerAddsPath,
         CallerLoads, Finish, Goto
    <3>. QED
      BY <3>1
  <2>4. CASE CheckInstance(u)
    <3>1. pc'[u] = "copy"
      BY <2>4 DEF CheckInstance, Goto
    <3>. QED
      BY <3>1
  <2>5. CASE CopyInstance(u)
    <3>1. pc'[u] \in {"started", "idle"} /\ held'[u] = instance
      BY <2>5 DEF CopyInstance, Finish, Goto
    <3>. QED
      BY <3>1
  <2>6. CASE Construct(u) \/ ConstructFails(u) \/ AssignInstance(u)
    BY <2>6 DEF Construct, ConstructFails, AssignInstance, At
  <2>7. CASE AlreadyInitialized(u) \/ LoadFails(u) \/ ProbeThrows(u)
             \/ SetInitialized(u)
    <3>1. pc'[u] = "idle"
      BY <2>7 DEF AlreadyInitialized, LoadFails, ProbeThrows, SetInitialized,
         Finish, Goto
    <3>. QED
      BY <3>1
  <2>8. CASE StartInitialization(u) \/ ProbePath(u) \/ AddDefaultPath(u)
             \/ PathsDone(u) \/ LoadDefaultModule(u)
    <3>1. pc[u] \in {"started"} \union Initializing /\ held'[u] = held[u]
      BY <2>8 DEF StartInitialization, ProbePath, AddDefaultPath, PathsDone,
         LoadDefaultModule, At
    <3>2. pc'[u] \in {"idle"} \union Initializing
      BY <2>8, <3>1 DEF StartInitialization, ProbePath, AddDefaultPath, PathsDone,
         LoadDefaultModule, Finish, Goto, At
    <3>. QED
      BY <3>1, <3>2
  <2>. QED
    BY <2>1, <2>2, <2>3, <2>4, <2>5, <2>6, <2>7, <2>8 DEF Next, Step
<1>3. ReadyIsLoaded'
  <2>. SUFFICES ASSUME initialized' PROVE FullyLoaded(ctxs[instance])'
    BY <1>1 DEF ReadyIsLoaded
  <2>1. FullyLoaded(ctxs[instance])
    <3>1. CASE initialized
      BY <3>1 DEF ReadyIsLoaded
    <3>2. CASE ~initialized
      <4>1. PICK t \in Callers : SetInitialized(t)
        BY <3>2 DEF Next, Step, Call, CallGetContext, CallGetDefaultContext,
           CheckInstance, Construct, ConstructFails, AssignInstance,
           CopyInstance, AlreadyInitialized, StartInitialization, ProbePath,
           ProbeThrows, AddDefaultPath, PathsDone, LoadDefaultModule, LoadFails,
           CallerAddsPath, CallerLoads, DirectoryChanges, statics, vars
      <4>2. held[t] = instance
        BY <4>1 DEF SetInitialized, At, Initializing
      <4>. QED
        BY <4>1, <4>2, LoopLoadsAll
    <3>. QED
      BY <3>1, <3>2
  <2>2. Keeps(instance)
    BY ContextsGrow DEF IInv, TypeOK
  <2>. QED
    BY <1>1, <2>1, <2>2 DEF FullyLoaded, HasModule, Keeps
<1>. QED
  BY <1>1, <1>2, <1>3

-----------------------------------------------------------------------------
(* Part 2: one caller, as in the repository's tests *)

\* The caller's last getDefaultContext returned.
Answered(t) ==
  fn[t] = "getDefaultContext" /\ pc[t] = "idle" /\ outcome[t] = "returned"

\* What ties the two statics, the constructed contexts and the caller's
\* shared_ptr together when nobody else runs in between.
SoloInv ==
  /\ Len(ctxs) <= 1
  /\ ReadyIsLoaded
  /\ \A t \in Callers :
       /\ pc[t] = "assign" \/ held[t] = instance
       /\ pc[t] \in {"construct", "assign"} => instance = 0
       /\ instance = 0 /\ pc[t] # "assign" => Len(ctxs) = 0
       /\ pc[t] = "assign" => ctxs[held[t]].ctx_.modules = <<>>
       /\ initialized => pc[t] \notin Initializing
       /\ Answered(t) => initialized

\* Every step of a solo caller keeps SoloInv.
LEMMA SoloStep ==
  ASSUME OneCaller, IInv, SoloInv, [Next]_vars
  PROVE  SoloInv'
<1>. USE DEF SoloInv
<1>. Len(ctxs) \in Nat /\ instance \in 0..Len(ctxs)
  BY DEF IInv, TypeOK
<1>1. CASE UNCHANGED vars \/ DirectoryChanges
  BY <1>1 DEF vars, statics, locals, DirectoryChanges, ReadyIsLoaded,
     FullyLoaded, Answered
<1>2. ASSUME NEW t \in Callers, Step(t) \/ Call(t)
      PROVE  SoloInv'
  <2>. \A u \in Callers : u = t
    BY DEF OneCaller
  <2>. DEFINE P == /\ pc[t] = "assign" \/ held[t] = instance
                   /\ pc[t] \in {"construct", "assign"} => instance = 0
                   /\ instance = 0 /\ pc[t] # "assign" => Len(ctxs) = 0
                   /\ pc[t] = "assign" => ctxs[held[t]].ctx_.modules = <<>>
                   /\ initialized => pc[t] \notin Initializing
                   /\ Answered(t) => initialized
  <2>1. WarmedUp \/ ~initialized
    BY DEF WarmedUp, ReadyIsLoaded, Initializing
  <2>2. initialized' => ReadyIsLoaded'
    <3>1. CASE initialized
      BY <2>1, <3>1, WarmUpStep
    <3>2. CASE SetInitialized(t)
      <4>1. WarmedUp
        BY <3>2, LoopLoadsAll DEF WarmedUp, SetInitialized, At
      <4>. QED
        BY <4>1, WarmUpStep
    <3>3. CASE ~SetInitialized(t)
      <4>1. UNCHANGED initialized
        BY <1>2, <3>3 DEF Step, Call, CallGetContext, CallGetDefaultContext,
           CheckInstance, Construct, ConstructFails, AssignInstance,
           CopyInstance, AlreadyInitialized, StartInitialization, ProbePath,
           ProbeThrows, AddDefaultPath, PathsDone, LoadDefaultModule, LoadFails,
           CallerAddsPath, CallerLoads, statics
      <4>. QED
        BY <3>1, <4>1
    <3>. QED
      BY <3>1, <3>2, <3>3
  <2>3. Len(ctxs') <= 1 /\ P'
    <3>. USE DEF IInv, TypeOK, At, Answered, Initializing
    <3>1. CASE Construct(t)
      <4>1. NewContext(opts[t]) \in Context
        BY NewContextType
      <4>2. Len(ctxs') = Len(ctxs) + 1
        BY <3>1, <4>1 DEF Construct
      <4>3. pc[t] = "construct" /\ instance = 0 /\ Len(ctxs) = 0 /\ ~initialized
        BY <3>1 DEF Construct, ReadyIsLoaded
      <4>4. pc'[t] = "assign" /\ instance' = 0 /\ ~initialized'
        BY <3>1, <4>3 DEF Construct, Goto, statics
      <4>5. ctxs'[held'[t]] = NewContext(opts[t])
        BY <3>1, <4>1, <4>2 DEF Construct
      <4>6. ctxs'[held'[t]].ctx_.modules = <<>>
        BY <4>5 DEF NewContext, ly_ctx_new
      <4>. QED
        BY <4>2, <4>3, <4>4, <4>6
    <3>2. CASE AssignInstance(t)
      <4>1. /\ instance' = held[t] /\ held[t] # 0 /\ pc'[t] = "copy"
            /\ held'[t] = held[t] /\ ctxs' = ctxs
        BY <3>2 DEF AssignInstance, Goto, locals, CallerInv
      <4>. QED
        BY <4>1
    <3>3. CASE CopyInstance(t)
      <4>1. /\ instance' = instance /\ instance # 0 /\ ctxs' = ctxs
            /\ held'[t] = instance /\ UNCHANGED <<initialized, fn>>
        BY <3>3 DEF CopyInstance, statics, CallerInv
      <4>2. \/ pc'[t] = "started"
            \/ pc'[t] = "idle" /\ fn[t] # "getDefaultContext"
        BY <3>3 DEF CopyInstance, Finish, Goto
      <4>. QED
        BY <4>1, <4>2
    <3>4. CASE CheckInstance(t)
      <4>1. /\ pc[t] = "check" /\ UNCHANGED <<instance, initialized, ctxs, held>>
            /\ pc'[t] = IF instance = 0 THEN "construct" ELSE "copy"
        BY <3>4 DEF CheckInstance, Goto, statics, locals
      <4>. QED
        BY <4>1
    <3>5. CASE ConstructFails(t)
      <4>1. /\ pc[t] = "construct" /\ UNCHANGED <<instance, initialized, ctxs, held, fn>>
            /\ pc'[t] = "idle" /\ outcome'[t] = "YangError"
        BY <3>5 DEF ConstructFails, Finish, Goto, statics, locals
      <4>. QED
        BY <4>1
    <3>6. CASE AlreadyInitialized(t)
      <4>1. /\ pc[t] = "started" /\ initialized
            /\ UNCHANGED <<instance, initialized, ctxs, held, fn>>
            /\ pc'[t] = "idle"
        BY <3>6 DEF AlreadyInitialized, Finish, Goto, statics, locals
      <4>. QED
        BY <4>1
    <3>7. CASE StartInitialization(t)
      <4>1. /\ pc[t] = "started" /\ ~initialized
            /\ UNCHANGED <<instance, initialized, ctxs, held, fn>>
            /\ pc'[t] = "probe"
        BY <3>7 DEF StartInitialization, Goto, statics
      <4>. QED
        BY <4>1
    <3>8. CASE ProbePath(t)
      <4>1. /\ pc[t] = "probe" /\ UNCHANGED <<instance, initialized, ctxs, held, fn>>
            /\ pc'[t] \in {"probe", "add"}
        BY <3>8 DEF ProbePath, Goto, statics
      <4>. QED
        BY <4>1
    <3>9. CASE PathsDone(t)
      <4>1. /\ pc[t] = "probe" /\ UNCHANGED <<instance, initialized, ctxs, held, fn>>
            /\ pc'[t] = "load" \/ (pc'[t] = "idle" /\ outcome'[t] = "YangDataError")
        BY <3>9 DEF PathsDone, Finish, Goto, statics
      <4>. QED
        BY <4>1
    <3>10. CASE LoadFails(t)
      <4>1. /\ pc[t] = "load" /\ UNCHANGED <<instance, initialized, ctxs, held, fn>>
            /\ pc'[t] = "idle" /\ outcome'[t] = "YangDataError"
        BY <3>10 DEF LoadFails, Finish, Goto, statics, locals
      <4>. QED
        BY <4>1
    <3>11. CASE SetInitialized(t)
      <4>1. /\ pc[t] = "load" /\ UNCHANGED <<instance, ctxs, held>>
            /\ pc'[t] = "idle" /\ initialized' /\ held[t] # 0
        BY <3>11, LoopLoadsAll DEF SetInitialized, Finish, Goto, locals
      <4>. QED
        BY <4>1
    <3>12. CASE AddDefaultPath(t) \/ LoadDefaultModule(t)
      <4>1. /\ pc[t] \in {"add", "load"}
            /\ UNCHANGED <<instance, initialized, held, fn>>
            /\ pc'[t] \in {"probe", "load"} /\ Len(ctxs') = Len(ctxs)
        BY <3>12 DEF AddDefaultPath, LoadDefaultModule, Goto, statics
      <4>. QED
        BY <4>1 DEF CallerInv
    <3>13. CASE Call(t)
      <4>1. /\ pc[t] = "idle" /\ UNCHANGED <<instance, initialized, held>>
            /\ Len(ctxs') = Len(ctxs)
            /\ \/ pc'[t] = "check"
               \/ pc'[t] = "idle" /\ fn'[t] # "getDefaultContext"
        BY <3>13 DEF Call, CallGetContext, CallGetDefaultContext, CallerAddsPath,
           CallerLoads, Finish, Goto, statics
      <4>. QED
        BY <4>1
    <3>14. CASE ProbeThrows(t)
      <4>1. /\ pc[t] = "probe" /\ UNCHANGED <<instance, initialized, ctxs, held, fn>>
            /\ pc'[t] = "idle" /\ outcome'[t] = "filesystem_error"
        BY <3>14 DEF ProbeThrows, Finish, Goto, statics, locals
      <4>. QED
        BY <4>1
    <3>. QED
      BY <1>2, <3>1, <3>2, <3>3, <3>4, <3>5, <3>6, <3>7, <3>8, <3>9, <3>10,
         <3>11, <3>12, <3>13, <3>14 DEF Step
  <2>. QED
    BY <2>2, <2>3 DEF ReadyIsLoaded
<1>. QED
  BY <1>1, <1>2 DEF Next

\* What a solo caller can rely on, as one invariant.
LEMMA SoloInvariant ==
  ASSUME OneCaller
  PROVE  Spec => [](IInv /\ SoloInv)
<1>1. Init => SoloInv
  BY DEF Init, SoloInv, ReadyIsLoaded, Answered
<1>2. IInv /\ SoloInv /\ [Next]_vars => SoloInv'
  BY SoloStep
<1>. QED
  BY <1>1, <1>2, InductiveInvariant, PTL DEF Spec

\* initialized means loaded, after any sequence of failures and retries
\* (Yang.cpp:55-64).
THEOREM ReadyLoaded ==
  ASSUME OneCaller
  PROVE  Spec => []ReadyIsLoaded
<1>1. SoloInv => ReadyIsLoaded
  BY DEF SoloInv
<1>. QED
  BY <1>1, SoloInvariant, PTL

\* What getDefaultContext returns is the shared context, fully loaded, on the
\* early return too (Yang.cpp:33, 65).
THEOREM ReturnedLoaded ==
  ASSUME OneCaller
  PROVE  Spec => []ReturnedIsLoaded
<1>1. SoloInv => ReturnedIsLoaded
  BY DEF SoloInv, ReadyIsLoaded, ReturnedIsLoaded, Answered, At
<1>. QED
  BY <1>1, SoloInvariant, PTL

\* The initialization never runs again after it succeeded (Yang.cpp:33).
THEOREM InitializedOnce ==
  ASSUME OneCaller
  PROVE  Spec => []InitializesOnce
<1>1. SoloInv => InitializesOnce
  BY DEF SoloInv, InitializesOnce
<1>. QED
  BY <1>1, SoloInvariant, PTL

\* One YangContext is constructed at most (Yang.cpp:20-24).
THEOREM SingleContext ==
  ASSUME OneCaller
  PROVE  Spec => []OneContext
<1>1. SoloInv => OneContext
  BY DEF SoloInv, OneContext
<1>. QED
  BY <1>1, SoloInvariant, PTL

\* Every step of Yang is a step of DefaultContext or leaves its variables.
LEMMA PromiseStep ==
  ASSUME OneCaller, IInv, SoloInv, [Next]_vars
  PROVE  [Promise!Next]_(Promise!vars)
<1>. DEFINE Shared == IF instance = 0 THEN {} ELSE Range(ctxs[instance].ctx_.modules)
            Told   == [u \in Callers |-> DefaultAnswer(u)]
<1>. USE DEF Promise!vars, Promise!Answer
<1>1. CASE UNCHANGED vars \/ DirectoryChanges
  BY <1>1 DEF vars, statics, locals, DirectoryChanges, DefaultAnswer, At
<1>2. ASSUME NEW t \in Callers, Step(t) \/ Call(t)
      PROVE  [Promise!Next]_(Promise!vars)
  <2>0. \A u \in Callers : u = t
    BY DEF OneCaller
  <2>1. ASSUME NEW a, DefaultAnswer(t)' = a
        PROVE  Told' = [Told EXCEPT ![t] = a]
    BY <2>0, <2>1
  <2>2. ASSUME DefaultAnswer(t)' = DefaultAnswer(t) PROVE Told' = Told
    BY <2>0, <2>2
  <2>3. Told[t] = DefaultAnswer(t)
    OBVIOUS
  <2>4. pc[t] # "idle" /\ fn[t] = "getDefaultContext" => Told[t] = "pending"
    BY <2>3 DEF DefaultAnswer, At
  <2>5. pc[t] = "idle" => Told[t] # "pending"
    BY <2>3 DEF DefaultAnswer, At
  <2>6. initialized => Range(kDefaultModules) \subseteq Shared
    BY DEF SoloInv, ReadyIsLoaded, FullyLoaded, HasModule, Range
  <2>7. \A c \in DOMAIN ctxs : ctxs[c] \in Context
    BY DEF IInv, TypeOK
  <2>. USE DEF IInv, TypeOK, At
  <2>. HIDE DEF Told, Shared
  <2>8. CASE \/ \E o \in CallerOptions : CallGetContext(t, o)
             \/ \E p \in CallerPaths : CallerAddsPath(t, p)
             \/ \E m \in CallerModules : CallerLoads(t, m)
    <3>1. /\ pc[t] = "idle" /\ UNCHANGED <<instance, initialized>>
          /\ fn'[t] \in {"getContext", "addSearchPath", "loadModuleInContext"}
      BY <2>8 DEF CallGetContext, CallerAddsPath, CallerLoads, statics
    <3>2. DefaultAnswer(t)' = "none"
      BY <3>1 DEF DefaultAnswer
    <3>3. Shared' = Shared \/ \E m \in Modules : Shared' = Shared \union {m}
      <4>1. CASE UNCHANGED ctxs
        BY <3>1, <4>1 DEF Shared
      <4>2. ASSUME NEW p \in CallerPaths, CallerAddsPath(t, p) PROVE Shared' = Shared
        <5>1. held[t] = instance /\ held[t] \in DOMAIN ctxs /\ p \in Paths
          BY <4>2, YangAssumption DEF CallerAddsPath, SoloInv
        <5>2. ctxs'[instance] = AddSearchPath(ctxs[instance], p, present)
          BY <4>2, <5>1 DEF CallerAddsPath
        <5>3. AddSearchPath(ctxs[instance], p, present).ctx_.modules
                = ctxs[instance].ctx_.modules
          BY <2>7, <5>1, AddSearchPathFacts
        <5>. QED
          BY <3>1, <5>2, <5>3 DEF Shared
      <4>3. ASSUME NEW m \in CallerModules, CallerLoads(t, m), ~UNCHANGED ctxs
            PROVE  m \in Modules /\ Shared' = Shared \union {m}
        <5>1. held[t] = instance /\ held[t] \in DOMAIN ctxs /\ m \in Modules
          BY <4>3, YangAssumption DEF CallerLoads, SoloInv
        <5>2. ctxs'[instance] = LoadModuleInContext(ctxs[instance], m)
          BY <4>3, <5>1 DEF CallerLoads
        <5>3. Range(LoadModuleInContext(ctxs[instance], m).ctx_.modules)
                = Range(ctxs[instance].ctx_.modules) \union {m}
          BY <2>7, <5>1, LoadModuleFacts
        <5>4. instance # 0
          BY <5>1
        <5>. QED
          BY <3>1, <5>1, <5>2, <5>3, <5>4 DEF Shared
      <4>. QED
        BY <2>8, <4>1, <4>2, <4>3 DEF CallGetContext
    <3>. QED
      BY <2>1, <2>5, <3>1, <3>2, <3>3 DEF Promise!Next, Promise!Move, Shared, Told
  <2>9. CASE CallGetDefaultContext(t)
    <3>1. /\ pc[t] = "idle" /\ UNCHANGED <<instance, initialized, ctxs>>
          /\ fn'[t] = "getDefaultContext" /\ pc'[t] = "check"
      BY <2>9 DEF CallGetDefaultContext, Goto, statics
    <3>2. DefaultAnswer(t)' = "pending"
      BY <3>1 DEF DefaultAnswer
    <3>. QED
      BY <2>1, <2>5, <3>1, <3>2 DEF Promise!Next, Promise!Ask, Shared, Told
  <2>10. CASE CheckInstance(t) \/ StartInitialization(t) \/ ProbePath(t)
    <3>1. /\ pc[t] # "idle" /\ pc'[t] # "idle"
          /\ UNCHANGED <<instance, initialized, ctxs, fn>>
      BY <2>10 DEF CheckInstance, StartInitialization, ProbePath, Goto, statics, locals
    <3>2. DefaultAnswer(t)' = DefaultAnswer(t)
      BY <3>1 DEF DefaultAnswer
    <3>. QED
      BY <2>2, <3>1, <3>2 DEF Shared, Told
  <2>11. CASE Construct(t) \/ AssignInstance(t)
    <3>1. /\ pc[t] # "idle" /\ pc'[t] # "idle" /\ UNCHANGED <<initialized, fn>>
      BY <2>11 DEF Construct, AssignInstance, Goto, statics, locals
    <3>2. DefaultAnswer(t)' = DefaultAnswer(t)
      BY <3>1 DEF DefaultAnswer
    <3>3. Shared' = Shared
      <4>1. instance = 0
        BY <2>11 DEF SoloInv, Construct, AssignInstance
      <4>2. CASE Construct(t)
        BY <4>1, <4>2 DEF Construct, statics, Shared
      <4>3. CASE AssignInstance(t)
        <5>1. ctxs'[instance'].ctx_.modules = <<>>
          BY <4>3 DEF AssignInstance, SoloInv
        <5>. QED
          BY <4>1, <5>1 DEF Shared, Range
      <4>. QED
        BY <2>11, <4>2, <4>3
    <3>. QED
      BY <2>2, <3>1, <3>2, <3>3 DEF Shared, Told
  <2>12. CASE CopyInstance(t)
    <3>1. pc[t] = "copy" /\ UNCHANGED <<instance, initialized, ctxs, fn>>
      BY <2>12 DEF CopyInstance, statics
    <3>2. fn[t] # "getDefaultContext" \/ pc'[t] = "started"
      BY <2>12 DEF CopyInstance, Goto
    <3>3. DefaultAnswer(t)' = DefaultAnswer(t)
      BY <3>1, <3>2 DEF DefaultAnswer
    <3>. QED
      BY <2>2, <3>1, <3>3 DEF Shared, Told
  <2>13. CASE AlreadyInitialized(t) \/ SetInitialized(t)
    <3>1. /\ pc[t] \in {"started", "load"} /\ fn[t] = "getDefaultContext"
          /\ UNCHANGED <<instance, ctxs, fn>> /\ initialized'
          /\ pc'[t] = "idle" /\ outcome'[t] = "returned"
      BY <2>13 DEF AlreadyInitialized, SetInitialized, Finish, Goto, statics,
         locals, CallerInv, Initializing
    <3>2. DefaultAnswer(t)' = "context"
      BY <3>1 DEF DefaultAnswer
    <3>3. Range(kDefaultModules) \subseteq Shared
      <4>1. CASE AlreadyInitialized(t)
        BY <2>6, <4>1 DEF AlreadyInitialized
      <4>2. CASE SetInitialized(t)
        <5>1. held[t] = instance /\ held[t] # 0 /\ FullyLoaded(ctxs[held[t]])
          BY <4>2, LoopLoadsAll DEF SoloInv, SetInitialized
        <5>. QED
          BY <5>1 DEF FullyLoaded, HasModule, Range, Shared
      <4>. QED
        BY <2>13, <4>1, <4>2
    <3>. QED
      BY <2>1, <2>4, <3>1, <3>2, <3>3 DEF Promise!Next, Promise!Succeed, Shared, Told
  <2>14. CASE ConstructFails(t) \/ LoadFails(t) \/ ProbeThrows(t)
              \/ (PathsDone(t) /\ pc'[t] = "idle")
    <3>1. /\ pc[t] # "idle" /\ UNCHANGED <<instance, initialized, ctxs, fn>>
          /\ pc'[t] = "idle"
          /\ outcome'[t] \in {"YangError", "YangDataError", "filesystem_error"}
      BY <2>14 DEF ConstructFails, LoadFails, ProbeThrows, PathsDone, Finish, Goto,
         statics, locals
    <3>2. ~initialized
      BY <2>14 DEF ConstructFails, LoadFails, ProbeThrows, PathsDone, SoloInv, ReadyIsLoaded,
         Initializing
    <3>3. CASE fn[t] = "getDefaultContext"
      <4>1. DefaultAnswer(t)' = "error"
        BY <3>1, <3>3 DEF DefaultAnswer
      <4>. QED
        BY <2>1, <2>4, <3>1, <3>2, <3>3, <4>1
        DEF Promise!Next, Promise!Refuse, Shared, Told
    <3>4. CASE fn[t] # "getDefaultContext"
      <4>1. DefaultAnswer(t)' = DefaultAnswer(t)
        BY <3>1, <3>4 DEF DefaultAnswer
      <4>. QED
        BY <2>2, <3>1, <4>1 DEF Shared, Told
    <3>. QED
      BY <3>3, <3>4
  <2>15. CASE PathsDone(t) /\ pc'[t] # "idle"
    <3>1. pc[t] # "idle" /\ UNCHANGED <<instance, initialized, ctxs, fn>>
      BY <2>15 DEF PathsDone, statics
    <3>2. DefaultAnswer(t)' = DefaultAnswer(t)
      BY <2>15, <3>1 DEF DefaultAnswer
    <3>. QED
      BY <2>2, <3>1, <3>2 DEF Shared, Told
  <2>16. CASE AddDefaultPath(t)
    <3>1. /\ pc[t] = "add" /\ pc'[t] = "probe"
          /\ UNCHANGED <<instance, initialized, fn>>
      BY <2>16 DEF AddDefaultPath, Goto, statics
    <3>2. DefaultAnswer(t)' = DefaultAnswer(t)
      BY <3>1 DEF DefaultAnswer
    <3>3. /\ held[t] = instance /\ held[t] \in DOMAIN ctxs
          /\ kDefaultSearchPaths[idx[t]] \in Paths
      BY <3>1, YangAssumption DEF SoloInv, CallerInv, Initializing
    <3>4. ctxs'[instance] =
            AddSearchPath(ctxs[instance], kDefaultSearchPaths[idx[t]], present)
      BY <2>16, <3>3 DEF AddDefaultPath
    <3>5. ctxs'[instance].ctx_.modules = ctxs[instance].ctx_.modules
      BY <2>7, <3>3, <3>4, AddSearchPathFacts
    <3>. QED
      BY <2>2, <3>1, <3>2, <3>5 DEF Shared, Told
  <2>17. CASE LoadDefaultModule(t)
    <3>1. pc[t] = "load" /\ UNCHANGED <<pc, instance, initialized, fn>>
      BY <2>17 DEF LoadDefaultModule, statics
    <3>2. DefaultAnswer(t)' = DefaultAnswer(t)
      BY <3>1 DEF DefaultAnswer
    <3>3. /\ held[t] = instance /\ held[t] # 0 /\ held[t] \in DOMAIN ctxs
          /\ kDefaultModules[idx[t]] \in Modules
      BY <2>17, <3>1, YangAssumption DEF LoadDefaultModule, SoloInv, CallerInv, Initializing
    <3>4. ctxs'[instance] = LoadModuleInContext(ctxs[instance], kDefaultModules[idx[t]])
      BY <2>17, <3>3 DEF LoadDefaultModule
    <3>5. Shared' = Shared \union {kDefaultModules[idx[t]]}
      <4>1. Range(LoadModuleInContext(ctxs[instance], kDefaultModules[idx[t]]).ctx_.modules)
              = Range(ctxs[instance].ctx_.modules) \union {kDefaultModules[idx[t]]}
        BY <2>7, <3>3, LoadModuleFacts
      <4>. QED
        BY <3>1, <3>3, <3>4, <4>1 DEF Shared
    <3>. QED
      BY <2>2, <3>1, <3>2, <3>3, <3>5 DEF Promise!Next, Promise!Grow, Shared, Told
  <2>. QED
    BY <1>2, <2>8, <2>9, <2>10, <2>11, <2>12, <2>13, <2>14, <2>15, <2>16, <2>17
    DEF Step, Call
<1>. QED
  BY <1>1, <1>2 DEF Next

\* getDefaultContext keeps the promise of Yang.hpp:21-24 to a single caller:
\* it throws only before its first success and always answers with the shared,
\* fully loaded context.
THEOREM PromiseKept ==
  ASSUME OneCaller
  PROVE  Spec => KeepsPromise
<1>1. Init => Promise!Init
  BY DEF Init, Promise!Init, DefaultAnswer
<1>2. IInv /\ SoloInv /\ [Next]_vars => [Promise!Next]_(Promise!vars)
  BY PromiseStep
<1>. QED
  BY <1>1, <1>2, SoloInvariant, PTL DEF Spec, KeepsPromise, Promise!Spec
=============================================================================
