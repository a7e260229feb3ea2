----------------------------- MODULE YangContext -----------------------------
(***************************************************************************)
(* The life of yang::YangContext objects: who owns a libyang context, what *)
(* it loads and what GetLoadedModuleByName finds in it.  libyang contexts  *)
(* are numbered in the order they are made; 0 is the null pointer.  Unlike *)
(* in Yang, a module can be in a context because another one imports it,   *)
(* and then next to a second revision.  The program is a single thread.    *)
(***************************************************************************)
EXTENDS YangContextObject, Naturals, SequencesExt

CONSTANTS
  Internal,    \* the modules of a new context, all import-only
  Imports,     \* Imports[m]: the modules that loading m brings in
  OptionLists, \* the option lists the program constructs contexts with
  Objects,     \* places for YangContext objects
  Handles,     \* places for the YangSchemaModule values of lookups
  None,        \* an empty place
  MaxContexts, \* bound on contexts made
  MaxPaths     \* bound on search_paths_

Object == [ctx_ : 0..MaxContexts, search_paths_ : Seq(Paths)]

ASSUME ContextAssumption ==
  /\ Internal \in Seq(Modules) /\ IsInjective(Internal)
  /\ Imports \in [Modules -> SUBSET Modules]
  /\ \A m \in Modules : IsFiniteSet(Imports[m])
  /\ OptionLists \subseteq SUBSET Options
  /\ MaxContexts \in Nat
  /\ MaxPaths \in Nat
  /\ None \notin Object
  /\ NULL \notin Modules

VARIABLES
  ly,       \* ly[i]: the libyang context i
  destroyed,\* the contexts given to ly_ctx_destroy
  raw,      \* the contexts the program made itself and has not wrapped
  objects,  \* objects[o]: the YangContext object in place o, or None
  returned, \* <<i, m>>: loadModuleInContext has returned module m of context i
  handles,  \* handles[h]: a lookup and its answer, or None
  threw     \* the last call threw

vars == <<ly, destroyed, raw, objects, returned, handles, threw>>

-----------------------------------------------------------------------------
(* libyang *)

NewLy(flags) ==
  [flags |-> flags, dirs |-> {}, modules |-> Internal, implemented |-> {}]

\* ly_ctx_load_module succeeds: no other revision is implemented, and the module
\* and its imports are there or have a file where libyang looks.
CanLoad(c, m) ==
  /\ \A k \in c.implemented : NameOf[k] = NameOf[m] => k = m
  /\ \A k \in {m} \union Imports[m] :
       k \in Range(c.modules) \/ \E p \in Searched(c) : k \in Holds[p]

\* What a load of m has to put into the context.
Missing(c, m) == ({m} \union Imports[m]) \ Range(c.modules)

\* The orders in which libyang may do that.
LoadOrders(c, m) == Bijection(1..Cardinality(Missing(c, m)), Missing(c, m))

\* What was not there is appended; only m becomes implemented.  A load that
\* fails takes back what it has appended.
Load(c, m, new) ==
  [c EXCEPT !.modules = @ \o new, !.implemented = @ \union {m}]

Alive == DOMAIN ly \ destroyed

-----------------------------------------------------------------------------
(* GetLoadedModuleByName *)

\* Where the iteration over libyang's modules meets the name.
Hits(c, name) == {k \in DOMAIN c.modules : NameOf[c.modules[k]] = name}

\* Mutant: the loop goes on after a match.
LastOfName(c, name) ==
  IF Hits(c, name) = {} THEN NULL ELSE c.modules[Max(Hits(c, name))]

\* Mutant: the loop returns after its first round.
FirstModuleOnly(c, name) == IF 1 \in Hits(c, name) THEN c.modules[1] ELSE NULL

\* The first module of that name in libyang's order, whichever its revision and
\* whether or not it is implemented.
FirstOfName(c, name) ==
  IF Hits(c, name) = {} THEN NULL ELSE c.modules[Min(Hits(c, name))]

-----------------------------------------------------------------------------
\* A YangSchemaModule, with the context and the name that were asked.
SchemaModule == [of : 0..MaxContexts, name : Names, mod_ : Modules \union {NULL}]

\* libyang has a module once in a context.
IsLy(c) ==
  /\ c \in [flags : SUBSET Options, dirs : SUBSET Paths, modules : Seq(Modules),
           implemented : SUBSET Modules]
  /\ IsInjective(c.modules)
  /\ c.implemented \subseteq Range(c.modules)

TypeOK ==
  /\ Len(ly) <= MaxContexts
  /\ \A i \in DOMAIN ly : IsLy(ly[i])
  /\ destroyed \subseteq DOMAIN ly
  /\ raw \subseteq Alive
  /\ \A o \in Objects :
       objects[o] # None => objects[o] \in Object /\ objects[o].ctx_ \in {0} \union Alive
  /\ returned \subseteq (1..MaxContexts) \X Modules
  /\ \A h \in Handles : handles[h] # None => handles[h] \in SchemaModule
  /\ threw \in BOOLEAN

Init ==
  /\ ly = <<>> /\ destroyed = {} /\ raw = {} /\ returned = {}
  /\ objects = [o \in Objects |-> None]
  /\ handles = [h \in Handles |-> None]
  /\ threw = FALSE

Place(o, i) == objects' = [objects EXCEPT ![o] = [ctx_ |-> i, search_paths_ |-> <<>>]]

\* YangContext(options)
Construct(o, options) ==
  /\ objects[o] = None /\ Len(ly) < MaxContexts
  /\ ly' = Append(ly, NewLy(options))
  /\ Place(o, Len(ly'))
  /\ threw' = FALSE
  /\ UNCHANGED <<destroyed, raw, returned, handles>>

\* Mutant: the error of ly_ctx_new is not noticed.
ConstructUnchecked(o) ==
  /\ objects[o] = None /\ Len(ly) < MaxContexts
  /\ Place(o, Len(ly) + 1)
  /\ threw' = FALSE
  /\ UNCHANGED <<ly, destroyed, raw, returned, handles>>

\* ly_ctx_new fails: YangError, and there is no object.
ConstructFails(o) ==
  /\ objects[o] = None /\ Len(ly) < MaxContexts
  /\ threw' = TRUE
  /\ UNCHANGED <<ly, destroyed, raw, objects, returned, handles>>

\* The program makes a context by itself.
MakeRaw ==
  /\ Len(ly) < MaxContexts
  /\ ly' = Append(ly, NewLy({}))
  /\ raw' = raw \union {Len(ly')}
  /\ UNCHANGED <<destroyed, objects, returned, handles, threw>>

\* YangContext(raw_ctx) takes a context nobody owns, or null.
Wrap(o, i) ==
  /\ objects[o] = None
  /\ i \in raw \union {0}
  /\ raw' = raw \ {i}
  /\ Place(o, i)
  /\ threw' = FALSE
  /\ UNCHANGED <<ly, destroyed, returned, handles>>

\* Mutant: the destructor leaves the libyang context to nobody.
DestructorForgets(o) ==
  /\ objects[o] # None
  /\ objects' = [objects EXCEPT ![o] = None]
  /\ UNCHANGED <<ly, destroyed, raw, returned, handles, threw>>

\* ~YangContext
Destruct(o) ==
  /\ objects[o] # None
  /\ destroyed' = destroyed \union ({objects[o].ctx_} \ {0})
  /\ objects' = [objects EXCEPT ![o] = None]
  /\ UNCHANGED <<ly, raw, returned, handles, threw>>

\* Nothing is done for an object without a context.
addSearchPath(o, p) ==
  /\ objects[o] # None /\ Len(objects[o].search_paths_) < MaxPaths
  /\ IF objects[o].ctx_ = 0 THEN UNCHANGED <<ly, objects>>
     ELSE /\ ly' = [ly EXCEPT ![objects[o].ctx_] = ly_ctx_set_searchdir(@, p, Paths)]
          /\ objects' = [objects EXCEPT ![o].search_paths_ = Append(@, p)]
  /\ threw' = FALSE
  /\ UNCHANGED <<destroyed, raw, returned, handles>>

loadModuleInContext(o, m) ==
  /\ objects[o] # None
  /\ LET i == objects[o].ctx_ IN
     /\ i # 0 /\ CanLoad(ly[i], m)
     /\ \E new \in LoadOrders(ly[i], m) : ly' = [ly EXCEPT ![i] = Load(@, m, new)]
     /\ returned' = returned \union {<<i, m>>}
  /\ threw' = FALSE
  /\ UNCHANGED <<destroyed, raw, objects, handles>>

\* libyang refuses the module, or a null context: YangDataError.
LoadFails(o, m) ==
  /\ objects[o] # None
  /\ objects[o].ctx_ # 0 => ~CanLoad(ly[objects[o].ctx_], m)
  /\ threw' = TRUE
  /\ UNCHANGED <<ly, destroyed, raw, objects, returned, handles>>

GetLoadedModuleByName(o, name, h) ==
  /\ objects[o] # None
  /\ LET i == objects[o].ctx_ IN
     handles' = [handles EXCEPT ![h] =
       [of |-> i, name |-> name,
        mod_ |-> IF i = 0 THEN NULL ELSE FirstOfName(ly[i], name)]]
  /\ threw' = FALSE
  /\ UNCHANGED <<ly, destroyed, raw, objects, returned>>

Next ==
  \/ \E o \in Objects :
       \/ \E options \in OptionLists : Construct(o, options)
       \/ ConstructFails(o) \/ Destruct(o)
       \/ \E i \in raw \union {0} : Wrap(o, i)
       \/ \E p \in Paths : addSearchPath(o, p)
       \/ \E m \in Modules : loadModuleInContext(o, m) \/ LoadFails(o, m)
       \/ \E n \in Names, h \in Handles : GetLoadedModuleByName(o, n, h)
  \/ MakeRaw

Spec == Init /\ [][Next]_vars

-----------------------------------------------------------------------------
(* Properties *)

Owners(i) == {o \in Objects : objects[o] # None /\ objects[o].ctx_ = i}

\* Every libyang context has one owner as long as it exists and none when it is
\* destroyed, whichever constructor took it: it is destroyed once, and never
\* behind an object that still uses it (YangContext.cpp:9-24, copies deleted at
\* YangContext.hpp:99-100).
OneOwner ==
  \A i \in DOMAIN ly :
    Cardinality(Owners(i)) + Cardinality(raw \intersect {i})
      = IF i \in destroyed THEN 0 ELSE 1

\* A YangSchemaModule that was found stays the answer to its name while its
\* context exists, whatever is loaded or refused later, also when another
\* revision of the module joins the context (YangContext.cpp:44-57).
LookupIsStable ==
  \A h \in Handles : LET x == handles[h] IN
    x # None /\ x.mod_ # NULL /\ x.of \in Alive =>
      FirstOfName(ly[x.of], x.name) = x.mod_

\* What loadModuleInContext has returned is found under its name, as the tests
\* expect, but for one case: a revision that was in the context before, which
\* is import-only (YangContext.cpp:33-57, TestYangContext.cpp:63-73).
LoadedIsFound ==
  \A i \in Alive, m \in Modules : <<i, m>> \in returned =>
    LET found == FirstOfName(ly[i], NameOf[m]) IN
    /\ found # NULL
    /\ found # m => found \notin ly[i].implemented

=============================================================================
