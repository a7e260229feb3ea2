------------------------- MODULE YangContextObject -------------------------
(***************************************************************************)
(* The value of a yang::YangContext object and what its member functions   *)
(* do to it.  The libyang context it owns (struct ly_ctx, external code)   *)
(* is the record [flags, dirs, modules]: the options it was made with, the *)
(* directories ly_ctx_set_searchdir has accepted and the modules in the    *)
(* order ly_ctx_get_module_iter returns them.  This module has no          *)
(* variables: Yang and YangContext use it.                                 *)
(***************************************************************************)
EXTENDS Sequences, FiniteSets, Functions

CONSTANTS
  Paths,      \* directories of the file system
  Modules,    \* one element for each name and revision of a YANG module
  Names,      \* YANG module names
  NameOf,     \* NameOf[m]: the name of module m
  Holds,      \* Holds[p]: the modules whose files are in directory p
  Cwd,        \* the current working directory
  Options,    \* the members of YangContextOptions, with these two:
  DisableSearchdirs,
  DisableSearchdirCwd,
  NULL        \* a null pointer

ASSUME NamesAssumption == NameOf \in [Modules -> Names]
ASSUME HoldsAssumption == Holds \in [Paths -> SUBSET Modules]
ASSUME CwdAssumption == Cwd \in Paths
ASSUME OptionsAssumption == {DisableSearchdirs, DisableSearchdirCwd} \subseteq Options

-----------------------------------------------------------------------------
(* libyang *)

LyContext ==
  [flags : SUBSET Options, dirs : SUBSET Paths, modules : Seq(Modules)]

ly_ctx_new(flags) == [flags |-> flags, dirs |-> {}, modules |-> <<>>]

\* Refuses a directory that is not there; a second call for one it has
\* answers LY_EEXIST.  Either way the context is unchanged.
ly_ctx_set_searchdir(ly, p, present) ==
  IF p \in present THEN [ly EXCEPT !.dirs = @ \union {p}] ELSE ly

\* Where libyang looks for the file of a module: unless an option forbids it,
\* in the search directories and, though nobody added it, in the current
\* working directory (the options at YangContext.hpp:31-38).
Searched(ly) ==
  IF DisableSearchdirs \in ly.flags THEN {}
  ELSE ly.dirs \union (IF DisableSearchdirCwd \in ly.flags THEN {} ELSE {Cwd})

\* ly_ctx_load_module succeeds: no other revision of the module is in the
\* context, and the module is there or its file is where libyang looks.
Loadable(ly, m, present) ==
  /\ \A k \in Range(ly.modules) : NameOf[k] = NameOf[m] => k = m
  /\ \/ m \in Range(ly.modules)
     \/ \E p \in Searched(ly) \intersect present : m \in Holds[p]

ly_ctx_load_module(ly, m) ==
  IF m \in Range(ly.modules) THEN ly ELSE [ly EXCEPT !.modules = Append(@, m)]

-----------------------------------------------------------------------------
(* yang::YangContext *)

\* options_ is never read; libyang keeps the options as its flags.
Context == [ctx_ : LyContext, search_paths_ : Seq(Paths)]

\* YangContext(unsigned options), when ly_ctx_new succeeds.
NewContext(options) == [ctx_ |-> ly_ctx_new(options), search_paths_ |-> <<>>]

\* addSearchPath pushes the path whatever ly_ctx_set_searchdir answered.
AddSearchPath(c, p, present) ==
  IF c.ctx_ = NULL THEN c
  ELSE [c EXCEPT !.ctx_ = ly_ctx_set_searchdir(@, p, present),
                 !.search_paths_ = Append(@, p)]

\* loadModuleInContext when the module is Loadable; it throws otherwise.
LoadModuleInContext(c, m) == [c EXCEPT !.ctx_ = ly_ctx_load_module(@, m)]

HasModule(c, m) == m \in Range(c.ctx_.modules)

=============================================================================
