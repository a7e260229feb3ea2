---------------------- MODULE YangContextObjectProofs ----------------------
(***************************************************************************)
(* What the member functions of YangContext return and preserve, for every *)
(* set of paths and modules.  YangProofs builds on these lemmas.           *)
(***************************************************************************)
EXTENDS YangContextObject, TLAPS

\* Appending adds exactly one element to the range of a sequence.
LEMMA RangeAppend ==
  ASSUME NEW S, NEW s \in Seq(S), NEW x \in S
  PROVE  Range(Append(s, x)) = Range(s) \union {x}
<1>. DEFINE q == Append(s, x)
<1>1. /\ Len(q) = Len(s) + 1
      /\ DOMAIN q = 1..(Len(s) + 1)
      /\ DOMAIN s = 1..Len(s)
      /\ \A i \in 1..Len(s) : q[i] = s[i]
      /\ q[Len(s) + 1] = x
  OBVIOUS
<1>2. Len(s) \in Nat
  OBVIOUS
<1>3. ASSUME NEW y \in Range(q) PROVE y \in Range(s) \union {x}
  <2>1. PICK i \in 1..(Len(s) + 1) : y = q[i]
    BY <1>1 DEF Range
  <2>2. CASE i = Len(s) + 1
    BY <2>1, <2>2, <1>1
  <2>3. CASE i # Len(s) + 1
    <3>1. i \in 1..Len(s)
      BY <2>3, <1>2
    <3>. QED
      BY <3>1, <2>1, <1>1 DEF Range
  <2>. QED
    BY <2>2, <2>3
<1>4. ASSUME NEW y \in Range(s) \union {x} PROVE y \in Range(q)
  <2>1. CASE y = x
    BY <2>1, <1>1, <1>2 DEF Range
  <2>2. CASE y \in Range(s)
    <3>1. PICK i \in 1..Len(s) : y = s[i]
      BY <2>2, <1>1 DEF Range
    <3>2. i \in 1..(Len(s) + 1)
      BY <1>2
    <3>. QED
      BY <3>1, <3>2, <1>1 DEF Range
  <2>. QED
    BY <2>1, <2>2
<1>. QED
  BY <1>3, <1>4

\* The constructor makes a context without paths and modules.
LEMMA NewContextType ==
  ASSUME NEW o \in SUBSET Options
  PROVE  NewContext(o) \in Context
BY DEF NewContext, Context, LyContext, ly_ctx_new

\* addSearchPath returns a context, loads no module, and takes no directory
\* and no search path away.
LEMMA AddSearchPathFacts ==
  ASSUME NEW c \in Context, NEW p \in Paths, NEW present
  PROVE  LET d == AddSearchPath(c, p, present) IN
         /\ d \in Context
         /\ d.ctx_.modules = c.ctx_.modules
         /\ c.ctx_.dirs \subseteq d.ctx_.dirs
         /\ Len(c.search_paths_) <= Len(d.search_paths_)
<1>1. c.ctx_ \in LyContext /\ c.search_paths_ \in Seq(Paths)
  BY DEF Context
<1>2. LET l == ly_ctx_set_searchdir(c.ctx_, p, present) IN
      /\ l \in LyContext
      /\ l.modules = c.ctx_.modules
      /\ c.ctx_.dirs \subseteq l.dirs
  BY <1>1 DEF ly_ctx_set_searchdir, LyContext
<1>3. /\ Append(c.search_paths_, p) \in Seq(Paths)
      /\ Len(c.search_paths_) <= Len(Append(c.search_paths_, p))
  BY <1>1
<1>4. CASE c.ctx_ = NULL
  <2>1. Len(c.search_paths_) \in Nat
    BY <1>1
  <2>. QED
    BY <1>4, <2>1 DEF AddSearchPath
<1>5. CASE c.ctx_ # NULL
  BY <1>2, <1>3, <1>5 DEF AddSearchPath, Context
<1>. QED
  BY <1>4, <1>5

\* loadModuleInContext adds the module, keeps the others and the paths.
LEMMA LoadModuleFacts ==
  ASSUME NEW c \in Context, NEW m \in Modules
  PROVE  LET d == LoadModuleInContext(c, m) IN
         /\ d \in Context
         /\ Range(d.ctx_.modules) = Range(c.ctx_.modules) \union {m}
         /\ d.ctx_.dirs = c.ctx_.dirs
         /\ d.search_paths_ = c.search_paths_
<1>1. c.ctx_ \in LyContext /\ c.ctx_.modules \in Seq(Modules)
  BY DEF Context, LyContext
<1>2. LET l == ly_ctx_load_module(c.ctx_, m) IN
      /\ l \in LyContext
      /\ Range(l.modules) = Range(c.ctx_.modules) \union {m}
      /\ l.dirs = c.ctx_.dirs
  <2>1. Append(c.ctx_.modules, m) \in Seq(Modules)
    BY <1>1
  <2>2. Range(Append(c.ctx_.modules, m)) = Range(c.ctx_.modules) \union {m}
    BY <1>1, RangeAppend
  <2>. QED
    BY <1>1, <2>1, <2>2 DEF ly_ctx_load_module, LyContext
<1>. QED
  BY <1>2 DEF LoadModuleInContext, Context

=============================================================================
