-------------------------- MODULE YangContextProofs --------------------------
(***************************************************************************)
(* YangContext for any number of objects, contexts and modules.  First     *)
(* ownership, to which what is in the contexts does not matter: every      *)
(* libyang context has one owner until it is destroyed.  Then lookups:     *)
(* what was found stays what is found, and what was loaded is found.       *)
(***************************************************************************)
EXTENDS YangContext, SequenceLemmas, FiniteSetTheorems, TLAPS

Owns(o, i) == objects[o] # None /\ objects[o].ctx_ = i

\* The contexts are a sequence, whatever libyang puts in them.
IsSequence(s) == \E T : s \in Seq(T)

\* A context that exists belongs to the program or to one object; no object
\* has one that the program still has, or that is destroyed.
OwnInv ==
  /\ IsSequence(ly) /\ Len(ly) <= MaxContexts
  /\ destroyed \subseteq DOMAIN ly
  /\ raw \subseteq Alive
  /\ objects \in [Objects -> Object \union {None}]
  /\ \A o \in Objects : objects[o] # None /\ ~Owns(o, 0) =>
       objects[o].ctx_ \in Alive \ raw
  /\ \A o, p \in Objects, i \in Alive : Owns(o, i) /\ Owns(p, i) => o = p
  /\ \A i \in Alive \ raw : \E o \in Objects : Owns(o, i)

\* Making a context appends to ly, and loading changes one where it is.
LEMMA AppendSequence ==
  ASSUME NEW s, IsSequence(s), NEW x
  PROVE  /\ IsSequence(Append(s, x))
         /\ Len(s) \in Nat
         /\ Len(Append(s, x)) = Len(s) + 1
         /\ DOMAIN s = 1..Len(s)
         /\ DOMAIN Append(s, x) = 1..(Len(s) + 1)
<1>1. PICK T : s \in Seq(T)
  BY DEF IsSequence
<1>2. s \in Seq(T \union {x})
  BY <1>1
<1>3. Append(s, x) \in Seq(T \union {x})
  BY <1>2
<1>4. QED
  BY <1>1, <1>2, <1>3 DEF IsSequence

LEMMA ExceptSequence ==
  ASSUME NEW s, IsSequence(s), NEW i \in DOMAIN s, NEW x
  PROVE  /\ IsSequence([s EXCEPT ![i] = x])
         /\ Len([s EXCEPT ![i] = x]) = Len(s)
         /\ DOMAIN [s EXCEPT ![i] = x] = DOMAIN s
<1>1. PICK T : s \in Seq(T)
  BY DEF IsSequence
<1>2. s \in Seq(T \union {x})
  BY <1>1
<1>3. [s EXCEPT ![i] = x] \in Seq(T \union {x})
  BY <1>2
<1>4. QED
  BY <1>1, <1>3 DEF IsSequence

\* A step that hands over no context keeps every owner.
LEMMA SameOwners ==
  ASSUME OwnInv, IsSequence(ly'), Len(ly') = Len(ly), DOMAIN ly' = DOMAIN ly,
         UNCHANGED <<destroyed, raw>>,
         objects' \in [Objects -> Object \union {None}],
         \A o \in Objects : objects'[o] = None <=> objects[o] = None,
         \A o \in Objects : objects[o] # None => objects'[o].ctx_ = objects[o].ctx_
  PROVE  OwnInv'
<1>1. \A o \in Objects : \A i : Owns(o, i)' <=> Owns(o, i)
  BY DEF Owns
<1>2. Alive' = Alive
  BY DEF Alive
<1>3. QED
  BY <1>1, <1>2 DEF OwnInv, Owns

\* Both constructors give a context that has no owner, or null, to a new object.
LEMMA PlaceType ==
  ASSUME OwnInv, NEW o \in Objects, objects[o] = None, NEW i \in 0..MaxContexts,
         Place(o, i)
  PROVE  /\ objects' \in [Objects -> Object \union {None}]
         /\ objects'[o] # None /\ objects'[o].ctx_ = i
         /\ \A p \in Objects : p # o => objects'[p] = objects[p]
<1>. DEFINE made == [ctx_ |-> i, search_paths_ |-> <<>>]
<1>1. made \in Object /\ made # None
  <2>1. <<>> \in Seq(Paths)
    OBVIOUS
  <2>2. made \in Object
    BY <2>1 DEF Object
  <2>3. QED
    BY <2>2, ContextAssumption
<1>2. objects' = [objects EXCEPT ![o] = made]
  BY DEF Place
<1>3. objects'[o] = made
  BY <1>2 DEF OwnInv
<1>4. QED
  BY <1>1, <1>2, <1>3 DEF OwnInv

LEMMA ConstructStep ==
  ASSUME OwnInv, NEW o \in Objects, NEW options \in OptionLists,
         Construct(o, options)
  PROVE  OwnInv'
<1>. DEFINE n == Len(ly) + 1
<1>1. /\ IsSequence(ly') /\ Len(ly') = n /\ n \in Nat
      /\ DOMAIN ly = 1..Len(ly) /\ DOMAIN ly' = 1..n /\ Len(ly) \in Nat
  BY AppendSequence DEF OwnInv, Construct
<1>2. n <= MaxContexts /\ n \in 0..MaxContexts
  BY <1>1, ContextAssumption DEF Construct
<1>3. objects[o] = None /\ Place(o, n) /\ UNCHANGED <<destroyed, raw>>
  BY <1>1 DEF Construct
<1>4. /\ objects' \in [Objects -> Object \union {None}]
      /\ objects'[o] # None /\ objects'[o].ctx_ = n
      /\ \A p \in Objects : p # o => objects'[p] = objects[p]
  BY <1>2, <1>3, PlaceType
<1>5. n \notin DOMAIN ly /\ n # 0
  BY <1>1
<1>6. Alive' = Alive \union {n}
  BY <1>1, <1>3, <1>5 DEF Alive, OwnInv
<1>7. \A p \in Objects : \A i : Owns(p, i)' <=> IF p = o THEN i = n ELSE Owns(p, i)
  BY <1>4 DEF Owns
<1>8. n \notin Alive /\ raw \subseteq Alive
  BY <1>5 DEF Alive, OwnInv
<1>9. \A p \in Objects : objects[p] # None => ~Owns(p, n)
  BY <1>5, <1>8 DEF OwnInv, Owns
<1>10. \A p \in Objects : (objects[p] # None /\ ~Owns(p, 0))' =>
         objects'[p].ctx_ \in (Alive \ raw)'
  BY <1>3, <1>4, <1>6, <1>7, <1>8 DEF OwnInv, Owns
<1>11. \A p, q \in Objects, i \in Alive' : Owns(p, i)' /\ Owns(q, i)' => p = q
  BY <1>6, <1>7, <1>9 DEF OwnInv, Owns
<1>12. \A i \in (Alive \ raw)' : \E p \in Objects : Owns(p, i)'
  BY <1>3, <1>6, <1>7 DEF OwnInv, Owns
<1>13. destroyed' \subseteq DOMAIN ly' /\ raw' \subseteq Alive'
  BY <1>1, <1>3, <1>6, <1>8 DEF OwnInv
<1>. HIDE DEF n
<1>14. QED
  BY <1>1, <1>2, <1>4, <1>10, <1>11, <1>12, <1>13 DEF OwnInv

LEMMA MakeRawStep ==
  ASSUME OwnInv, MakeRaw
  PROVE  OwnInv'
<1>. DEFINE n == Len(ly) + 1
<1>1. /\ IsSequence(ly') /\ Len(ly') = n /\ n \in Nat
      /\ DOMAIN ly = 1..Len(ly) /\ DOMAIN ly' = 1..n /\ Len(ly) \in Nat
  BY AppendSequence DEF OwnInv, MakeRaw
<1>2. n <= MaxContexts
  BY <1>1, ContextAssumption DEF MakeRaw
<1>3. raw' = raw \union {n} /\ UNCHANGED <<destroyed, objects>>
  BY <1>1 DEF MakeRaw
<1>4. n \notin DOMAIN ly
  BY <1>1
<1>5. Alive' = Alive \union {n}
  BY <1>1, <1>3, <1>4 DEF Alive, OwnInv
<1>6. n \notin Alive /\ \A p \in Objects : \A i : Owns(p, i)' <=> Owns(p, i)
  BY <1>3, <1>4 DEF Alive, Owns
<1>7. destroyed' \subseteq DOMAIN ly' /\ raw' \subseteq Alive'
  BY <1>1, <1>3, <1>5 DEF OwnInv
<1>8. (Alive \ raw)' = Alive \ raw
  BY <1>3, <1>5, <1>6 DEF OwnInv
<1>9. \A p \in Objects : (objects[p] # None /\ ~Owns(p, 0))' =>
        objects'[p].ctx_ \in (Alive \ raw)'
  BY <1>3, <1>6, <1>8 DEF OwnInv
<1>10. \A p, q \in Objects, i \in Alive' : Owns(p, i)' /\ Owns(q, i)' => p = q
  <2>1. ASSUME NEW p \in Objects, Owns(p, n) PROVE FALSE
    <3>1. objects[p] # None /\ objects[p].ctx_ = n /\ n # 0
      BY <1>1, <2>1 DEF Owns
    <3>2. n \in Alive
      BY <3>1 DEF OwnInv, Owns
    <3>3. QED
      BY <1>6, <3>2
  <2>2. QED
    BY <1>5, <1>6, <2>1 DEF OwnInv
<1>11. \A i \in (Alive \ raw)' : \E p \in Objects : Owns(p, i)'
  BY <1>6, <1>8 DEF OwnInv
<1>12. objects' \in [Objects -> Object \union {None}]
  BY <1>3 DEF OwnInv
<1>. HIDE DEF n
<1>13. QED
  BY <1>1, <1>2, <1>7, <1>9, <1>10, <1>11, <1>12 DEF OwnInv

\* The object takes the context over from the program (YangContext.cpp:17).
LEMMA WrapStep ==
  ASSUME OwnInv, NEW o \in Objects, NEW i \in raw \union {0}, Wrap(o, i)
  PROVE  OwnInv'
<1>1. DOMAIN ly = 1..Len(ly) /\ Len(ly) \in Nat /\ Len(ly) <= MaxContexts
  BY AppendSequence DEF OwnInv
<1>2. raw \subseteq 1..Len(ly)
  BY <1>1 DEF OwnInv, Alive
<1>3. i \in 0..MaxContexts /\ 0 \notin Alive
  BY <1>1, <1>2, ContextAssumption DEF Alive
<1>4. objects[o] = None /\ Place(o, i) /\ raw' = raw \ {i} /\ UNCHANGED <<ly, destroyed>>
  BY DEF Wrap
<1>5. /\ objects' \in [Objects -> Object \union {None}]
      /\ objects'[o] # None /\ objects'[o].ctx_ = i
      /\ \A p \in Objects : p # o => objects'[p] = objects[p]
  BY <1>3, <1>4, PlaceType
<1>6. Alive' = Alive
  BY <1>4 DEF Alive
<1>7. \A p \in Objects : \A k : Owns(p, k)' <=> IF p = o THEN k = i ELSE Owns(p, k)
  BY <1>5 DEF Owns
<1>8. \A p \in Objects : (objects[p] # None /\ ~Owns(p, 0))' =>
        objects'[p].ctx_ \in (Alive \ raw)'
  BY <1>3, <1>4, <1>5, <1>6, <1>7 DEF OwnInv, Owns
<1>9. \A p \in Objects, k \in Alive : Owns(p, k) => k \notin raw
  BY <1>3 DEF OwnInv, Owns
<1>10. \A p, q \in Objects, k \in Alive' : Owns(p, k)' /\ Owns(q, k)' => p = q
  BY <1>3, <1>6, <1>7, <1>9 DEF OwnInv
<1>11. \A k \in (Alive \ raw)' : \E p \in Objects : Owns(p, k)'
  <2>1. ASSUME NEW k \in (Alive \ raw)' PROVE \E p \in Objects : Owns(p, k)'
    <3>1. CASE k = i
      BY <1>7, <3>1
    <3>2. CASE k # i
      <4>1. PICK p \in Objects : Owns(p, k)
        BY <1>4, <1>6, <2>1, <3>2 DEF OwnInv
      <4>2. p # o
        BY <1>4, <4>1 DEF Owns
      <4>3. QED
        BY <1>7, <4>1, <4>2
    <3>3. QED
      BY <3>1, <3>2
  <2>2. QED
    BY <2>1
<1>12. QED
  BY <1>4, <1>5, <1>6, <1>8, <1>10, <1>11 DEF OwnInv

\* Only the owner destroys (YangContext.cpp:19-24).
LEMMA DestructStep ==
  ASSUME OwnInv, NEW o \in Objects, Destruct(o)
  PROVE  OwnInv'
<1>. DEFINE c == objects[o].ctx_
<1>1. /\ objects[o] # None
      /\ destroyed' = destroyed \union ({c} \ {0})
      /\ objects' = [objects EXCEPT ![o] = None]
      /\ UNCHANGED <<ly, raw>>
  BY DEF Destruct
<1>2. Owns(o, c)
  BY <1>1 DEF Owns
<1>3. c # 0 => c \in Alive \ raw
  BY <1>1 DEF OwnInv, Owns
<1>4. 0 \notin Alive
  BY AppendSequence DEF OwnInv, Alive
<1>5. Alive' = Alive \ {c}
  BY <1>1, <1>4 DEF Alive
<1>6. \A p \in Objects : \A i : Owns(p, i)' <=> p # o /\ Owns(p, i)
  BY <1>1 DEF OwnInv, Owns
<1>7. destroyed' \subseteq DOMAIN ly' /\ raw' \subseteq Alive'
  BY <1>1, <1>3, <1>4, <1>5 DEF OwnInv, Alive
<1>8. objects' \in [Objects -> Object \union {None}]
  BY <1>1 DEF OwnInv
<1>9. \A p \in Objects : (objects[p] # None /\ ~Owns(p, 0))' =>
        objects'[p].ctx_ \in (Alive \ raw)'
  <2>1. ASSUME NEW p \in Objects, objects'[p] # None, ~Owns(p, 0)'
        PROVE  objects'[p].ctx_ \in Alive \ raw /\ objects'[p].ctx_ # c
    <3>1. p # o /\ objects'[p] = objects[p]
      BY <1>1, <2>1 DEF OwnInv
    <3>2. objects[p].ctx_ \in Alive \ raw
      BY <2>1, <3>1 DEF OwnInv, Owns
    <3>3. Owns(p, objects[p].ctx_)
      BY <2>1, <3>1 DEF Owns
    <3>4. objects[p].ctx_ # c
      BY <1>2, <3>1, <3>2, <3>3 DEF OwnInv
    <3>5. QED
      BY <3>1, <3>2, <3>4
  <2>2. QED
    BY <1>1, <1>5, <2>1
<1>10. \A p, q \in Objects, i \in Alive' : Owns(p, i)' /\ Owns(q, i)' => p = q
  BY <1>5, <1>6 DEF OwnInv
<1>11. \A i \in (Alive \ raw)' : \E p \in Objects : Owns(p, i)'
  <2>1. ASSUME NEW i \in (Alive \ raw)' PROVE \E p \in Objects : Owns(p, i)'
    <3>1. i \in Alive \ raw /\ i # c
      BY <1>1, <1>5, <2>1
    <3>2. PICK p \in Objects : Owns(p, i)
      BY <3>1 DEF OwnInv
    <3>3. p # o
      BY <3>1, <3>2 DEF Owns
    <3>4. QED
      BY <1>6, <3>2, <3>3
  <2>2. QED
    BY <2>1
<1>12. QED
  BY <1>1, <1>7, <1>8, <1>9, <1>10, <1>11 DEF OwnInv

\* An object's context, unless null, is one that can be changed in place.
LEMMA OwnedExists ==
  ASSUME OwnInv, NEW o \in Objects, objects[o] # None, objects[o].ctx_ # 0
  PROVE  objects[o].ctx_ \in DOMAIN ly
BY DEF OwnInv, Owns, Alive

LEMMA AddSearchPathStep ==
  ASSUME OwnInv, NEW o \in Objects, NEW p \in Paths, addSearchPath(o, p)
  PROVE  OwnInv'
<1>1. objects[o] # None /\ objects[o] \in Object /\ UNCHANGED <<destroyed, raw>>
  BY DEF addSearchPath, OwnInv
<1>2. CASE objects[o].ctx_ = 0
  BY <1>1, <1>2, SameOwners DEF addSearchPath, OwnInv
<1>3. CASE objects[o].ctx_ # 0
  <2>. DEFINE added == [objects[o] EXCEPT !.search_paths_ = Append(@, p)]
  <2>1. added \in Object /\ added # None /\ added.ctx_ = objects[o].ctx_
    <3>1. Append(objects[o].search_paths_, p) \in Seq(Paths)
      BY <1>1 DEF Object
    <3>2. added \in Object /\ added.ctx_ = objects[o].ctx_
      BY <1>1, <3>1 DEF Object
    <3>3. QED
      BY <3>2, ContextAssumption
  <2>2. objects' = [objects EXCEPT ![o] = added]
    BY <1>3 DEF addSearchPath
  <2>3. IsSequence(ly') /\ Len(ly') = Len(ly) /\ DOMAIN ly' = DOMAIN ly
    BY <1>1, <1>3, OwnedExists, ExceptSequence DEF addSearchPath, OwnInv
  <2>. HIDE DEF added
  <2>4. /\ objects' \in [Objects -> Object \union {None}]
        /\ \A q \in Objects : objects'[q] = None <=> objects[q] = None
        /\ \A q \in Objects : objects[q] # None => objects'[q].ctx_ = objects[q].ctx_
    BY <1>1, <2>1, <2>2 DEF OwnInv
  <2>5. QED
    BY <1>1, <2>3, <2>4, SameOwners
<1>4. QED
  BY <1>2, <1>3

LEMMA LoadStep ==
  ASSUME OwnInv, NEW o \in Objects, NEW m \in Modules, loadModuleInContext(o, m)
  PROVE  OwnInv'
<1>1. objects[o] # None /\ objects[o].ctx_ # 0 /\ UNCHANGED <<destroyed, raw, objects>>
  BY DEF loadModuleInContext
<1>2. PICK new : ly' = [ly EXCEPT ![objects[o].ctx_] = Load(@, m, new)]
  BY DEF loadModuleInContext
<1>3. IsSequence(ly') /\ Len(ly') = Len(ly) /\ DOMAIN ly' = DOMAIN ly
  BY <1>1, <1>2, OwnedExists, ExceptSequence DEF OwnInv
<1>4. QED
  BY <1>1, <1>3, SameOwners DEF OwnInv

\* The program starts without a context.
LEMMA InitOwnInv == Init => OwnInv
<1>. SUFFICES ASSUME Init PROVE OwnInv
  OBVIOUS
<1>1. ly = <<>> /\ <<>> \in Seq({}) /\ Len(ly) = 0 /\ DOMAIN ly = {}
  BY DEF Init
<1>2. IsSequence(ly)
  BY <1>1 DEF IsSequence
<1>3. Alive = {}
  BY <1>1 DEF Alive
<1>4. QED
  BY <1>1, <1>2, <1>3, ContextAssumption DEF Init, OwnInv

LEMMA StepOwnInv ==
  ASSUME OwnInv, [Next]_vars
  PROVE  OwnInv'
<1>1. ASSUME UNCHANGED <<ly, destroyed, raw, objects>> PROVE OwnInv'
  BY <1>1 DEF OwnInv, Owns, Alive
<1>2. ASSUME NEW o \in Objects, NEW options \in OptionLists,
             Construct(o, options) PROVE OwnInv'
  BY <1>2, ConstructStep
<1>3. ASSUME NEW o \in Objects, ConstructFails(o) PROVE OwnInv'
  BY <1>1, <1>3 DEF ConstructFails
<1>4. ASSUME NEW o \in Objects, Destruct(o) PROVE OwnInv'
  BY <1>4, DestructStep
<1>5. ASSUME NEW o \in Objects, NEW i \in raw \union {0}, Wrap(o, i) PROVE OwnInv'
  BY <1>5, WrapStep
<1>6. ASSUME NEW o \in Objects, NEW p \in Paths, addSearchPath(o, p) PROVE OwnInv'
  BY <1>6, AddSearchPathStep
<1>7. ASSUME NEW o \in Objects, NEW m \in Modules, loadModuleInContext(o, m)
      PROVE  OwnInv'
  BY <1>7, LoadStep
<1>8. ASSUME NEW o \in Objects, NEW m \in Modules, LoadFails(o, m) PROVE OwnInv'
  BY <1>1, <1>8 DEF LoadFails
<1>9. ASSUME NEW o \in Objects, NEW n \in Names, NEW h \in Handles,
             GetLoadedModuleByName(o, n, h)
      PROVE  OwnInv'
  BY <1>1, <1>9 DEF GetLoadedModuleByName
<1>10. CASE MakeRaw
  BY <1>10, MakeRawStep
<1>11. CASE UNCHANGED vars
  BY <1>1, <1>11 DEF vars
<1>12. QED
  BY <1>2, <1>3, <1>4, <1>5, <1>6, <1>7, <1>8, <1>9, <1>10, <1>11 DEF Next

\* The number of owners, counted as OneOwner counts them.
LEMMA CountOwners ==
  ASSUME OwnInv
  PROVE  OneOwner
<1>1. ASSUME NEW i \in DOMAIN ly
      PROVE  Cardinality(Owners(i)) + Cardinality(raw \intersect {i})
               = IF i \in destroyed THEN 0 ELSE 1
  <2>0. i # 0
    BY AppendSequence DEF OwnInv
  <2>1. CASE i \in destroyed
    <3>1. Owners(i) = {}
      BY <2>0, <2>1 DEF OwnInv, Owns, Owners, Alive
    <3>2. raw \intersect {i} = {}
      BY <2>1 DEF OwnInv, Alive
    <3>3. QED
      BY <2>1, <3>1, <3>2, FS_EmptySet
  <2>2. CASE i \in raw
    <3>1. Owners(i) = {}
      BY <2>0, <2>2 DEF OwnInv, Owns, Owners
    <3>2. raw \intersect {i} = {i} /\ i \notin destroyed
      BY <2>2 DEF OwnInv, Alive
    <3>3. Cardinality({i}) = 1 /\ Cardinality({}) = 0
      BY FS_EmptySet, FS_Singleton
    <3>4. QED
      BY <3>1, <3>2, <3>3
  <2>3. CASE i \in Alive \ raw
    <3>1. PICK o \in Objects : Owns(o, i)
      BY <2>3 DEF OwnInv
    <3>2. Owners(i) = {o}
      BY <2>3, <3>1 DEF OwnInv, Owns, Owners
    <3>3. raw \intersect {i} = {} /\ i \notin destroyed
      BY <2>3 DEF Alive
    <3>4. Cardinality({o}) = 1 /\ Cardinality({}) = 0
      BY FS_EmptySet, FS_Singleton
    <3>5. QED
      BY <3>2, <3>3, <3>4
  <2>4. QED
    BY <2>1, <2>2, <2>3 DEF Alive
<1>2. QED
  BY <1>1 DEF OneOwner

\* For any number of objects and contexts, whichever constructor takes a context
\* and whatever fails: each has one owner until it is destroyed, and is destroyed
\* once (YangContext.cpp:9-24).
THEOREM Ownership == Spec => []OneOwner
<1>1. Spec => []OwnInv
  BY InitOwnInv, StepOwnInv, PTL DEF Spec
<1>2. QED
  BY <1>1, CountOwners, PTL

-----------------------------------------------------------------------------
(* Lookups *)

Revisions(c) == \A k, m \in c.implemented : NameOf[k] = NameOf[m] => k = m

\* The answer to a lookup is the first hit, from then on.
Answered(x) ==
  x # None /\ x.mod_ # NULL =>
    x.of \in DOMAIN ly /\ FirstOfName(ly[x.of], x.name) = x.mod_

\* What LookupIsStable and LoadedIsFound rely on: of the revisions of a module,
\* one is implemented at most, and what was returned is.
ContentsInv ==
  /\ \A i \in DOMAIN ly : IsLy(ly[i]) /\ Revisions(ly[i])
  /\ returned \subseteq (1..MaxContexts) \X Modules
  /\ \A i \in 1..MaxContexts, m \in Modules : <<i, m>> \in returned =>
       i \in DOMAIN ly /\ m \in ly[i].implemented
  /\ handles \in [Handles -> SchemaModule \union {None}]
  /\ \A h \in Handles : Answered(handles[h])
  /\ threw \in BOOLEAN

LEMMA FirstHit ==
  ASSUME NEW c, c.modules \in Seq(Modules), NEW name, Hits(c, name) # {}
  PROVE  \E k \in Hits(c, name) : /\ \A j \in Hits(c, name) : k <= j
                                  /\ FirstOfName(c, name) = c.modules[k]
<1>1. Hits(c, name) \in SUBSET Nat
  BY DEF Hits
<1>2. \E k \in Hits(c, name) : \A j \in Hits(c, name) : k <= j
  BY <1>1, LeastNumber
<1>3. /\ Min(Hits(c, name)) \in Hits(c, name)
      /\ \A j \in Hits(c, name) : Min(Hits(c, name)) <= j
  BY <1>2 DEF Min
<1>4. QED
  BY <1>3 DEF FirstOfName

\* What loadModuleInContext does to a context, in whichever order libyang
\* puts the missing modules into it.
LEMMA LoadedSequence ==
  ASSUME NEW c, IsLy(c), NEW m \in Modules, NEW new \in LoadOrders(c, m)
  PROVE  LET d == Load(c, m, new) IN
         /\ d.modules \in Seq(Modules)
         /\ Len(c.modules) \in Nat /\ DOMAIN c.modules = 1..Len(c.modules)
         /\ \A k \in DOMAIN c.modules : k \in DOMAIN d.modules /\ d.modules[k] = c.modules[k]
         /\ \A k \in DOMAIN d.modules \ DOMAIN c.modules :
              k > Len(c.modules) /\ d.modules[k] \notin Range(c.modules)
         /\ IsInjective(d.modules)
         /\ m \in Range(d.modules) /\ Range(c.modules) \subseteq Range(d.modules)
         /\ d.dirs = c.dirs /\ d.implemented = c.implemented \union {m}
<1>. DEFINE missing == Missing(c, m)
            n == Cardinality(missing)
            p == Len(c.modules)
            d == Load(c, m, new)
<1>1. c.modules \in Seq(Modules) /\ Len(c.modules) = p /\ p \in Nat /\ DOMAIN c.modules = 1..p
  BY DEF IsLy
<1>2. missing \subseteq Modules /\ IsFiniteSet(missing)
  <2>1. Imports[m] \subseteq Modules /\ IsFiniteSet(Imports[m])
    BY ContextAssumption
  <2>2. IsFiniteSet({m} \union Imports[m])
    BY <2>1, FS_Singleton, FS_Union
  <2>3. QED
    BY <2>1, <2>2, FS_Subset DEF Missing
<1>3. n \in Nat
  BY <1>2, FS_CardinalityType
<1>4. /\ new \in [1..n -> missing]
      /\ \A a, b \in 1..n : new[a] = new[b] => a = b
      /\ \A x \in missing : \E a \in 1..n : new[a] = x
  BY DEF LoadOrders, Bijection, Injection, Surjection, IsInjective
<1>5. missing \intersect Range(c.modules) = {} /\ (m \in missing \/ m \in Range(c.modules))
  BY DEF Missing
<1>. HIDE DEF missing, n
<1>6. new \in Seq(Modules) /\ Len(new) = n
  <2>1. new \in [1..n -> Modules]
    BY <1>2, <1>4
  <2>2. QED
    BY <1>3, <2>1
<1>7. d.modules = c.modules \o new /\ d.dirs = c.dirs /\ d.implemented = c.implemented \union {m}
  BY DEF IsLy, Load
<1>. HIDE DEF d, p
<1>8. /\ d.modules \in Seq(Modules) /\ DOMAIN d.modules = 1..(p + n)
      /\ \A k \in 1..p : d.modules[k] = c.modules[k]
      /\ \A k \in 1..(p + n) : k > p => d.modules[k] = new[k - p] /\ k - p \in 1..n
  <2>. DEFINE u == c.modules \o new
  <2>1. u \in Seq(Modules) /\ DOMAIN u = 1..(p + n)
    BY <1>1, <1>3, <1>6
  <2>2. \A k \in 1..p : u[k] = c.modules[k]
    BY <1>1, <1>3, <1>6
  <2>3. ASSUME NEW k \in 1..(p + n), k > p
        PROVE  u[k] = new[k - p] /\ k - p \in 1..n
    <3>1. k \in Nat /\ k - p \in 1..n
      BY <1>1, <1>3, <2>3
    <3>2. IsSeq(c.modules) /\ IsSeq(new)
      BY <1>1, <1>6, SequenceOver
    <3>3. k \in 1..Len(u) /\ k > Len(c.modules)
      BY <1>1, <1>3, <1>6, <2>3
    <3>. HIDE DEF u
    <3>4. u[k] = new[k - Len(c.modules)]
      BY <3>2, <3>3, Concatenation DEF u
    <3>5. QED
      BY <1>1, <3>1, <3>4
  <2>4. d.modules = u
    BY <1>7
  <2>. HIDE DEF u
  <2>5. QED
    BY <2>1, <2>2, <2>3, <2>4
<1>9. Range(c.modules) = {c.modules[k] : k \in 1..p} /\ Range(d.modules) = {d.modules[k] : k \in 1..(p + n)}
  BY <1>1, <1>8 DEF Range
<1>10. \A k \in 1..(p + n) : k > p => d.modules[k] \in missing
  BY <1>4, <1>8
<1>11. \A k \in 1..p : c.modules[k] \notin missing
  BY <1>5, <1>9
<1>12. IsInjective(d.modules)
  <2>1. \A a, b \in 1..p : c.modules[a] = c.modules[b] => a = b
    BY <1>1 DEF IsLy, IsInjective
  <2>2. ASSUME NEW a \in 1..(p + n), NEW b \in 1..(p + n), d.modules[a] = d.modules[b]
        PROVE  a = b
    <3>0. \A k \in 1..(p + n) : IF k \in 1..p THEN d.modules[k] \notin missing
                                             ELSE d.modules[k] \in missing /\ k > p
      <4>1. \A k \in 1..(p + n) : k \notin 1..p => k > p
        BY <1>1, <1>3
      <4>2. \A k \in 1..p : d.modules[k] \notin missing
        BY <1>8, <1>11
      <4>3. QED
        BY <1>10, <4>1, <4>2
    <3>1. a \in 1..p <=> b \in 1..p
      BY <2>2, <3>0
    <3>2. CASE a \in 1..p
      BY <1>8, <2>1, <2>2, <3>1, <3>2
    <3>3. CASE a \notin 1..p
      <4>1. a > p /\ b > p
        BY <1>1, <1>3, <3>1, <3>3
      <4>2. a - p = b - p
        BY <1>4, <1>8, <2>2, <4>1
      <4>3. QED
        BY <1>1, <1>3, <4>2
    <3>4. QED
      BY <3>2, <3>3
  <2>3. QED
    BY <1>8, <2>2 DEF IsInjective
<1>13. m \in Range(d.modules)
  <2>1. CASE m \in Range(c.modules)
    <3>1. PICK k \in 1..p : m = c.modules[k]
      BY <1>9, <2>1
    <3>2. k \in 1..(p + n) /\ d.modules[k] = m
      BY <1>1, <1>3, <1>8, <3>1
    <3>3. QED
      BY <1>9, <3>2
  <2>2. CASE m \in missing
    <3>1. PICK a \in 1..n : new[a] = m
      BY <1>4, <2>2
    <3>2. PICK k \in 1..(p + n) : k > p /\ k - p = a
      BY <1>1, <1>3
    <3>3. d.modules[k] = new[a]
      BY <1>8, <3>2
    <3>4. QED
      BY <1>9, <3>1, <3>2, <3>3
  <2>3. QED
    BY <1>5, <2>1, <2>2
<1>14. Range(c.modules) \subseteq Range(d.modules)
  <2>1. 1..p \subseteq 1..(p + n)
    BY <1>1, <1>3
  <2>2. QED
    BY <1>8, <1>9, <2>1
<1>15. \A k \in DOMAIN d.modules \ DOMAIN c.modules :
         k > p /\ d.modules[k] \notin Range(c.modules)
  BY <1>1, <1>3, <1>5, <1>8, <1>10
<1>16. \A k \in DOMAIN c.modules : k \in DOMAIN d.modules /\ d.modules[k] = c.modules[k]
  BY <1>1, <1>3, <1>8
<1>17. QED
  BY <1>1, <1>7, <1>8, <1>12, <1>13, <1>14, <1>15, <1>16 DEF d, p

\* A load puts no module of the name before the first one.
LEMMA LoadKeepsFirst ==
  ASSUME NEW c, IsLy(c), NEW m \in Modules, NEW new \in LoadOrders(c, m),
         NEW name, FirstOfName(c, name) # NULL
  PROVE  FirstOfName(Load(c, m, new), name) = FirstOfName(c, name)
<1>. DEFINE d == Load(c, m, new)
<1>1. Hits(c, name) # {}
  BY DEF FirstOfName
<1>2. c.modules \in Seq(Modules) /\ d.modules \in Seq(Modules)
  BY LoadedSequence DEF IsLy
<1>3. PICK k \in Hits(c, name) : /\ \A j \in Hits(c, name) : k <= j
                                /\ FirstOfName(c, name) = c.modules[k]
  BY <1>1, <1>2, FirstHit
<1>4. /\ \A j \in Hits(c, name) : j \in Hits(d, name)
      /\ \A j \in Hits(d, name) \ Hits(c, name) : j > Len(c.modules)
      /\ k \in 1..Len(c.modules) /\ Len(c.modules) \in Nat /\ d.modules[k] = c.modules[k]
  BY LoadedSequence DEF Hits
<1>5. \A j \in Hits(d, name) : j \in Nat
  BY <1>2 DEF Hits
<1>6. PICK j \in Hits(d, name) : /\ \A l \in Hits(d, name) : j <= l
                                /\ FirstOfName(d, name) = d.modules[j]
  <2>1. Hits(d, name) # {}
    BY <1>3, <1>4
  <2>. HIDE DEF d
  <2>2. QED
    BY <1>2, <2>1, FirstHit
<1>. HIDE DEF d
<1>7. j <= k
  BY <1>4, <1>6
<1>8. j \in Hits(c, name)
  BY <1>4, <1>5, <1>7
<1>9. j = k
  BY <1>3, <1>4, <1>5, <1>7, <1>8
<1>10. QED
  BY <1>3, <1>4, <1>6, <1>9 DEF d

\* A load implements m as the only revision, if libyang can load it.
LEMMA LoadContents ==
  ASSUME NEW c, IsLy(c), Revisions(c), NEW m \in Modules, CanLoad(c, m),
         NEW new \in LoadOrders(c, m)
  PROVE  /\ IsLy(Load(c, m, new)) /\ Revisions(Load(c, m, new))
         /\ m \in Load(c, m, new).implemented
         /\ c.implemented \subseteq Load(c, m, new).implemented
<1>. DEFINE d == Load(c, m, new)
<1>1. /\ d.modules \in Seq(Modules) /\ IsInjective(d.modules)
      /\ m \in Range(d.modules) /\ Range(c.modules) \subseteq Range(d.modules)
      /\ d.dirs = c.dirs /\ d.implemented = c.implemented \union {m}
  BY LoadedSequence
<1>2. d \in [flags : SUBSET Options, dirs : SUBSET Paths, modules : Seq(Modules),
                implemented : SUBSET Modules]
  <2>1. d = [c EXCEPT !.modules = d.modules, !.implemented = d.implemented]
    BY DEF Load, IsLy
  <2>. HIDE DEF d
  <2>2. QED
    BY <1>1, <2>1 DEF IsLy
<1>. HIDE DEF d
<1>3. IsLy(d)
  BY <1>1, <1>2 DEF IsLy
<1>4. Revisions(d)
  BY <1>1 DEF Revisions, CanLoad
<1>5. QED
  BY <1>1, <1>3, <1>4 DEF d

LEMMA NewLyContents ==
  ASSUME NEW flags \in SUBSET Options
  PROVE  IsLy(NewLy(flags)) /\ Revisions(NewLy(flags))
BY ContextAssumption DEF NewLy, IsLy, Revisions

\* A step after which every context still has what it had, and in the same
\* order as far as lookups can tell.
LEMMA KeptContents ==
  ASSUME ContentsInv, UNCHANGED handles, threw' \in BOOLEAN,
         DOMAIN ly \subseteq DOMAIN ly',
         \A i \in DOMAIN ly' : IsLy(ly'[i]) /\ Revisions(ly'[i]),
         \A i \in DOMAIN ly :
           /\ ly[i].implemented \subseteq ly'[i].implemented
           /\ \A name : FirstOfName(ly[i], name) # NULL =>
                FirstOfName(ly'[i], name) = FirstOfName(ly[i], name),
         returned' \subseteq (1..MaxContexts) \X Modules,
         \A i \in 1..MaxContexts, m \in Modules : <<i, m>> \in returned' =>
           <<i, m>> \in returned \/ (i \in DOMAIN ly' /\ m \in ly'[i].implemented)
  PROVE  ContentsInv'
<1>1. \A i \in 1..MaxContexts, m \in Modules : <<i, m>> \in returned' =>
        i \in DOMAIN ly' /\ m \in ly'[i].implemented
  BY DEF ContentsInv
<1>2. \A h \in Handles : Answered(handles[h])'
  BY DEF ContentsInv, Answered
<1>3. QED
  BY <1>1, <1>2 DEF ContentsInv

LEMMA MadeContents ==
  ASSUME OwnInv, ContentsInv, NEW flags \in SUBSET Options,
         ly' = Append(ly, NewLy(flags)),
         UNCHANGED <<returned, handles>>, threw' \in BOOLEAN
  PROVE  ContentsInv'
<1>1. PICK T : ly \in Seq(T)
  BY DEF OwnInv, IsSequence
<1>2. /\ Len(ly) \in Nat /\ DOMAIN ly = 1..Len(ly) /\ DOMAIN ly' = 1..(Len(ly) + 1)
      /\ \A i \in DOMAIN ly : ly'[i] = ly[i]
      /\ ly'[Len(ly) + 1] = NewLy(flags)
  <2>1. ly \in Seq(T \union {NewLy(flags)})
    BY <1>1
  <2>2. QED
    BY <2>1
<1>3. \A i \in DOMAIN ly' : IsLy(ly'[i]) /\ Revisions(ly'[i])
  BY <1>2, NewLyContents DEF ContentsInv
<1>4. DOMAIN ly \subseteq DOMAIN ly'
  BY <1>2
<1>5. QED
  BY <1>2, <1>3, <1>4, KeptContents DEF ContentsInv

LEMMA AddSearchPathContents ==
  ASSUME OwnInv, ContentsInv, NEW o \in Objects, NEW p \in Paths, addSearchPath(o, p)
  PROVE  ContentsInv'
<1>. DEFINE i == objects[o].ctx_
            d == ly_ctx_set_searchdir(ly[i], p, Paths)
<1>1. threw' = FALSE /\ UNCHANGED <<returned, handles>> /\ objects[o] # None
  BY DEF addSearchPath
<1>2. CASE i = 0
  <2>1. UNCHANGED ly
    BY <1>2 DEF addSearchPath
  <2>2. QED
    BY <1>1, <2>1, KeptContents DEF ContentsInv
<1>3. CASE i # 0
  <2>1. ly' = [ly EXCEPT ![i] = d] /\ i \in DOMAIN ly
    BY <1>1, <1>3, OwnedExists DEF addSearchPath
  <2>2. IsLy(ly[i]) /\ Revisions(ly[i])
    BY <2>1 DEF ContentsInv
  <2>3. d = [ly[i] EXCEPT !.dirs = ly[i].dirs \union {p}]
    BY DEF ly_ctx_set_searchdir
  <2>4. /\ d \in [flags : SUBSET Options, dirs : SUBSET Paths, modules : Seq(Modules),
                implemented : SUBSET Modules]
        /\ d.modules = ly[i].modules /\ d.implemented = ly[i].implemented
    BY <2>2, <2>3 DEF IsLy
  <2>. HIDE DEF d, i
  <2>5. IsLy(d) /\ Revisions(d) /\ \A name : FirstOfName(d, name) = FirstOfName(ly[i], name)
    BY <2>2, <2>4 DEF IsLy, Revisions, FirstOfName, Hits
  <2>6. DOMAIN ly' = DOMAIN ly /\ \A k \in DOMAIN ly : ly'[k] = IF k = i THEN d ELSE ly[k]
    BY <2>1
  <2>7. \A k \in DOMAIN ly' : IsLy(ly'[k]) /\ Revisions(ly'[k])
    BY <2>5, <2>6 DEF ContentsInv
  <2>8. \A k \in DOMAIN ly :
          /\ ly[k].implemented \subseteq ly'[k].implemented
          /\ \A name : FirstOfName(ly'[k], name) = FirstOfName(ly[k], name)
    BY <2>4, <2>5, <2>6
  <2>9. QED
    BY <1>1, <2>6, <2>7, <2>8, KeptContents DEF ContentsInv
<1>4. QED
  BY <1>2, <1>3

LEMMA LoadModuleContents ==
  ASSUME OwnInv, ContentsInv, NEW o \in Objects, NEW m \in Modules,
         loadModuleInContext(o, m)
  PROVE  ContentsInv'
<1>. DEFINE i == objects[o].ctx_
<1>1. /\ threw' = FALSE /\ UNCHANGED handles /\ objects[o] # None
      /\ i # 0 /\ CanLoad(ly[i], m) /\ returned' = returned \union {<<i, m>>}
  BY DEF loadModuleInContext
<1>2. PICK new \in LoadOrders(ly[i], m) : ly' = [ly EXCEPT ![i] = Load(ly[i], m, new)]
  BY DEF loadModuleInContext
<1>3. i \in DOMAIN ly
  BY <1>1, OwnedExists
<1>. HIDE DEF i
<1>4. IsLy(ly[i]) /\ Revisions(ly[i])
  BY <1>3 DEF ContentsInv
<1>5. DOMAIN ly' = DOMAIN ly
      /\ \A k \in DOMAIN ly : ly'[k] = IF k = i THEN Load(ly[i], m, new) ELSE ly[k]
  BY <1>2
<1>6. /\ IsLy(ly'[i]) /\ Revisions(ly'[i])
      /\ m \in ly'[i].implemented /\ ly[i].implemented \subseteq ly'[i].implemented
  BY <1>1, <1>3, <1>4, <1>5, LoadContents
<1>7. \A name : FirstOfName(ly[i], name) # NULL =>
        FirstOfName(ly'[i], name) = FirstOfName(ly[i], name)
  BY <1>3, <1>4, <1>5, LoadKeepsFirst
<1>8. \A k \in DOMAIN ly' : IsLy(ly'[k]) /\ Revisions(ly'[k])
  BY <1>5, <1>6 DEF ContentsInv
<1>9. \A k \in DOMAIN ly :
        /\ ly[k].implemented \subseteq ly'[k].implemented
        /\ \A name : FirstOfName(ly[k], name) # NULL =>
             FirstOfName(ly'[k], name) = FirstOfName(ly[k], name)
  BY <1>5, <1>6, <1>7
<1>10. returned' \subseteq (1..MaxContexts) \X Modules
  <2>1. i \in 1..MaxContexts
    BY <1>3, AppendSequence, ContextAssumption DEF OwnInv
  <2>2. QED
    BY <1>1, <2>1 DEF ContentsInv
<1>11. \A k \in 1..MaxContexts, l \in Modules : <<k, l>> \in returned' =>
         <<k, l>> \in returned \/ (k \in DOMAIN ly' /\ l \in ly'[k].implemented)
  BY <1>1, <1>3, <1>5, <1>6
<1>12. QED
  BY <1>1, <1>5, <1>8, <1>9, <1>10, <1>11, KeptContents

LEMMA LookupContents ==
  ASSUME OwnInv, ContentsInv, NEW o \in Objects, NEW n \in Names, NEW h \in Handles,
         GetLoadedModuleByName(o, n, h)
  PROVE  ContentsInv'
<1>. DEFINE i == objects[o].ctx_
            x == [of |-> i, name |-> n,
                  mod_ |-> IF i = 0 THEN NULL ELSE FirstOfName(ly[i], n)]
<1>1. /\ objects[o] # None /\ threw' = FALSE /\ UNCHANGED <<ly, returned>>
      /\ handles' = [handles EXCEPT ![h] = x]
  BY DEF GetLoadedModuleByName
<1>2. i # 0 => i \in DOMAIN ly /\ i \in 1..MaxContexts
  BY <1>1, OwnedExists, AppendSequence, ContextAssumption DEF OwnInv
<1>3. i # 0 => FirstOfName(ly[i], n) \in Modules \union {NULL}
  <2>1. ASSUME i # 0, Hits(ly[i], n) # {} PROVE FirstOfName(ly[i], n) \in Modules
    <3>1. ly[i].modules \in Seq(Modules)
      BY <1>2, <2>1 DEF ContentsInv, IsLy
    <3>2. QED
      BY <2>1, <3>1, FirstHit DEF Hits
  <2>2. QED
    BY <2>1 DEF FirstOfName
<1>4. x \in SchemaModule
  BY <1>2, <1>3, ContextAssumption DEF SchemaModule
<1>5. Answered(x)
  BY <1>2 DEF Answered
<1>. HIDE DEF x
<1>6. handles' \in [Handles -> SchemaModule \union {None}]
  BY <1>1, <1>4 DEF ContentsInv
<1>7. \A g \in Handles : Answered(handles[g])'
  <2>1. \A g \in Handles : handles'[g] = IF g = h THEN x ELSE handles[g]
    BY <1>1 DEF ContentsInv
  <2>2. \A g \in Handles : Answered(handles'[g])
    BY <1>5, <2>1 DEF ContentsInv
  <2>3. QED
    BY <1>1, <2>2 DEF Answered
<1>8. QED
  BY <1>1, <1>6, <1>7 DEF ContentsInv

LEMMA InitContents == Init => ContentsInv
<1>. SUFFICES ASSUME Init PROVE ContentsInv
  OBVIOUS
<1>1. DOMAIN ly = {}
  BY DEF Init
<1>2. \A h \in Handles : handles[h] = None
  BY DEF Init
<1>3. handles \in [Handles -> SchemaModule \union {None}]
  BY DEF Init
<1>4. QED
  BY <1>1, <1>2, <1>3 DEF Init, ContentsInv, Answered

LEMMA StepContents ==
  ASSUME OwnInv, ContentsInv, [Next]_vars
  PROVE  ContentsInv'
<1>1. ASSUME UNCHANGED <<ly, returned, handles>>, threw' \in BOOLEAN PROVE ContentsInv'
  BY <1>1 DEF ContentsInv, Answered
<1>2. ASSUME NEW o \in Objects, NEW options \in OptionLists,
             Construct(o, options) PROVE ContentsInv'
  BY <1>2, MadeContents, ContextAssumption DEF Construct
<1>3. ASSUME NEW o \in Objects, ConstructFails(o) PROVE ContentsInv'
  BY <1>1, <1>3 DEF ConstructFails
<1>4. ASSUME NEW o \in Objects, Destruct(o) PROVE ContentsInv'
  BY <1>1, <1>4 DEF Destruct, ContentsInv
<1>5. ASSUME NEW o \in Objects, NEW i \in raw \union {0}, Wrap(o, i) PROVE ContentsInv'
  BY <1>1, <1>5 DEF Wrap
<1>6. ASSUME NEW o \in Objects, NEW p \in Paths, addSearchPath(o, p) PROVE ContentsInv'
  BY <1>6, AddSearchPathContents
<1>7. ASSUME NEW o \in Objects, NEW m \in Modules, loadModuleInContext(o, m)
      PROVE  ContentsInv'
  BY <1>7, LoadModuleContents
<1>8. ASSUME NEW o \in Objects, NEW m \in Modules, LoadFails(o, m) PROVE ContentsInv'
  BY <1>1, <1>8 DEF LoadFails
<1>9. ASSUME NEW o \in Objects, NEW n \in Names, NEW h \in Handles,
             GetLoadedModuleByName(o, n, h)
      PROVE  ContentsInv'
  BY <1>9, LookupContents
<1>10. CASE MakeRaw
  <2>1. threw' \in BOOLEAN
    BY <1>10 DEF MakeRaw, ContentsInv
  <2>2. QED
    BY <1>10, <2>1, MadeContents DEF MakeRaw
<1>11. CASE UNCHANGED vars
  BY <1>1, <1>11 DEF vars, ContentsInv
<1>12. QED
  BY <1>2, <1>3, <1>4, <1>5, <1>6, <1>7, <1>8, <1>9, <1>10, <1>11 DEF Next

LEMMA ContentsInvariant == Spec => [](OwnInv /\ ContentsInv)
<1>1. Init => OwnInv /\ ContentsInv
  BY InitOwnInv, InitContents
<1>2. OwnInv /\ ContentsInv /\ [Next]_vars => (OwnInv /\ ContentsInv)'
  BY StepOwnInv, StepContents
<1>3. QED
  BY <1>1, <1>2, PTL DEF Spec

\* What the objects, the contexts and the answers are made of, and that an
\* object never has a context that is not there or is destroyed.
THEOREM ContextTypes == Spec => []TypeOK
<1>1. OwnInv /\ ContentsInv => TypeOK
  <2>1. ASSUME OwnInv, NEW o \in Objects, objects[o] # None
        PROVE  objects[o] \in Object /\ objects[o].ctx_ \in {0} \union Alive
    BY <2>1 DEF OwnInv, Owns
  <2>2. QED
    BY <2>1 DEF OwnInv, ContentsInv, TypeOK
<1>2. QED
  BY <1>1, ContentsInvariant, PTL

\* For any modules and imports, and however libyang orders what a load brings
\* in: the answer to a lookup is the answer to that name as long as the context
\* exists (YangContext.cpp:44-57).
THEOREM LookupsStay == Spec => []LookupIsStable
<1>1. OwnInv /\ ContentsInv => LookupIsStable
  BY DEF ContentsInv, Answered, LookupIsStable
<1>2. QED
  BY <1>1, ContentsInvariant, PTL

\* For any modules and imports: what loadModuleInContext returned is found under
\* its name, unless an import-only revision stands before it
\* (YangContext.cpp:33-57).
THEOREM LoadsAreFound == Spec => []LoadedIsFound
<1>1. ASSUME OwnInv, ContentsInv PROVE LoadedIsFound
  <2>1. SUFFICES ASSUME NEW i \in Alive, NEW m \in Modules, <<i, m>> \in returned
                 PROVE  LET found == FirstOfName(ly[i], NameOf[m]) IN
                        /\ found # NULL
                        /\ found # m => found \notin ly[i].implemented
    BY DEF LoadedIsFound
  <2>2. i \in DOMAIN ly /\ IsLy(ly[i]) /\ Revisions(ly[i]) /\ m \in ly[i].implemented
    BY <1>1, <2>1 DEF ContentsInv, Alive
  <2>3. ly[i].modules \in Seq(Modules) /\ m \in Range(ly[i].modules)
    BY <2>2 DEF IsLy
  <2>4. Hits(ly[i], NameOf[m]) # {}
    BY <2>3 DEF Hits, Range
  <2>5. PICK k \in Hits(ly[i], NameOf[m]) :
          FirstOfName(ly[i], NameOf[m]) = ly[i].modules[k]
    BY <2>3, <2>4, FirstHit
  <2>6. ly[i].modules[k] \in Modules /\ NameOf[ly[i].modules[k]] = NameOf[m]
    BY <2>3 DEF Hits
  <2>7. QED
    BY <2>2, <2>5, <2>6, ContextAssumption DEF Revisions
<1>2. QED
  BY <1>1, ContentsInvariant, PTL

=============================================================================
