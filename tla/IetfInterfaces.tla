--------------------------- MODULE IetfInterfaces ---------------------------
(***************************************************************************)
(* class IetfInterfaces: the vector of interfaces, its serialization into  *)
(* a libyang tree, one lyd_new_path call at a time, and deserialization.   *)
(* Every call of serialize but the first ignores its result, so a call     *)
(* that fails leaves its node out and the next one is made.                *)
(***************************************************************************)
EXTENDS IetfInterfacesObject

CONSTANTS
  Interfaces, \* the interfaces callers add, a set of Interface
  Documents,  \* the trees parseXml can return
  Resolvable, \* sets of prefixes, one of which libyang can resolve
  MaxIfs,     \* bound on ifs_
  MaxFaults   \* bound on lyd_new_path calls that run out of memory

IsTree(t) ==
  /\ DOMAIN t = {"top", "nodes"}
  /\ t.top \in {"interfaces", "other"}
  /\ t.top = "interfaces" => IsInterfacesTree(t.nodes)

ASSUME InterfacesAssumption ==
  /\ Interfaces \subseteq Interface
  /\ \A t \in Documents : IsTree(t)
  /\ MaxIfs \in Nat
  /\ MaxFaults \in Nat

-----------------------------------------------------------------------------
VARIABLES
  resolves, \* the prefixes in paths and values that libyang resolves
  ifs_,     \* the model object's vector
  pc,       \* "idle", or "serializing" between two lyd_new_path calls
  calls,    \* the calls serialize has still to make
  tree,     \* the tree the program has, [top, nodes], or None
  source,   \* the ifs_ that tree was serialized from, or None
  exact,    \* no call for tree ran out of memory
  back,     \* the vector deserialize made of tree, or None
  rejected, \* deserialize threw for tree
  faults    \* allocation failures so far

vars == <<resolves, ifs_, pc, calls, tree, source, exact, back, rejected, faults>>

TypeOK ==
  /\ resolves \in Resolvable
  /\ ifs_ \in Seq(Interface)
  /\ pc \in {"idle", "serializing"}
  /\ \A c \in Range(calls) : DOMAIN c = {"path", "value", "needs"}
  /\ tree = None \/ IsTree(tree)
  /\ source = None \/ source \in Seq(Interface)
  /\ back = None \/ back \in Seq(Interface)
  /\ exact \in BOOLEAN /\ rejected \in BOOLEAN
  /\ faults \in 0..MaxFaults

Init ==
  /\ resolves \in Resolvable
  /\ ifs_ = <<>> /\ pc = "idle" /\ calls = <<>> /\ tree = None
  /\ source = None /\ exact = TRUE /\ back = None /\ rejected = FALSE
  /\ faults = 0

\* The vector

addInterface(i) ==
  /\ pc = "idle" /\ Len(ifs_) < MaxIfs
  /\ ifs_' = Append(ifs_, i)
  /\ UNCHANGED <<resolves, pc, calls, tree, source, exact, back, rejected, faults>>

\* Erases the first interface of that name.
removeInterfaceByName(name) ==
  /\ pc = "idle"
  /\ \E k \in DOMAIN ifs_ :
       /\ ifs_[k].name = name
       /\ \A j \in 1..(k - 1) : ifs_[j].name # name
       /\ ifs_' = RemoveAt(ifs_, k)
  /\ UNCHANGED <<resolves, pc, calls, tree, source, exact, back, rejected, faults>>

\* The program goes on with the model that deserialize returned.
Adopt ==
  /\ pc = "idle" /\ back # None
  /\ ifs_' = back
  /\ UNCHANGED <<resolves, pc, calls, tree, source, exact, back, rejected, faults>>

\* serialize

NewTree(t, from) ==
  /\ tree' = t /\ source' = from
  /\ exact' = TRUE /\ back' = None /\ rejected' = FALSE

\* The first lyd_new_path makes the root.
SerializeRoot ==
  /\ pc = "idle"
  /\ pc' = "serializing"
  /\ NewTree([top |-> "interfaces", nodes |-> <<>>], ifs_)
  /\ calls' = FlattenSeq([k \in DOMAIN ifs_ |-> Calls(ifs_[k])])
  /\ UNCHANGED <<resolves, ifs_, faults>>

\* It is the only one whose failure is noticed: serialize throws.
RootFails ==
  /\ pc = "idle" /\ faults < MaxFaults
  /\ faults' = faults + 1
  /\ NewTree(None, None)
  /\ UNCHANGED <<resolves, ifs_, pc, calls>>

\* Mutant: the first call that fails is the last one made.
StopAtFailure ==
  /\ pc = "serializing" /\ calls # <<>>
  /\ IF PathFails(tree.nodes, Head(calls), resolves)
       THEN calls' = <<>> /\ UNCHANGED tree
       ELSE /\ calls' = Tail(calls)
            /\ tree' = [tree EXCEPT !.nodes = lyd_new_path(@, Head(calls))]
  /\ UNCHANGED <<resolves, ifs_, pc, source, exact, back, rejected, faults>>

NewPath ==
  /\ pc = "serializing" /\ calls # <<>>
  /\ calls' = Tail(calls)
  /\ tree' = [tree EXCEPT !.nodes =
                IF PathFails(@, Head(calls), resolves) THEN @ ELSE lyd_new_path(@, Head(calls))]
  /\ UNCHANGED <<resolves, ifs_, pc, source, exact, back, rejected, faults>>

NewPathOutOfMemory ==
  /\ pc = "serializing" /\ calls # <<>> /\ faults < MaxFaults
  /\ faults' = faults + 1
  /\ calls' = Tail(calls)
  /\ exact' = FALSE
  /\ UNCHANGED <<resolves, ifs_, pc, tree, source, back, rejected>>

ReturnRoot ==
  /\ pc = "serializing" /\ calls = <<>>
  /\ pc' = "idle"
  /\ UNCHANGED <<resolves, ifs_, calls, tree, source, exact, back, rejected, faults>>

\* YangModel::parseXml returns a document somebody else wrote.
ParseXml(t) ==
  /\ pc = "idle"
  /\ NewTree(t, None)
  /\ UNCHANGED <<resolves, ifs_, pc, calls, faults>>

\* deserialize

\* It throws for a tree that is not `interfaces'.
Readable(t) == t.top = "interfaces" /\ NamedEntries(t.nodes)

Deserialize ==
  /\ pc = "idle" /\ tree # None
  /\ IF Readable(tree)
       THEN back' = ReadInterfaces(tree.nodes) /\ rejected' = FALSE
       ELSE back' = None /\ rejected' = TRUE
  /\ UNCHANGED <<resolves, ifs_, pc, calls, tree, source, exact, faults>>

Next ==
  \/ \E i \in Interfaces : addInterface(i)
  \/ \E n \in Names : removeInterfaceByName(n)
  \/ \E t \in Documents : ParseXml(t)
  \/ Adopt \/ SerializeRoot \/ RootFails \/ NewPath \/ NewPathOutOfMemory
  \/ ReturnRoot \/ Deserialize

Spec == Init /\ [][Next]_vars

-----------------------------------------------------------------------------
(* Properties *)

\* libyang takes every call that serialize makes for the interface.
Writable(i) ==
  \A c \in Range(Calls(i)) :
    /\ c.needs \subseteq resolves
    /\ <<Last(c.path)[1], c.value>> \notin Refused
    /\ \A s \in Range(c.path) : \A key \in Range(KeyLeaves(s)) : key[2] \notin Unquotable

\* The fields serialize is there for.  libyang may sort lists, so that order
\* is not compared.
Configuration(i) ==
  LET Unordered(ip) == IF ip = None THEN None
                       ELSE [address |-> Range(ip.address), mtu |-> ip.mtu]
  IN [i EXCEPT !.oper_status = None, !.ipv4 = Unordered(@), !.ipv6 = Unordered(@)]

SameConfiguration(m, n) ==
  /\ Len(m) = Len(n)
  /\ {Configuration(i) : i \in Range(m)} = {Configuration(i) : i \in Range(n)}

\* Whatever the vector held (the same name twice, an address twice) and
\* whichever calls failed, what is read back is a normal model: a second
\* round has nothing left to merge or to drop.
BackIsNormal == back # None => Normal(back)

\* A normal model that libyang can write comes back complete through the
\* two functions, which are written against each other field by field
\* (IetfInterfaces.cpp:42-133, 160-293).
NormalSurvives ==
  /\ source # None /\ pc = "idle" /\ exact
  /\ Normal(source) /\ "" \notin NamesOf(source)
  /\ \A i \in Range(source) : Writable(i)
  => /\ ~rejected
     /\ back # None => SameConfiguration(back, source)

\* An ip container that was read has nothing but addresses, each with its own
\* prefix length or without one, and an mtu of the containers given.
TakenFrom(ip, given) ==
  /\ \A a \in Range(ip.address) :
       \E g \in given \ {None} : \E x \in Range(g.address) :
         x.ip = a.ip /\ a.plen \in {None, x.plen}
  /\ ip.mtu = None \/ \E g \in given \ {None} : g.mtu = ip.mtu

\* However calls fail and duplicates merge, no interface comes back with a
\* value that no interface of its name had, nor an address with a prefix length
\* that was written for another ip or in the other container.  A value may be
\* missing, and its absence then be read: 192.0.2.1/24 comes back as 192.0.2.1
\* if the call of IetfInterfaces.cpp:91 fails.
NothingInvented ==
  source # None /\ back # None =>
    \A b \in Range(back) :
      LET same == {i \in Range(source) : i.name = b.name} IN
      /\ same # {}
      /\ b.description = None \/ \E i \in same : b.description = i.description
      /\ b.type = None \/ \E i \in same : b.type = i.type
      /\ b.enabled \/ \E i \in same : ~i.enabled
      /\ b.oper_status = None
      /\ b.ipv4 = None \/ TakenFrom(b.ipv4, {i.ipv4 : i \in same})
      /\ b.ipv6 = None \/ TakenFrom(b.ipv6, {i.ipv6 : i \in same})

\* If no call ran out of memory, exactly the interfaces whose name a predicate
\* can hold come back, each name once; an empty name makes deserialize refuse
\* the tree that serialize returned.
NamesComeBack ==
  source # None /\ exact =>
    /\ rejected => "" \in NamesOf(source)
    /\ back # None => NamesOf(back) = NamesOf(source) \ Unquotable

\* The enabled leaf is written only for false, and true is what its absence
\* means (IetfInterfaces.cpp:58-61, 185-187).  If no call ran out of memory, no
\* other failing call and no second interface of the name turns an interface
\* on that was added as disabled, or off one that was not.
DisabledStaysDisabled ==
  source # None /\ exact /\ back # None =>
    \A b \in Range(back) :
      b.enabled <=> \A i \in Range(source) : i.name = b.name => i.enabled

-----------------------------------------------------------------------------
(* What tests and comments say and the code does not do *)

\* "IetfInterfaces serialize/deserialize roundtrip"
\* (TestIetfInterfaces.cpp:23): the models of that test, with different names,
\* types of iana-if-type and addresses, come back.
RoundTrips ==
  /\ source # None /\ exact /\ back # None
  /\ Normal(source) /\ NamesOf(source) \intersect Unquotable = {}
  => SameConfiguration(back, source)

=============================================================================
