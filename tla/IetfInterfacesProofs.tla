------------------------ MODULE IetfInterfacesProofs ------------------------
(***************************************************************************)
(* The safety properties of IetfInterfaces for any interfaces, documents   *)
(* and bounds.                                                             *)
(***************************************************************************)
EXTENDS IetfInterfaces, IetfInterfacesObjectProofs

-----------------------------------------------------------------------------
(* The inductive invariant *)

\* Where serialize and deserialize are, and that back is what tree gives.
PhaseInv ==
  /\ pc = "idle" => calls = <<>>
  /\ pc = "serializing" => back = None /\ ~rejected
  /\ back # None => tree # None /\ Readable(tree) /\ back = ReadInterfaces(tree.nodes)
  /\ rejected => tree # None /\ ~Readable(tree)

\* tree is made from source.
Serialized == pc = "serializing" \/ source # None

\* serialize makes only calls of its interfaces, ...
CallsInv ==
  /\ IsSeq(calls)
  /\ Serialized =>
       /\ source \in Seq(Interface)
       /\ IsTree(tree) /\ tree.top = "interfaces"
       /\ \A c \in Range(calls) : \E i \in Range(source) : c \in Range(Calls(i))

\* ... so that each node belongs to one of them, ...
MadeInv ==
  Serialized =>
    \A n \in Range(tree.nodes) :
      \E i \in Range(source) : i.name \notin Unquotable /\ Made(n, i)

\* ... and, if none runs out of memory, each of them is still to be made, has
\* its node in the tree, or was one that libyang refuses.
CompleteInv ==
  Serialized /\ exact =>
    \A i \in Range(source) : \A c \in Range(Calls(i)) :
      c \in Range(calls) \/ HasNode(tree.nodes, c.path) \/ Rejects(c, resolves)

IInv == TypeOK /\ PhaseInv /\ CallsInv /\ MadeInv /\ CompleteInv

-----------------------------------------------------------------------------
(* Init and the steps *)

LEMMA InitIInv == Init => IInv
<1>. SUFFICES ASSUME Init PROVE IInv
  OBVIOUS
<1>1. IsSeq(calls) /\ Range(calls) = {}
  BY NoElement DEF Init
<1>2. TypeOK
  <2>1. ifs_ \in Seq(Interface)
    BY DEF Init
  <2>2. faults \in 0..MaxFaults
    BY InterfacesAssumption DEF Init
  <2>3. \A c \in Range(calls) : DOMAIN c = {"path", "value", "needs"}
    BY <1>1
  <2>4. QED
    BY <2>1, <2>2, <2>3 DEF Init, TypeOK
<1>3. PhaseInv
  BY DEF Init, PhaseInv
<1>4. ~Serialized
  BY DEF Init, Serialized
<1>5. QED
  BY <1>1, <1>2, <1>3, <1>4 DEF IInv, CallsInv, MadeInv, CompleteInv

LEMMA VectorStep ==
  ASSUME IInv, ifs_' \in Seq(Interface),
         UNCHANGED <<resolves, pc, calls, tree, source, exact, back, rejected, faults>>
  PROVE  IInv'
<1>1. TypeOK'
  BY DEF IInv, TypeOK
<1>2. PhaseInv'
  BY DEF IInv, PhaseInv
<1>3. CallsInv' /\ MadeInv' /\ CompleteInv'
  BY DEF IInv, CallsInv, MadeInv, CompleteInv, Serialized
<1>4. QED
  BY <1>1, <1>2, <1>3 DEF IInv

LEMMA addInterfaceStep ==
  ASSUME IInv, NEW i \in Interfaces, addInterface(i)
  PROVE  IInv'
<1>1. i \in Interface /\ ifs_ \in Seq(Interface)
  BY InterfacesAssumption DEF IInv, TypeOK
<1>2. ifs_' \in Seq(Interface)
  BY <1>1 DEF addInterface
<1>3. QED
  BY <1>2, VectorStep DEF addInterface

LEMMA removeStep ==
  ASSUME IInv, NEW n \in Names, removeInterfaceByName(n)
  PROVE  IInv'
<1>1. ifs_ \in Seq(Interface)
  BY DEF IInv, TypeOK
<1>2. PICK k \in DOMAIN ifs_ : ifs_' = RemoveAt(ifs_, k)
  BY DEF removeInterfaceByName
<1>3. RemoveAt(ifs_, k) \in Seq(Interface)
  <2>1. k \in 1..Len(ifs_) /\ Len(ifs_) \in Nat
    BY <1>1
  <2>2. SubSeq(ifs_, 1, k - 1) \in Seq(Interface)
    BY <1>1, <2>1
  <2>3. SubSeq(ifs_, k + 1, Len(ifs_)) \in Seq(Interface)
    BY <1>1, <2>1
  <2>4. QED
    BY <2>2, <2>3 DEF RemoveAt
<1>4. QED
  BY <1>2, <1>3, VectorStep DEF removeInterfaceByName

LEMMA AdoptStep ==
  ASSUME IInv, Adopt
  PROVE  IInv'
<1>1. ifs_' \in Seq(Interface)
  BY DEF IInv, TypeOK, Adopt
<1>2. QED
  BY <1>1, VectorStep DEF Adopt

LEMMA SerializeRootStep ==
  ASSUME IInv, SerializeRoot
  PROVE  IInv'
<1>. DEFINE ss == [k \in DOMAIN ifs_ |-> Calls(ifs_[k])]
            n == Len(ifs_)
            t == [top |-> "interfaces", nodes |-> <<>>]
<1>1. /\ resolves' = resolves /\ ifs_' = ifs_ /\ faults' = faults /\ pc' = "serializing"
      /\ tree' = t /\ source' = ifs_ /\ exact' = TRUE /\ back' = None /\ rejected' = FALSE
      /\ calls' = FlattenSeq(ss)
  BY DEF SerializeRoot, NewTree
<1>2. ifs_ \in Seq(Interface) /\ n \in Nat /\ DOMAIN ifs_ = 1..n
      /\ Range(ifs_) = {ifs_[k] : k \in 1..n}
  <2>1. ifs_ \in Seq(Interface)
    BY DEF IInv, TypeOK
  <2>2. IsSeq(ifs_)
    BY <2>1, SequenceOver
  <2>3. QED
    BY <2>1, <2>2, SeqFacts
<1>3. IsSeq(ss) /\ DOMAIN ss = 1..n
  <2>1. DOMAIN ss = 1..n /\ ss = [k \in 1..n |-> ss[k]]
    BY <1>2
  <2>. HIDE DEF ss
  <2>2. QED
    BY <1>2, <2>1, FunctionIsSeq
<1>4. \A k \in 1..n : ss[k] = Calls(ifs_[k]) /\ ifs_[k] \in Interface /\ ifs_[k] \in Range(ifs_)
  BY <1>2
<1>. HIDE DEF ss, n
<1>5. IsSeq(FlattenSeq(ss)) /\ Range(FlattenSeq(ss)) = UNION {Range(ss[k]) : k \in 1..n}
  <2>1. \A k \in 1..n : IsSeq(ss[k])
    BY <1>4, TheCalls
  <2>2. QED
    BY <1>3, <2>1, Flattened
<1>6. \A c \in Range(calls') : \E i \in Range(ifs_) : c \in Range(Calls(i))
  <2>1. ASSUME NEW c \in Range(FlattenSeq(ss)) PROVE \E i \in Range(ifs_) : c \in Range(Calls(i))
    <3>1. PICK k \in 1..n : c \in Range(ss[k])
      BY <1>5
    <3>2. QED
      BY <1>4, <3>1
  <2>2. QED
    BY <1>1, <2>1
<1>7. \A i \in Range(ifs_) : Range(Calls(i)) \subseteq Range(calls')
  <2>1. ASSUME NEW k \in 1..n PROVE Range(Calls(ifs_[k])) \subseteq Range(FlattenSeq(ss))
    BY <1>4, <1>5
  <2>2. QED
    BY <1>1, <1>2, <2>1
<1>8. IsTree(t) /\ Range(t.nodes) = {}
  <2>1. IsSeq(<<>>) /\ Range(<<>>) = {} /\ DOMAIN <<>> = {}
    BY NoElement
  <2>2. IsInterfacesTree(<<>>)
    BY <2>1 DEF IsInterfacesTree, WellFormed, DistinctPaths, IsSeq
  <2>3. DOMAIN t = {"top", "nodes"} /\ t.top = "interfaces" /\ t.nodes = <<>>
    OBVIOUS
  <2>. HIDE DEF t
  <2>4. QED
    BY <2>1, <2>2, <2>3 DEF IsTree
<1>9. t.top = "interfaces"
  OBVIOUS
<1>. HIDE DEF t
<1>10. TypeOK'
  <2>1. \A c \in Range(calls') : DOMAIN c = {"path", "value", "needs"}
    <3>1. Range(ifs_) \subseteq Interface
      BY <1>2, <1>4
    <3>2. QED
      BY <1>6, <3>1, CallNodes
  <2>2. QED
    BY <1>1, <1>2, <1>8, <2>1 DEF IInv, TypeOK
<1>11. PhaseInv'
  BY <1>1 DEF PhaseInv
<1>12. CallsInv' /\ MadeInv' /\ CompleteInv'
  BY <1>1, <1>2, <1>5, <1>6, <1>7, <1>8, <1>9
     DEF CallsInv, MadeInv, CompleteInv, Serialized
<1>13. QED
  BY <1>10, <1>11, <1>12 DEF IInv

LEMMA RootFailsStep ==
  ASSUME IInv, RootFails
  PROVE  IInv'
<1>1. /\ resolves' = resolves /\ ifs_' = ifs_ /\ pc' = pc /\ calls' = calls /\ pc = "idle"
      /\ tree' = None /\ source' = None /\ exact' = TRUE /\ back' = None /\ rejected' = FALSE
      /\ faults < MaxFaults /\ faults' = faults + 1
  BY DEF RootFails, NewTree
<1>2. TypeOK'
  <2>1. faults' \in 0..MaxFaults
    BY <1>1, InterfacesAssumption DEF IInv, TypeOK
  <2>2. QED
    BY <1>1, <2>1 DEF IInv, TypeOK
<1>3. PhaseInv'
  BY <1>1 DEF IInv, PhaseInv
<1>4. ~Serialized'
  BY <1>1 DEF Serialized
<1>5. IsSeq(calls')
  BY <1>1 DEF IInv, CallsInv
<1>6. QED
  BY <1>2, <1>3, <1>4, <1>5 DEF IInv, CallsInv, MadeInv, CompleteInv

LEMMA ParseXmlStep ==
  ASSUME IInv, NEW t \in Documents, ParseXml(t)
  PROVE  IInv'
<1>1. /\ resolves' = resolves /\ ifs_' = ifs_ /\ pc' = pc /\ calls' = calls /\ pc = "idle"
      /\ tree' = t /\ source' = None /\ exact' = TRUE /\ back' = None /\ rejected' = FALSE
      /\ faults' = faults
  BY DEF ParseXml, NewTree
<1>2. TypeOK'
  BY <1>1, InterfacesAssumption DEF IInv, TypeOK
<1>3. PhaseInv'
  BY <1>1 DEF IInv, PhaseInv
<1>4. ~Serialized'
  BY <1>1 DEF Serialized
<1>5. IsSeq(calls')
  BY <1>1 DEF IInv, CallsInv
<1>6. QED
  BY <1>2, <1>3, <1>4, <1>5 DEF IInv, CallsInv, MadeInv, CompleteInv

LEMMA SerializingFacts ==
  ASSUME IInv, pc = "serializing", calls # <<>>
  PROVE  /\ Serialized /\ source \in Seq(Interface) /\ Range(source) \subseteq Interface
         /\ IsTree(tree) /\ tree.top = "interfaces" /\ IsInterfacesTree(tree.nodes)
         /\ back = None /\ ~rejected
         /\ Head(calls) \in Range(calls) /\ IsSeq(calls) /\ IsSeq(Tail(calls))
         /\ Range(calls) = {Head(calls)} \union Range(Tail(calls))
         /\ \A c \in Range(calls) : \E i \in Range(source) : c \in Range(Calls(i))
<1>1. Serialized /\ back = None /\ ~rejected
  BY DEF Serialized, IInv, PhaseInv
<1>2. /\ source \in Seq(Interface) /\ IsTree(tree) /\ tree.top = "interfaces" /\ IsSeq(calls)
      /\ \A c \in Range(calls) : \E i \in Range(source) : c \in Range(Calls(i))
  BY <1>1 DEF IInv, CallsInv
<1>3. Range(source) \subseteq Interface
  BY <1>2, SequenceOver
<1>4. IsInterfacesTree(tree.nodes)
  BY <1>2 DEF IsTree
<1>5. /\ Head(calls) \in Range(calls) /\ IsSeq(Tail(calls))
      /\ Range(calls) = {Head(calls)} \union Range(Tail(calls))
  BY <1>2, HeadAndTail
<1>6. QED
  BY <1>1, <1>2, <1>3, <1>4, <1>5

\* What the call for an interface does to a tree.
LEMMA CallStep ==
  ASSUME NEW nodes, IsInterfacesTree(nodes), NEW i \in Interface, NEW c \in Range(Calls(i)),
         ~Rejects(c, resolves)
  PROVE  LET new == lyd_new_path(nodes, c) IN
         /\ IsInterfacesTree(new)
         /\ Range(nodes) \subseteq Range(new)
         /\ HasNode(new, c.path)
         /\ i.name \notin Unquotable
         /\ \A n \in Range(new) : n \in Range(nodes) \/ Made(n, i)
<1>. DEFINE new == lyd_new_path(nodes, c)
<1>1. IsPath(c.path) /\ \A n \in NodesOf(c) : Made(n, i)
  BY CallNodes
<1>2. WellFormed(nodes) /\ IsSeq(nodes) /\ \A n \in Range(nodes) : OfSchema(n)
  BY TreeFacts
<1>3. WellFormed(new) /\ HasNode(new, c.path)
  BY <1>1, <1>2, NewPathKeeps
<1>4. Range(nodes) \subseteq Range(new) /\ Range(new) \subseteq Range(nodes) \union NodesOf(c)
  BY <1>1, <1>2, NewPathAdds
<1>. HIDE DEF new
<1>5. \A n \in Range(new) : n \in Range(nodes) \/ Made(n, i)
  BY <1>1, <1>4
<1>6. \A n \in Range(new) : OfSchema(n)
  BY <1>2, <1>5, MadeOfSchema
<1>7. i.name \notin Unquotable
  BY QuotableName
<1>8. QED
  BY <1>3, <1>4, <1>5, <1>6, <1>7 DEF IsInterfacesTree, new

LEMMA NewPathStep ==
  ASSUME IInv, NewPath
  PROVE  IInv'
<1>. DEFINE c == Head(calls)
            fails == PathFails(tree.nodes, c, resolves)
            new == IF fails THEN tree.nodes ELSE lyd_new_path(tree.nodes, c)
<1>1. /\ pc = "serializing" /\ calls # <<>> /\ calls' = Tail(calls)
      /\ tree' = [tree EXCEPT !.nodes = new]
      /\ resolves' = resolves /\ ifs_' = ifs_ /\ pc' = pc /\ source' = source
      /\ exact' = exact /\ back' = back /\ rejected' = rejected /\ faults' = faults
  BY DEF NewPath
<1>2. /\ Serialized /\ source \in Seq(Interface) /\ Range(source) \subseteq Interface
      /\ IsTree(tree) /\ tree.top = "interfaces" /\ IsInterfacesTree(tree.nodes)
      /\ back = None /\ ~rejected
      /\ c \in Range(calls) /\ IsSeq(calls) /\ IsSeq(Tail(calls))
      /\ Range(calls) = {c} \union Range(Tail(calls))
      /\ \A x \in Range(calls) : \E i \in Range(source) : x \in Range(Calls(i))
  BY <1>1, SerializingFacts
<1>3. PICK i \in Range(source) : c \in Range(Calls(i))
  BY <1>2
<1>4. /\ IsInterfacesTree(new) /\ Range(tree.nodes) \subseteq Range(new)
      /\ HasNode(new, c.path) \/ Rejects(c, resolves)
      /\ \A n \in Range(new) : n \in Range(tree.nodes)
                               \/ (i.name \notin Unquotable /\ Made(n, i))
  <2>1. CASE fails
    BY <1>2, <2>1 DEF PathFails
  <2>2. CASE ~fails
    <3>1. i \in Interface /\ ~Rejects(c, resolves) /\ new = lyd_new_path(tree.nodes, c)
      BY <1>2, <2>2 DEF PathFails
    <3>. HIDE DEF c, new, fails
    <3>2. QED
      BY <1>2, <1>3, <3>1, CallStep
  <2>3. QED
    BY <2>1, <2>2
<1>. HIDE DEF c, new, fails
<1>5. tree'.nodes = new /\ tree'.top = "interfaces" /\ IsTree(tree')
  <2>1. DOMAIN tree = {"top", "nodes"}
    BY <1>2 DEF IsTree
  <2>2. tree'.nodes = new /\ tree'.top = "interfaces" /\ DOMAIN tree' = {"top", "nodes"}
    BY <1>1, <1>2, <2>1
  <2>3. QED
    BY <1>4, <2>2 DEF IsTree
<1>6. TypeOK'
  <2>1. \A x \in Range(calls') : DOMAIN x = {"path", "value", "needs"}
    BY <1>1, <1>2 DEF IInv, TypeOK
  <2>2. QED
    BY <1>1, <1>5, <2>1 DEF IInv, TypeOK
<1>7. PhaseInv'
  BY <1>1, <1>2 DEF PhaseInv
<1>8. CallsInv'
  <2>1. \A x \in Range(calls') : \E j \in Range(source') : x \in Range(Calls(j))
    BY <1>1, <1>2
  <2>2. QED
    BY <1>1, <1>2, <1>5, <2>1 DEF CallsInv
<1>9. MadeInv'
  <2>1. \A n \in Range(tree.nodes) : \E j \in Range(source) : j.name \notin Unquotable /\ Made(n, j)
    BY <1>2 DEF IInv, MadeInv
  <2>2. \A n \in Range(new) : \E j \in Range(source) : j.name \notin Unquotable /\ Made(n, j)
    BY <1>4, <2>1
  <2>3. QED
    BY <1>1, <1>5, <2>2 DEF MadeInv
<1>10. CompleteInv'
  <2>1. ASSUME exact, NEW j \in Range(source), NEW x \in Range(Calls(j))
        PROVE  x \in Range(calls') \/ HasNode(new, x.path) \/ Rejects(x, resolves)
    <3>1. x \in Range(calls) \/ HasNode(tree.nodes, x.path) \/ Rejects(x, resolves)
      BY <1>2, <2>1 DEF IInv, CompleteInv
    <3>2. HasNode(tree.nodes, x.path) => HasNode(new, x.path)
      BY <1>4 DEF HasNode
    <3>3. QED
      BY <1>1, <1>2, <1>4, <3>1, <3>2
  <2>2. QED
    BY <1>1, <1>5, <2>1 DEF CompleteInv
<1>11. QED
  BY <1>6, <1>7, <1>8, <1>9, <1>10 DEF IInv

LEMMA NewPathOutOfMemoryStep ==
  ASSUME IInv, NewPathOutOfMemory
  PROVE  IInv'
<1>1. /\ pc = "serializing" /\ calls # <<>> /\ calls' = Tail(calls) /\ tree' = tree
      /\ resolves' = resolves /\ ifs_' = ifs_ /\ pc' = pc /\ source' = source
      /\ exact' = FALSE /\ back' = back /\ rejected' = rejected
      /\ faults < MaxFaults /\ faults' = faults + 1
  BY DEF NewPathOutOfMemory
<1>2. /\ Serialized /\ source \in Seq(Interface)
      /\ IsTree(tree) /\ tree.top = "interfaces"
      /\ back = None /\ ~rejected /\ IsSeq(Tail(calls))
      /\ Range(Tail(calls)) \subseteq Range(calls)
      /\ \A x \in Range(calls) : \E i \in Range(source) : x \in Range(Calls(i))
  BY <1>1, SerializingFacts
<1>3. TypeOK'
  <2>1. \A x \in Range(calls') : DOMAIN x = {"path", "value", "needs"}
    BY <1>1, <1>2 DEF IInv, TypeOK
  <2>2. faults' \in 0..MaxFaults
    BY <1>1, InterfacesAssumption DEF IInv, TypeOK
  <2>3. QED
    BY <1>1, <2>1, <2>2 DEF IInv, TypeOK
<1>4. PhaseInv'
  BY <1>1, <1>2 DEF PhaseInv
<1>5. CallsInv'
  BY <1>1, <1>2 DEF CallsInv
<1>6. MadeInv'
  BY <1>1, <1>2 DEF IInv, MadeInv
<1>7. CompleteInv'
  BY <1>1 DEF CompleteInv
<1>8. QED
  BY <1>3, <1>4, <1>5, <1>6, <1>7 DEF IInv

LEMMA ReturnRootStep ==
  ASSUME IInv, ReturnRoot
  PROVE  IInv'
<1>1. /\ pc = "serializing" /\ calls = <<>> /\ pc' = "idle"
      /\ UNCHANGED <<resolves, ifs_, calls, tree, source, exact, back, rejected, faults>>
  BY DEF ReturnRoot
<1>2. Serialized
  BY <1>1 DEF Serialized
<1>3. TypeOK' /\ PhaseInv'
  BY <1>1 DEF IInv, TypeOK, PhaseInv
<1>4. CallsInv' /\ MadeInv' /\ CompleteInv'
  BY <1>1, <1>2 DEF IInv, CallsInv, MadeInv, CompleteInv
<1>5. QED
  BY <1>3, <1>4 DEF IInv

LEMMA DeserializeStep ==
  ASSUME IInv, Deserialize
  PROVE  IInv'
<1>1. /\ pc = "idle" /\ tree # None
      /\ UNCHANGED <<resolves, ifs_, pc, calls, tree, source, exact, faults>>
      /\ \/ Readable(tree) /\ back' = ReadInterfaces(tree.nodes) /\ rejected' = FALSE
         \/ ~Readable(tree) /\ back' = None /\ rejected' = TRUE
  BY DEF Deserialize
<1>2. TypeOK'
  <2>1. Readable(tree) => ReadInterfaces(tree.nodes) \in Seq(Interface)
    <3>1. Readable(tree) => IsInterfacesTree(tree.nodes)
      BY <1>1 DEF IInv, TypeOK, IsTree, Readable
    <3>2. QED
      BY <3>1, ReadEntries
  <2>2. QED
    BY <1>1, <2>1 DEF IInv, TypeOK
<1>3. PhaseInv'
  BY <1>1 DEF IInv, PhaseInv
<1>4. CallsInv' /\ MadeInv' /\ CompleteInv'
  BY <1>1 DEF IInv, CallsInv, MadeInv, CompleteInv, Serialized
<1>5. QED
  BY <1>2, <1>3, <1>4 DEF IInv

LEMMA StepIInv == IInv /\ [Next]_vars => IInv'
<1>. SUFFICES ASSUME IInv, [Next]_vars PROVE IInv'
  OBVIOUS
<1>1. CASE \E i \in Interfaces : addInterface(i)
  BY <1>1, addInterfaceStep
<1>2. CASE \E n \in Names : removeInterfaceByName(n)
  BY <1>2, removeStep
<1>3. CASE \E t \in Documents : ParseXml(t)
  BY <1>3, ParseXmlStep
<1>4. CASE Adopt
  BY <1>4, AdoptStep
<1>5. CASE SerializeRoot
  BY <1>5, SerializeRootStep
<1>6. CASE RootFails
  BY <1>6, RootFailsStep
<1>7. CASE NewPath
  BY <1>7, NewPathStep
<1>8. CASE NewPathOutOfMemory
  BY <1>8, NewPathOutOfMemoryStep
<1>9. CASE ReturnRoot
  BY <1>9, ReturnRootStep
<1>10. CASE Deserialize
  BY <1>10, DeserializeStep
<1>11. CASE UNCHANGED vars
  <2>1. ifs_' \in Seq(Interface)
    BY <1>11 DEF vars, IInv, TypeOK
  <2>2. QED
    BY <1>11, <2>1, VectorStep DEF vars
<1>12. QED
  BY <1>1, <1>2, <1>3, <1>4, <1>5, <1>6, <1>7, <1>8, <1>9, <1>10, <1>11 DEF Next

LEMMA Invariant == Spec => []IInv
BY InitIInv, StepIInv, PTL DEF Spec

-----------------------------------------------------------------------------
(* What holds of the vector that deserialize made *)

LEMMA BackFacts ==
  ASSUME IInv, source # None, back # None
  PROVE  /\ IsInterfacesTree(tree.nodes) /\ back = ReadInterfaces(tree.nodes)
         /\ source \in Seq(Interface) /\ Range(source) \subseteq Interface
         /\ \A n \in Range(tree.nodes) :
              \E i \in Range(source) : i.name \notin Unquotable /\ Made(n, i)
         /\ exact => \A i \in Range(source) : \A c \in Range(Calls(i)) :
              HasNode(tree.nodes, c.path) \/ Rejects(c, resolves)
<1>1. Serialized /\ pc = "idle" /\ calls = <<>>
  BY DEF IInv, TypeOK, PhaseInv, Serialized
<1>2. source \in Seq(Interface) /\ IsTree(tree) /\ tree.top = "interfaces"
  BY <1>1 DEF IInv, CallsInv
<1>3. Range(source) \subseteq Interface
  BY <1>2, SequenceOver
<1>4. IsInterfacesTree(tree.nodes) /\ back = ReadInterfaces(tree.nodes)
  BY <1>2 DEF IsTree, IInv, PhaseInv
<1>5. Range(calls) = {}
  BY <1>1, NoElement
<1>6. QED
  BY <1>1, <1>2, <1>3, <1>4, <1>5 DEF IInv, MadeInv, CompleteInv

\* The model stays in its types: the vectors hold interfaces, the tree is one
\* that libyang can hold, whichever calls fail (IetfInterfaces.cpp:28-293).
THEOREM Types == Spec => []TypeOK
<1>1. IInv => TypeOK
  BY DEF IInv
<1>2. QED
  BY <1>1, Invariant, PTL

\* Whatever deserialize returns has each name once, each ip of an interface
\* once and no ip container without an address (IetfInterfaces.cpp:136-293).
THEOREM ReadsNormal == Spec => []BackIsNormal
<1>1. IInv => BackIsNormal
  <2>. SUFFICES ASSUME IInv, back # None PROVE Normal(back)
    BY DEF BackIsNormal
  <2>1. IsInterfacesTree(tree.nodes) /\ back = ReadInterfaces(tree.nodes)
    BY DEF IInv, TypeOK, PhaseInv, Readable, IsTree
  <2>2. QED
    BY <2>1, ReadIsNormal
<1>2. QED
  BY <1>1, Invariant, PTL

\* Every address, prefix length and mtu that was read is a node of the tree,
\* which one interface of the name made.
LEMMA ReadIpIsTaken ==
  ASSUME NEW nodes, IsInterfacesTree(nodes), NEW name \in Names, NEW container, NEW given,
         \A n \in Range(nodes) : \E i \in Interface :
           Made(n, i) /\ (i.name = name => IpOf(i, container) \in given),
         ReadIp(nodes, EntryPath(name), container) # None
  PROVE  TakenFrom(ReadIp(nodes, EntryPath(name), container), given)
<1>. DEFINE ip == ReadIp(nodes, EntryPath(name), container)
            entries == EntriesOf(nodes, BoxPath(name, container), "address")
<1>1. /\ ip.mtu = LeafValue(nodes, BoxPath(name, container), "mtu")
      /\ DOMAIN ip.address = DOMAIN entries
      /\ \A k \in DOMAIN ip.address :
           /\ entries[k].path = AddressPath(name, container, ip.address[k].ip)
           /\ ip.address[k].ip \in Ips
           /\ ip.address[k].plen =
                LeafValue(nodes, AddressPath(name, container, ip.address[k].ip),
                          "prefix-length")
  BY ReadIpFacts
<1>2. IsSeq(entries) /\ Range(entries) \subseteq Range(nodes)
  BY TreeFacts, Entries
<1>. HIDE DEF entries, ip
<1>3. ASSUME NEW a \in Range(ip.address)
      PROVE  \E g \in given \ {None} : \E x \in Range(g.address) :
               x.ip = a.ip /\ a.plen \in {None, x.plen}
  <2>. DEFINE base == AddressPath(name, container, a.ip)
  <2>1. PICK k \in DOMAIN ip.address : a = ip.address[k]
    BY DEF Range
  <2>2. /\ a.ip \in Ips /\ a.plen = LeafValue(nodes, base, "prefix-length")
        /\ \E n \in Range(nodes) : n.path = base
    BY <1>1, <1>2, <2>1, SeqFacts
  <2>3. CASE a.plen = None
    <3>1. PICK n \in Range(nodes) : n.path = base
      BY <2>2
    <3>2. PICK i \in Interface : Made(n, i) /\ (i.name = name => IpOf(i, container) \in given)
      OBVIOUS
    <3>3. /\ i.name = name /\ IpOf(i, container) # None
          /\ \E x \in Range(IpOf(i, container).address) : x.ip = a.ip
      BY <3>1, <3>2, AddressOf
    <3>4. QED
      BY <2>3, <3>2, <3>3
  <2>4. CASE a.plen # None
    <3>1. PICK n \in Range(nodes) :
            n.path = Append(base, Segment("prefix-length")) /\ a.plen = n.value
      BY <2>2, <2>4, ReadLeafNode
    <3>2. PICK i \in Interface : Made(n, i) /\ (i.name = name => IpOf(i, container) \in given)
      OBVIOUS
    <3>3. /\ i.name = name /\ IpOf(i, container) # None
          /\ \E x \in Range(IpOf(i, container).address) : x.ip = a.ip /\ n.value = x.plen
      BY <2>2, <3>1, <3>2, AddressLeafOf
    <3>4. QED
      BY <3>1, <3>2, <3>3
  <2>5. QED
    BY <2>3, <2>4
<1>4. ASSUME ip.mtu # None
      PROVE  \E g \in given \ {None} : g.mtu = ip.mtu
  <2>1. PICK n \in Range(nodes) :
          n.path = Append(BoxPath(name, container), Segment("mtu")) /\ ip.mtu = n.value
    BY <1>1, <1>4, ReadLeafNode
  <2>2. PICK i \in Interface : Made(n, i) /\ (i.name = name => IpOf(i, container) \in given)
    OBVIOUS
  <2>3. /\ i.name = name /\ IpOf(i, container) # None
        /\ \/ IsMtuOf(n, Segment("mtu"), IpOf(i, container))
           \/ IsAddressOf(Segment("mtu"), IpOf(i, container))
    BY <2>1, <2>2, BelowBoxOf
  <2>4. ~IsAddressOf(Segment("mtu"), IpOf(i, container))
    BY DEF IsAddressOf, Segment, Entry
  <2>5. n.value = IpOf(i, container).mtu
    BY <2>3, <2>4 DEF IsMtuOf
  <2>6. QED
    BY <2>1, <2>2, <2>3, <2>5
<1>5. TakenFrom(ip, given)
  BY <1>3, <1>4 DEF TakenFrom
<1>6. QED
  BY <1>5 DEF ip

\* No value comes back that no interface of the name had, not a description, a
\* type, an address, a prefix length of that ip or an mtu of that container:
\* calls that fail and interfaces that share a name lose or merge leaves, they
\* never mix two names, two addresses or ipv4 and ipv6.  That a prefix length
\* may be missing is not excluded (IetfInterfaces.cpp:42-133, 160-293).
THEOREM InventsNothing == Spec => []NothingInvented
<1>1. ASSUME IInv, source # None, back # None, NEW b \in Range(back)
      PROVE  LET same == {i \in Range(source) : i.name = b.name} IN
             /\ same # {}
             /\ b.description = None \/ \E i \in same : b.description = i.description
             /\ b.type = None \/ \E i \in same : b.type = i.type
             /\ b.enabled \/ \E i \in same : ~i.enabled
             /\ b.oper_status = None
             /\ b.ipv4 = None \/ TakenFrom(b.ipv4, {i.ipv4 : i \in same})
             /\ b.ipv6 = None \/ TakenFrom(b.ipv6, {i.ipv6 : i \in same})
  <2>. DEFINE nodes == tree.nodes
              same == {i \in Range(source) : i.name = b.name}
              base == EntryPath(b.name)
  <2>1. /\ IsInterfacesTree(nodes) /\ back = ReadInterfaces(nodes)
        /\ Range(source) \subseteq Interface
        /\ \A n \in Range(nodes) : \E i \in Range(source) : Made(n, i)
    BY <1>1, BackFacts
  <2>. HIDE DEF nodes
  <2>2. /\ b.name \in Names
        /\ \E e \in Range(nodes) : e.path = base
        /\ b.description = LeafValue(nodes, base, "description")
        /\ b.enabled = (LeafValue(nodes, base, "enabled") # "false")
        /\ b.type = ReadType(LeafValue(nodes, base, "type"))
        /\ b.oper_status = LeafValue(nodes, base, "oper-status")
        /\ b.ipv4 = ReadIp(nodes, base, "ipv4")
        /\ b.ipv6 = ReadIp(nodes, base, "ipv6")
    BY <1>1, <2>1, ReadLeaves
  <2>. HIDE DEF same
  <2>3. same # {}
    <3>1. PICK e \in Range(nodes) : e.path = base
      BY <2>2
    <3>2. PICK i \in Range(source) : Made(e, i)
      BY <2>1
    <3>3. i.name = b.name
      BY <2>1, <2>2, <3>1, <3>2, EntryOf
    <3>4. QED
      BY <3>3 DEF same
  <2>4. ASSUME NEW node, LeafValue(nodes, base, node) # None
        PROVE  \E i \in same :
                 \/ node = "name" /\ LeafValue(nodes, base, node) = i.name
                 \/ /\ node = "description" /\ i.description # None
                    /\ LeafValue(nodes, base, node) = i.description
                 \/ node = "enabled" /\ ~i.enabled
                 \/ /\ node = "type" /\ i.type # None
                    /\ LeafValue(nodes, base, node) = ianaIfTypeToString(i.type)
                 \/ node \in {"ipv4", "ipv6"}
    <3>1. PICK n \in Range(nodes) :
            n.path = Append(base, Segment(node)) /\ LeafValue(nodes, base, node) = n.value
      BY <2>4, ReadLeafNode
    <3>2. PICK i \in Range(source) : Made(n, i)
      BY <2>1
    <3>3. /\ i.name = b.name
          /\ \/ node = "name" /\ n.value = i.name
             \/ node = "description" /\ i.description # None /\ n.value = i.description
             \/ node = "enabled" /\ ~i.enabled /\ n.value = "false"
             \/ node = "type" /\ i.type # None /\ n.value = ianaIfTypeToString(i.type)
             \/ node \in {"ipv4", "ipv6"}
      BY <2>1, <2>2, <3>1, <3>2, EntryLeafOf
    <3>4. QED
      BY <3>1, <3>3 DEF same
  <2>. HIDE DEF base
  <2>5. b.description = None \/ \E i \in same : b.description = i.description
    BY <2>2, <2>4
  <2>6. b.type = None \/ \E i \in same : b.type = i.type
    <3>1. CASE LeafValue(nodes, base, "type") # None
      <4>1. PICK i \in same :
              i.type # None /\ LeafValue(nodes, base, "type") = ianaIfTypeToString(i.type)
        BY <2>4, <3>1
      <4>2. i.type \in IanaIfType
        BY <2>1, <4>1, InterfaceFields DEF same, Optional
      <4>3. b.type = i.type
        BY <2>2, <3>1, <4>1, <4>2, TypeRoundTrip DEF ReadType
      <4>4. QED
        BY <4>3
    <3>2. QED
      BY <2>2, <3>1 DEF ReadType
  <2>7. b.enabled \/ \E i \in same : ~i.enabled
    <3>1. CASE LeafValue(nodes, base, "enabled") = "false"
      <4>1. LeafValue(nodes, base, "enabled") # None
        BY <3>1, NoneIsNoString
      <4>2. QED
        BY <2>4, <4>1
    <3>2. QED
      BY <2>2, <3>1
  <2>8. b.oper_status = None
    BY <2>2, <2>4
  <2>9. ASSUME NEW container,
               ReadIp(nodes, base, container) # None
        PROVE  TakenFrom(ReadIp(nodes, base, container), {IpOf(i, container) : i \in same})
    <3>1. \A n \in Range(nodes) : \E i \in Interface :
            /\ Made(n, i)
            /\ i.name = b.name => IpOf(i, container) \in {IpOf(j, container) : j \in same}
      BY <2>1 DEF same
    <3>2. QED
      BY <2>1, <2>2, <2>9, <3>1, ReadIpIsTaken DEF base
  <2>10. b.ipv4 = None \/ TakenFrom(b.ipv4, {i.ipv4 : i \in same})
    <3>1. {IpOf(i, "ipv4") : i \in same} = {i.ipv4 : i \in same}
      BY DEF IpOf
    <3>2. QED
      BY <2>2, <2>9, <3>1
  <2>11. b.ipv6 = None \/ TakenFrom(b.ipv6, {i.ipv6 : i \in same})
    <3>1. {IpOf(i, "ipv6") : i \in same} = {i.ipv6 : i \in same}
      BY DEF IpOf
    <3>2. QED
      BY <2>2, <2>9, <3>1
  <2>12. QED
    BY <2>3, <2>5, <2>6, <2>7, <2>8, <2>10, <2>11 DEF same
<1>2. IInv => NothingInvented
  BY <1>1 DEF NothingInvented
<1>3. QED
  BY <1>2, Invariant, PTL

\* The call for a leaf that needs no prefix has its node in the tree.
LEMMA LeafIsWritten ==
  ASSUME IInv, source # None, back # None, exact,
         NEW i \in Range(source), i.name \notin Unquotable, NEW node, NEW value,
         <<node, value>> \notin Refused,
         PathCall(Append(EntryPath(i.name), Segment(node)), value, {}) \in Range(Calls(i))
  PROVE  HasNode(tree.nodes, Append(EntryPath(i.name), Segment(node)))
<1>. DEFINE c == PathCall(Append(EntryPath(i.name), Segment(node)), value, {})
<1>1. i.name \in Names
  BY BackFacts, InterfaceFields
<1>2. ~Rejects(c, resolves)
  BY <1>1, LeafIsTaken
<1>3. c.path = Append(EntryPath(i.name), Segment(node))
  BY DEF PathCall
<1>. HIDE DEF c
<1>4. HasNode(tree.nodes, c.path)
  BY <1>2, BackFacts DEF c
<1>5. QED
  BY <1>3, <1>4

LEMMA NameIsWritten ==
  ASSUME IInv, source # None, back # None, exact,
         NEW i \in Range(source), i.name \notin Unquotable
  PROVE  HasNode(tree.nodes, Append(EntryPath(i.name), Segment("name")))
<1>1. i \in Interface /\ i.name \in Names
  BY BackFacts, InterfaceFields
<1>2. <<"name", i.name>> \notin Refused
  BY <1>1, InterfaceSchemaAssumption
<1>3. PathCall(Append(EntryPath(i.name), Segment("name")), i.name, {}) \in Range(Calls(i))
  BY <1>1, TheCalls DEF IsCall, IsLeafCall, IsNameCall
<1>4. QED
  BY <1>2, <1>3, LeafIsWritten

\* An interface whose name was read can be written.
LEMMA ReadNames ==
  ASSUME IInv, source # None, back # None, NEW b \in Range(back)
  PROVE  b.name \notin Unquotable /\ \E i \in Range(source) : i.name = b.name
<1>1. PICK e \in Range(tree.nodes) : e.path = EntryPath(b.name)
  BY BackFacts, ReadLeaves
<1>2. PICK i \in Range(source) : i.name \notin Unquotable /\ Made(e, i)
  BY BackFacts
<1>3. i \in Interface /\ b.name \in Names
  BY BackFacts, ReadLeaves
<1>4. i.name = b.name
  BY <1>1, <1>2, <1>3, EntryOf
<1>5. QED
  BY <1>2, <1>4

\* An empty name is all that makes deserialize refuse what serialize made.
LEMMA RejectedFacts ==
  ASSUME IInv, source # None, rejected
  PROVE  "" \in NamesOf(source)
<1>1. Serialized /\ tree # None /\ ~Readable(tree)
  BY DEF IInv, PhaseInv, Serialized
<1>2. /\ source \in Seq(Interface) /\ IsTree(tree) /\ tree.top = "interfaces"
      /\ \A n \in Range(tree.nodes) : \E i \in Range(source) : Made(n, i)
  BY <1>1 DEF IInv, CallsInv, MadeInv
<1>3. IsInterfacesTree(tree.nodes)
  BY <1>2 DEF IsTree
<1>4. PICK e \in Range(InterfaceEntries(tree.nodes)) :
        NodeValue(tree.nodes, Append(e.path, Segment("name"))) \in {None, ""}
  BY <1>1, <1>2 DEF Readable, NamedEntries
<1>5. PICK name \in Names :
        /\ e.path = EntryPath(name)
        /\ NodeValue(tree.nodes, Append(EntryPath(name), Segment("name"))) = name
  BY <1>3, InterfaceEntry
<1>6. name = ""
  BY <1>4, <1>5, InterfaceDataAssumption
<1>7. e \in Range(tree.nodes)
  BY <1>3, TreeFacts, Entries DEF InterfaceEntries
<1>8. PICK i \in Range(source) : Made(e, i)
  BY <1>2, <1>7
<1>9. i \in Interface
  BY <1>2, SequenceOver
<1>10. i.name = name
  BY <1>5, <1>8, <1>9, EntryOf
<1>11. QED
  BY <1>6, <1>10 DEF NamesOf

\* If no call runs out of memory, the names that a predicate can hold come back,
\* and a tree that serialize returned is refused only for an empty name
\* (IetfInterfaces.cpp:46-56, 149-170).
THEOREM NamesReturn == Spec => []NamesComeBack
<1>1. ASSUME IInv, source # None, exact, back # None
      PROVE  NamesOf(back) = NamesOf(source) \ Unquotable
  <2>1. ASSUME NEW b \in Range(back) PROVE b.name \in NamesOf(source) \ Unquotable
    BY <1>1, ReadNames DEF NamesOf
  <2>2. ASSUME NEW i \in Range(source), i.name \notin Unquotable
        PROVE  \E b \in Range(back) : b.name = i.name
    <3>1. i.name \in Names
      BY <1>1, BackFacts, InterfaceFields
    <3>2. HasNode(tree.nodes, Append(EntryPath(i.name), Segment("name")))
      BY <1>1, <2>2, NameIsWritten
    <3>3. IsInterfacesTree(tree.nodes) /\ back = ReadInterfaces(tree.nodes)
      BY <1>1, BackFacts
    <3>4. QED
      BY <3>1, <3>2, <3>3, LeafIsRead
  <2>3. QED
    BY <2>1, <2>2 DEF NamesOf
<1>2. IInv => NamesComeBack
  BY <1>1, RejectedFacts DEF NamesComeBack
<1>3. QED
  BY <1>2, Invariant, PTL

LEMMA EnabledFacts ==
  ASSUME IInv, source # None, exact, back # None, NEW b \in Range(back)
  PROVE  b.enabled <=> \A i \in Range(source) : i.name = b.name => i.enabled
<1>. DEFINE nodes == tree.nodes
            path == Append(EntryPath(b.name), Segment("enabled"))
            value == LeafValue(nodes, EntryPath(b.name), "enabled")
<1>1. /\ IsInterfacesTree(nodes) /\ Range(source) \subseteq Interface
      /\ \A n \in Range(nodes) : \E i \in Range(source) : Made(n, i)
  BY BackFacts
<1>2. b.name \in Names /\ b.enabled = (value # "false") /\ value = NodeValue(nodes, path)
  BY BackFacts, ReadLeaves DEF LeafValue
<1>. HIDE DEF nodes
<1>3. ASSUME NEW n \in Range(nodes), n.path = path
      PROVE  n.value = "false" /\ \E i \in Range(source) : i.name = b.name /\ ~i.enabled
  <2>1. PICK i \in Range(source) : Made(n, i)
    BY <1>1
  <2>2. i.name = b.name /\ ~i.enabled /\ n.value = "false"
    BY <1>1, <1>2, <1>3, <2>1, EntryLeafOf
  <2>3. QED
    BY <2>2
<1>. HIDE DEF path, value
<1>4. ASSUME ~b.enabled
      PROVE  \E i \in Range(source) : i.name = b.name /\ ~i.enabled
  <2>1. value # None
    BY <1>2, <1>4, NoneIsNoString
  <2>2. PICK n \in Range(nodes) : n.path = path
    BY <1>2, <2>1, NodeOfValue
  <2>3. QED
    BY <1>3, <2>2
<1>5. ASSUME NEW i \in Range(source), i.name = b.name, ~i.enabled
      PROVE  ~b.enabled
  <2>1. i \in Interface /\ i.name \notin Unquotable
    BY <1>1, <1>5, ReadNames
  <2>2. <<"enabled", "false">> \notin Refused
    BY InterfaceSchemaAssumption
  <2>3. PathCall(Append(EntryPath(i.name), Segment("enabled")), "false", {}) \in Range(Calls(i))
    BY <1>5, <2>1, TheCalls DEF IsCall, IsLeafCall, IsEnabledCall
  <2>4. HasNode(nodes, path)
    BY <1>5, <2>1, <2>2, <2>3, LeafIsWritten DEF path, nodes
  <2>5. PICK n \in Range(nodes) : n.path = path
    BY <2>4 DEF HasNode
  <2>6. value = n.value
    BY <1>1, <1>2, <2>5, TreeFacts, ValueOfNode
  <2>7. QED
    BY <1>2, <1>3, <2>5, <2>6
<1>6. b.enabled \in BOOLEAN
  BY <1>2
<1>7. QED
  BY <1>4, <1>5, <1>6

\* If no call runs out of memory, an interface comes back as disabled if and
\* only if one of its name was: the leaf that is written only for false is
\* neither lost nor invented (IetfInterfaces.cpp:58-61, 185-187).
THEOREM StaysDisabled == Spec => []DisabledStaysDisabled
<1>1. IInv => DisabledStaysDisabled
  BY EnabledFacts DEF DisabledStaysDisabled
<1>2. QED
  BY <1>1, Invariant, PTL

-----------------------------------------------------------------------------
(* A normal model that libyang can write *)

\* libyang takes all of its calls.
LEMMA AllWritten ==
  ASSUME IInv, source # None, back # None, exact, NEW i \in Range(source), Writable(i),
         NEW c \in Range(Calls(i))
  PROVE  HasNode(tree.nodes, c.path)
<1>1. i \in Interface
  BY BackFacts
<1>2. ASSUME NEW s \in Range(c.path), NEW key \in Range(KeyLeaves(s))
      PROVE  key[2] \notin Unquotable /\ key \notin Refused
  <2>1. key[2] \notin Unquotable
    BY DEF Writable
  <2>2. PICK d \in Range(Calls(i)) : key = LeafSet(d)
    BY <1>1, CallKeys
  <2>3. LeafSet(d) \notin Refused
    BY DEF Writable, LeafSet
  <2>4. QED
    BY <2>1, <2>2, <2>3
<1>3. ~Rejects(c, resolves)
  BY <1>2 DEF Writable, Rejects
<1>4. QED
  BY <1>3, BackFacts

Unordered(ip) ==
  IF ip = None THEN None ELSE [address |-> Range(ip.address), mtu |-> ip.mtu]

LEMMA Configurations ==
  ASSUME NEW i \in Interface
  PROVE  Configuration(i) =
           [name |-> i.name, description |-> i.description, enabled |-> i.enabled,
            type |-> i.type, oper_status |-> None,
            ipv4 |-> Unordered(i.ipv4), ipv6 |-> Unordered(i.ipv6)]
<1>1. Configuration(i) = [i EXCEPT !.oper_status = None, !.ipv4 = Unordered(i.ipv4),
                                   !.ipv6 = Unordered(i.ipv6)]
  BY DEF Configuration, Unordered
<1>. HIDE DEF Unordered
<1>2. QED
  BY <1>1 DEF Interface

\* What was read under the name of an interface is that interface.
LEMMA InterfaceReturns ==
  ASSUME IInv, source # None, back # None, exact, Normal(source),
         \A i \in Range(source) : Writable(i),
         NEW i \in Range(source), NEW b \in Range(back), b.name = i.name
  PROVE  Configuration(b) = Configuration(i)
<1>. DEFINE nodes == tree.nodes
            base == EntryPath(i.name)
<1>1. /\ IsInterfacesTree(nodes) /\ back = ReadInterfaces(nodes)
      /\ source \in Seq(Interface) /\ Range(source) \subseteq Interface
      /\ \A n \in Range(nodes) : \E j \in Range(source) : Made(n, j)
  BY BackFacts
<1>2. \A j \in Range(source) : j.name = i.name => j = i
  <2>1. \A j, k \in DOMAIN source : source[j].name = source[k].name => j = k
    BY DEF Normal, DistinctNames, IsInjective
  <2>2. IsSeq(source)
    BY <1>1, SequenceOver
  <2>3. QED
    BY <2>1, <2>2, SeqFacts
<1>3. \A c \in Range(Calls(i)) : HasNode(nodes, c.path)
  BY AllWritten
<1>4. /\ i.name \in Names /\ i.type \in Optional(IanaIfType)
      /\ i.ipv4 \in Optional(Ip) /\ i.ipv6 \in Optional(Ip) /\ i.enabled \in BOOLEAN
  BY <1>1, InterfaceFields
<1>. HIDE DEF nodes
<1>5. /\ b \in Interface
      /\ b.description = LeafValue(nodes, base, "description")
      /\ b.type = ReadType(LeafValue(nodes, base, "type"))
      /\ b.ipv4 = ReadIp(nodes, base, "ipv4")
      /\ b.ipv6 = ReadIp(nodes, base, "ipv6")
  BY <1>1, ReadLeaves
<1>6. ASSUME NEW n \in Range(nodes), NEW node, n.path = Append(base, Segment(node))
      PROVE  \/ node = "name" /\ n.value = i.name
             \/ node = "description" /\ i.description # None /\ n.value = i.description
             \/ node = "enabled" /\ ~i.enabled /\ n.value = "false"
             \/ node = "type" /\ i.type # None /\ n.value = ianaIfTypeToString(i.type)
             \/ node \in {"ipv4", "ipv6"}
  <2>1. PICK j \in Range(source) : Made(n, j)
    BY <1>1
  <2>2. j.name = i.name
    BY <1>1, <1>4, <1>6, <2>1, EntryLeafOf
  <2>3. j = i
    BY <1>2, <2>2
  <2>4. QED
    BY <1>1, <1>4, <1>6, <2>1, <2>3, EntryLeafOf
<1>7. b.description = i.description
  <2>. DEFINE leaf == Append(base, Segment("description"))
              c == PathCall(leaf, i.description, {})
  <2>1. i.description # None => HasNode(nodes, leaf)
    <3>1. i.description # None => c \in Range(Calls(i))
      BY <1>1, TheCalls DEF IsCall, IsLeafCall, IsDescriptionCall
    <3>2. c.path = leaf
      BY DEF PathCall
    <3>. HIDE DEF c, leaf
    <3>3. QED
      BY <1>3, <3>1, <3>2
  <2>2. IsOptionalLeaf(nodes, leaf, i.description)
    <3>1. ASSUME NEW n \in Range(nodes), n.path = leaf
          PROVE  i.description # None /\ n.value = i.description
      BY <1>6, <3>1
    <3>2. QED
      BY <2>1, <3>1 DEF IsOptionalLeaf
  <2>3. leaf = Append(base, Segment("description"))
    OBVIOUS
  <2>. HIDE DEF leaf
  <2>4. QED
    BY <1>1, <1>5, <2>2, <2>3, OptionalLeaf
<1>8. b.type = i.type
  <2>. DEFINE leaf == Append(base, Segment("type"))
              value == IF i.type = None THEN None ELSE ianaIfTypeToString(i.type)
              c == PathCall(leaf, ianaIfTypeToString(i.type), {"ianaift"})
  <2>1. value # None => i.type # None
    OBVIOUS
  <2>2. i.type # None => value # None /\ value = ianaIfTypeToString(i.type)
    BY <1>4, NoneIsNoString DEF Optional
  <2>3. i.type # None => HasNode(nodes, leaf)
    <3>1. i.type # None => c \in Range(Calls(i))
      BY <1>1, TheCalls DEF IsCall, IsLeafCall, IsTypeCall
    <3>2. c.path = leaf
      BY DEF PathCall
    <3>. HIDE DEF c, leaf
    <3>3. QED
      BY <1>3, <3>1, <3>2
  <2>4. IsOptionalLeaf(nodes, leaf, value)
    <3>1. ASSUME NEW n \in Range(nodes), n.path = leaf
          PROVE  i.type # None /\ n.value = ianaIfTypeToString(i.type)
      BY <1>6, <3>1
    <3>. HIDE DEF value
    <3>2. QED
      BY <2>1, <2>2, <2>3, <3>1 DEF IsOptionalLeaf
  <2>5. leaf = Append(base, Segment("type"))
    OBVIOUS
  <2>. HIDE DEF leaf, value
  <2>6. LeafValue(nodes, base, "type") = value
    BY <1>1, <2>4, <2>5, OptionalLeaf
  <2>7. CASE i.type = None
    BY <1>5, <2>1, <2>6, <2>7 DEF ReadType
  <2>8. CASE i.type # None
    <3>1. i.type \in IanaIfType
      BY <1>4, <2>8 DEF Optional
    <3>2. QED
      BY <1>5, <2>2, <2>6, <2>8, <3>1, TypeRoundTrip DEF ReadType
  <2>9. QED
    BY <2>7, <2>8
<1>9. b.enabled = i.enabled
  <2>1. b.enabled <=> i.enabled
    BY <1>2, EnabledFacts
  <2>2. b.enabled \in BOOLEAN
    BY <1>5, InterfaceFields
  <2>3. QED
    BY <1>4, <2>1, <2>2
<1>10. ASSUME NEW container, NEW ip \in Optional(Ip),
              \A c : IsIpCall(c, i.name, container, ip) => c \in Range(Calls(i)),
              IpOf(i, container) = ip, ip \in {i.ipv4, i.ipv6}
       PROVE  Unordered(ReadIp(nodes, base, container)) = Unordered(ip)
  <2>1. \A c : IsIpCall(c, i.name, container, ip) => HasNode(nodes, c.path)
    BY <1>3, <1>10
  <2>2. \A n \in Range(nodes) : \E j \in Interface :
          Made(n, j) /\ (j.name = i.name => IpOf(j, container) = ip)
    BY <1>1, <1>2, <1>10
  <2>3. ip # None => ip.address # <<>> /\ DistinctIps(ip)
    BY <1>10 DEF Normal
  <2>. DEFINE read == ReadIp(nodes, EntryPath(i.name), container)
  <2>4. /\ read = None <=> ip = None
        /\ ip # None => Range(read.address) = Range(ip.address) /\ read.mtu = ip.mtu
    <3>1. Holds(nodes, i.name, container, ip)
      BY <2>1, <2>2 DEF Holds
    <3>2. QED
      BY <1>1, <1>4, <2>3, <3>1, IpSurvives
  <2>5. QED
    BY <2>4 DEF Unordered
<1>11. Unordered(b.ipv4) = Unordered(i.ipv4)
  <2>1. \A c : IsIpCall(c, i.name, "ipv4", i.ipv4) => c \in Range(Calls(i))
    BY <1>1, TheCalls DEF IsCall
  <2>2. IpOf(i, "ipv4") = i.ipv4
    BY DEF IpOf
  <2>3. QED
    BY <1>4, <1>5, <1>10, <2>1, <2>2
<1>12. Unordered(b.ipv6) = Unordered(i.ipv6)
  <2>1. \A c : IsIpCall(c, i.name, "ipv6", i.ipv6) => c \in Range(Calls(i))
    BY <1>1, TheCalls DEF IsCall
  <2>2. IpOf(i, "ipv6") = i.ipv6
    BY DEF IpOf
  <2>3. QED
    BY <1>4, <1>5, <1>10, <2>1, <2>2
<1>13. QED
  <2>1. Configuration(b) =
           [name |-> b.name, description |-> b.description, enabled |-> b.enabled,
            type |-> b.type, oper_status |-> None,
            ipv4 |-> Unordered(b.ipv4), ipv6 |-> Unordered(b.ipv6)]
    BY <1>5, Configurations
  <2>2. Configuration(i) =
           [name |-> i.name, description |-> i.description, enabled |-> i.enabled,
            type |-> i.type, oper_status |-> None,
            ipv4 |-> Unordered(i.ipv4), ipv6 |-> Unordered(i.ipv6)]
    BY <1>1, Configurations
  <2>3. QED
    BY <1>7, <1>8, <1>9, <1>11, <1>12, <2>1, <2>2

\* Models with distinct names have as many interfaces as names.
LEMMA NameCount ==
  ASSUME NEW m, IsSeq(m), DistinctNames(m)
  PROVE  Len(m) = Cardinality(NamesOf(m))
<1>. DEFINE f == [k \in DOMAIN m |-> m[k].name]
            n == Len(m)
<1>1. n \in Nat /\ DOMAIN m = 1..n /\ Range(m) = {m[k] : k \in 1..n}
  BY SeqFacts
<1>2. DOMAIN f = 1..n /\ IsInjective(f) /\ f = [k \in 1..n |-> f[k]]
  BY <1>1 DEF DistinctNames
<1>3. Range(f) = NamesOf(m)
  BY <1>1 DEF NamesOf, Range
<1>. HIDE DEF f, n
<1>4. Cardinality(Range(f)) = n
  BY <1>1, <1>2, DistinctLength
<1>5. QED
  BY <1>3, <1>4 DEF n

\* A normal model that libyang can write comes back complete: serialize and
\* deserialize agree on every field (IetfInterfaces.cpp:42-133, 160-293).
THEOREM NormalReturns == Spec => []NormalSurvives
<1>1. ASSUME IInv, source # None, pc = "idle", exact, Normal(source),
             "" \notin NamesOf(source), \A i \in Range(source) : Writable(i)
      PROVE  ~rejected /\ (back # None => SameConfiguration(back, source))
  <2>1. ~rejected
    BY <1>1, RejectedFacts
  <2>2. ASSUME back # None PROVE SameConfiguration(back, source)
    <3>1. /\ IsInterfacesTree(tree.nodes) /\ back = ReadInterfaces(tree.nodes)
          /\ source \in Seq(Interface) /\ Range(source) \subseteq Interface
      BY <1>1, <2>2, BackFacts
    <3>2. \A i \in Range(source) : \A b \in Range(back) :
            b.name = i.name => Configuration(b) = Configuration(i)
      BY <1>1, <2>2, InterfaceReturns
    <3>3. ASSUME NEW i \in Range(source) PROVE \E b \in Range(back) : b.name = i.name
      <4>. DEFINE c == PathCall(Append(EntryPath(i.name), Segment("name")), i.name, {})
      <4>1. c \in Range(Calls(i))
        BY <3>1, TheCalls DEF IsCall, IsLeafCall, IsNameCall
      <4>2. c.path = Append(EntryPath(i.name), Segment("name"))
        BY DEF PathCall
      <4>. HIDE DEF c
      <4>3. HasNode(tree.nodes, c.path)
        BY <1>1, <2>2, <4>1, AllWritten
      <4>4. HasNode(tree.nodes, Append(EntryPath(i.name), Segment("name")))
        BY <4>2, <4>3
      <4>5. i.name \in Names
        BY <3>1, InterfaceFields
      <4>6. QED
        BY <3>1, <4>4, <4>5, LeafIsRead
    <3>4. \A b \in Range(back) : \E i \in Range(source) : i.name = b.name
      BY <1>1, <2>2, ReadNames
    <3>5. {Configuration(i) : i \in Range(back)} = {Configuration(i) : i \in Range(source)}
      BY <3>2, <3>3, <3>4
    <3>6. NamesOf(back) = NamesOf(source)
      BY <3>3, <3>4 DEF NamesOf
    <3>7. Len(back) = Len(source)
      <4>1. DistinctNames(back) /\ DistinctNames(source)
        BY <1>1, <3>1, ReadIsNormal DEF Normal
      <4>2. IsSeq(back) /\ IsSeq(source)
        BY <3>1, ReadEntries, SequenceOver
      <4>3. QED
        BY <3>6, <4>1, <4>2, NameCount
    <3>8. QED
      BY <3>5, <3>7 DEF SameConfiguration
  <2>3. QED
    BY <2>1, <2>2
<1>2. IInv => NormalSurvives
  BY <1>1 DEF NormalSurvives
<1>3. QED
  BY <1>2, Invariant, PTL

=============================================================================
