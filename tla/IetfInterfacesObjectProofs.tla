--------------------- MODULE IetfInterfacesObjectProofs ---------------------
(***************************************************************************)
(* Lemmas for IetfInterfaces and IetfRouting.  About the tree: lists are   *)
(* read without repetition; lyd_new_path keeps a tree well formed, adds    *)
(* exactly the nodes that the path still needs and changes no other.       *)
(* About interfaces: which calls serialize makes for one and which nodes   *)
(* these can create; what deserialize makes of a tree is a normal model.   *)
(***************************************************************************)
EXTENDS IetfInterfacesObject, SequenceLemmas

-----------------------------------------------------------------------------
(* Sequences of nodes in which no path comes twice *)

NoCommonPath(s, t) == \A m \in Range(s) : \A n \in Range(t) : m.path # n.path

LEMMA ConcatPaths ==
  ASSUME NEW s, IsSeq(s), DistinctPaths(s), NEW t, IsSeq(t), DistinctPaths(t),
         NoCommonPath(s, t)
  PROVE  DistinctPaths(s \o t)
<1>. DEFINE u == s \o t
            p == Len(s)
<1>1. /\ p \in Nat /\ Len(t) \in Nat
      /\ DOMAIN s = 1..p /\ DOMAIN t = 1..Len(t)
      /\ \A k \in 1..p : s[k] \in Range(s)
      /\ \A k \in 1..Len(t) : t[k] \in Range(t)
  BY SeqFacts
<1>2. IsSeq(u) /\ Len(u) = p + Len(t) /\ DOMAIN u = 1..Len(u)
  BY Concatenation, SeqFacts
<1>3. \A k \in 1..p : u[k] = s[k]
  BY Concatenation
<1>4. \A k \in 1..Len(u) : k > p => k - p \in 1..Len(t) /\ u[k] = t[k - p]
  BY Concatenation
<1>. HIDE DEF u, p
<1>5. ASSUME NEW j \in 1..Len(u), NEW k \in 1..Len(u), u[j].path = u[k].path
      PROVE  j = k
  <2>1. CASE j <= p /\ k <= p
    BY <1>1, <1>2, <1>3, <1>5, <2>1 DEF DistinctPaths
  <2>2. CASE j > p /\ k > p
    <3>1. t[j - p].path = t[k - p].path /\ j - p \in 1..Len(t) /\ k - p \in 1..Len(t)
      BY <1>4, <1>5, <2>2
    <3>2. j - p = k - p
      BY <1>1, <3>1 DEF DistinctPaths
    <3>3. QED
      BY <1>1, <1>2, <3>2
  <2>3. CASE j <= p /\ k > p
    <3>1. u[j] \in Range(s) /\ u[k] \in Range(t)
      BY <1>1, <1>2, <1>3, <1>4, <2>3
    <3>2. QED
      BY <1>5, <3>1 DEF NoCommonPath
  <2>4. CASE j > p /\ k <= p
    <3>1. u[k] \in Range(s) /\ u[j] \in Range(t)
      BY <1>1, <1>2, <1>3, <1>4, <2>4
    <3>2. QED
      BY <1>5, <3>1 DEF NoCommonPath
  <2>5. QED
    BY <1>1, <1>2, <2>1, <2>2, <2>3, <2>4
<1>6. QED
  BY <1>2, <1>5 DEF DistinctPaths, u

LEMMA FlattenPaths ==
  ASSUME NEW ss, IsSeq(ss),
         \A k \in DOMAIN ss : IsSeq(ss[k]) /\ DistinctPaths(ss[k]),
         \A j, k \in DOMAIN ss : j # k => NoCommonPath(ss[j], ss[k])
  PROVE  DistinctPaths(FlattenSeq(ss))
<1>. DEFINE n == Len(ss)
<1>1. n \in Nat /\ DOMAIN ss = 1..n /\ (ss # <<>> <=> n > 0)
  BY SeqFacts
<1>2. CASE ss = <<>>
  <2>1. FlattenSeq(ss) = <<>>
    BY <1>2 DEF FlattenSeq
  <2>2. QED
    BY <2>1 DEF DistinctPaths
<1>3. CASE ss # <<>>
  <2>1. PICK f : /\ FlattenSeq(ss) = f[n]
                 /\ f[1] = ss[1]
                 /\ \A k \in 2..n : f[k] = f[k - 1] \o ss[k]
    BY <1>3, FlattenSteps
  <2>. HIDE DEF n
  <2>. DEFINE Good(m) == /\ IsSeq(f[m]) /\ DistinctPaths(f[m])
                         /\ \A x \in Range(f[m]) : \E k \in 1..m : x \in Range(ss[k])
              T == {m \in 0..n : m = 0 \/ Good(m)}
  <2>2. 0 \in T
    BY <1>1
  <2>3. ASSUME NEW m \in 0..(n - 1), m \in T PROVE m + 1 \in T
    <3>0. /\ m \in Nat /\ m + 1 \in 1..n
          /\ IsSeq(ss[m + 1]) /\ DistinctPaths(ss[m + 1])
      BY <1>1
    <3>1. CASE m = 0
      <4>1. f[m + 1] = ss[1] /\ 1 \in 1..(m + 1)
        BY <2>1, <3>1
      <4>2. QED
        BY <3>0, <3>1, <4>1
    <3>2. CASE m # 0
      <4>1. Good(m)
        BY <2>3, <3>2
      <4>2. PICK l \in 2..n : l = m + 1 /\ l - 1 = m
        BY <1>1, <3>0, <3>2
      <4>3. f[m + 1] = f[m] \o ss[m + 1]
        BY <2>1, <4>2
      <4>4. NoCommonPath(f[m], ss[m + 1])
        <5>1. ASSUME NEW x \in Range(f[m]), NEW y \in Range(ss[m + 1])
              PROVE  x.path # y.path
          <6>1. PICK k \in 1..m : x \in Range(ss[k])
            BY <4>1
          <6>2. k \in DOMAIN ss /\ m + 1 \in DOMAIN ss /\ k # m + 1
            BY <1>1, <3>0
          <6>3. NoCommonPath(ss[k], ss[m + 1])
            BY <6>2
          <6>4. QED
            BY <6>1, <6>3 DEF NoCommonPath
        <5>2. QED
          BY <5>1 DEF NoCommonPath
      <4>5. IsSeq(f[m + 1]) /\ Range(f[m + 1]) = Range(f[m]) \union Range(ss[m + 1])
        BY <3>0, <4>1, <4>3, Concatenation
      <4>6. DistinctPaths(f[m + 1])
        BY <3>0, <4>1, <4>3, <4>4, ConcatPaths
      <4>7. \A x \in Range(f[m + 1]) : \E k \in 1..(m + 1) : x \in Range(ss[k])
        <5>1. \A k \in 1..m : k \in 1..(m + 1)
          BY <3>0
        <5>2. m + 1 \in 1..(m + 1)
          BY <3>0
        <5>3. QED
          BY <4>1, <4>5, <5>1, <5>2
      <4>. HIDE DEF Good
      <4>8. Good(m + 1)
        BY <4>5, <4>6, <4>7 DEF Good
      <4>9. QED
        BY <3>0, <4>8
    <3>3. QED
      BY <3>1, <3>2
  <2>4. n \in T
    <3>. HIDE DEF T
    <3>1. 0..n \subseteq T
      BY <1>1, <2>2, <2>3, UpTo
    <3>2. QED
      BY <1>1, <3>1
  <2>5. QED
    BY <1>1, <1>3, <2>1, <2>4
<1>4. QED
  BY <1>2, <1>3

-----------------------------------------------------------------------------
(* Reading *)

LEMMA IfFacts ==
  ASSUME NEW condition \in BOOLEAN, NEW s, IsSeq(s)
  PROVE  /\ IsSeq(If(condition, s))
         /\ Range(If(condition, s)) = IF condition THEN Range(s) ELSE {}
BY NoElement DEF If

\* The entries of a list, each once.
LEMMA Entries ==
  ASSUME NEW nodes, IsSeq(nodes), NEW parent, NEW list
  PROVE  /\ IsSeq(EntriesOf(nodes, parent, list))
         /\ Range(EntriesOf(nodes, parent, list))
              = {n \in Range(nodes) : Front(n.path) = parent /\ Last(n.path)[1] = list}
         /\ DistinctPaths(nodes) => DistinctPaths(EntriesOf(nodes, parent, list))
<1>. DEFINE Is(n) == Front(n.path) = parent /\ Last(n.path)[1] = list
            ss == [k \in DOMAIN nodes |-> If(Is(nodes[k]), <<nodes[k]>>)]
            n0 == Len(nodes)
<1>1. n0 \in Nat /\ DOMAIN nodes = 1..n0 /\ Range(nodes) = {nodes[k] : k \in 1..n0}
  BY SeqFacts
<1>2. EntriesOf(nodes, parent, list) = FlattenSeq(ss)
  BY DEF EntriesOf
<1>3. IsSeq(ss) /\ DOMAIN ss = 1..n0
  <2>1. DOMAIN ss = 1..n0 /\ ss = [k \in 1..n0 |-> ss[k]]
    BY <1>1
  <2>. HIDE DEF ss
  <2>2. QED
    BY <1>1, <2>1, FunctionIsSeq
<1>4. ASSUME NEW k \in 1..n0
      PROVE  /\ IsSeq(ss[k])
             /\ Range(ss[k]) = IF Is(nodes[k]) THEN {nodes[k]} ELSE {}
             /\ DistinctPaths(ss[k])
  <2>1. ss[k] = If(Is(nodes[k]), <<nodes[k]>>)
    BY <1>1
  <2>2. IsSeq(<<nodes[k]>>) /\ Range(<<nodes[k]>>) = {nodes[k]} /\ Len(<<nodes[k]>>) = 1
    BY OneElement
  <2>3. IsSeq(<<>>) /\ Range(<<>>) = {}
    BY NoElement
  <2>4. CASE Is(nodes[k])
    <3>1. ss[k] = <<nodes[k]>>
      BY <2>1, <2>4 DEF If
    <3>. HIDE DEF ss, Is
    <3>2. DOMAIN <<nodes[k]>> = 1..1
      BY <2>2, SeqFacts
    <3>3. QED
      BY <2>2, <2>4, <3>1, <3>2 DEF DistinctPaths
  <2>5. CASE ~Is(nodes[k])
    <3>1. ss[k] = <<>>
      BY <2>1, <2>5 DEF If
    <3>2. DOMAIN ss[k] = {}
      BY <3>1
    <3>3. QED
      BY <2>3, <2>5, <3>1, <3>2 DEF DistinctPaths
  <2>6. QED
    BY <2>4, <2>5
<1>. HIDE DEF ss, n0
<1>5. IsSeq(FlattenSeq(ss))
  BY <1>3, <1>4, Flattened
<1>6. Range(FlattenSeq(ss)) = UNION {Range(ss[k]) : k \in 1..n0}
  BY <1>3, <1>4, Flattened
<1>7. Range(FlattenSeq(ss)) = {n \in Range(nodes) : Is(n)}
  <2>. HIDE DEF Is
  <2>1. ASSUME NEW x \in Range(FlattenSeq(ss)) PROVE x \in Range(nodes) /\ Is(x)
    <3>1. PICK k \in 1..n0 : x \in Range(ss[k])
      BY <1>6
    <3>2. QED
      BY <1>1, <1>4, <3>1
  <2>2. ASSUME NEW x \in Range(nodes), Is(x) PROVE x \in Range(FlattenSeq(ss))
    <3>1. PICK k \in 1..n0 : x = nodes[k]
      BY <1>1
    <3>2. x \in Range(ss[k])
      BY <1>4, <2>2, <3>1
    <3>3. QED
      BY <1>6, <3>2
  <2>3. QED
    BY <2>1, <2>2
<1>8. ASSUME DistinctPaths(nodes) PROVE DistinctPaths(FlattenSeq(ss))
  <2>1. ASSUME NEW j \in 1..n0, NEW k \in 1..n0, j # k PROVE NoCommonPath(ss[j], ss[k])
    <3>1. nodes[j].path # nodes[k].path
      BY <1>1, <1>8, <2>1 DEF DistinctPaths
    <3>2. Range(ss[j]) \subseteq {nodes[j]} /\ Range(ss[k]) \subseteq {nodes[k]}
      BY <1>4
    <3>3. QED
      BY <3>1, <3>2 DEF NoCommonPath
  <2>2. QED
    BY <1>3, <1>4, <2>1, FlattenPaths
<1>9. QED
  BY <1>2, <1>5, <1>7, <1>8

\* A path has one node.
LEMMA OneNode ==
  ASSUME NEW nodes, IsSeq(nodes), DistinctPaths(nodes)
  PROVE  \A m, n \in Range(nodes) : m.path = n.path => m = n
BY SeqFacts DEF DistinctPaths

LEMMA ValueOfNode ==
  ASSUME NEW nodes, IsSeq(nodes), DistinctPaths(nodes), NEW n \in Range(nodes)
  PROVE  HasNode(nodes, n.path) /\ NodeValue(nodes, n.path) = n.value
<1>1. HasNode(nodes, n.path)
  BY DEF HasNode
<1>2. \A m \in Range(nodes) : m.path = n.path => m = n
  BY OneNode
<1>3. (CHOOSE m \in Range(nodes) : m.path = n.path) = n
  BY <1>2
<1>4. QED
  BY <1>1, <1>3 DEF NodeValue

LEMMA NodeOfValue ==
  ASSUME NEW nodes, NEW path
  PROVE  \/ NodeValue(nodes, path) = None
         \/ \E n \in Range(nodes) : n.path = path /\ NodeValue(nodes, path) = n.value
<1>1. CASE HasNode(nodes, path)
  <2>. DEFINE m == CHOOSE n \in Range(nodes) : n.path = path
  <2>1. m \in Range(nodes) /\ m.path = path
    BY <1>1 DEF HasNode
  <2>2. NodeValue(nodes, path) = m.value
    BY <1>1 DEF NodeValue
  <2>3. QED
    BY <2>1, <2>2
<1>2. QED
  BY <1>1 DEF NodeValue

-----------------------------------------------------------------------------
(* Writing *)

\* A segment whose keys make a sequence of leaves with different names.
IsSegment(segment) ==
  /\ IsSeq(KeyLeaves(segment))
  /\ \A j, k \in DOMAIN KeyLeaves(segment) :
       KeyLeaves(segment)[j][1] = KeyLeaves(segment)[k][1] => j = k

KeyLeafNode(path, key) ==
  [path |-> Append(path, Segment(key[1])), value |-> Stored(key)]

LEMMA NoKeys ==
  ASSUME NEW name
  PROVE  KeyLeaves(Segment(name)) = <<>> /\ IsSegment(Segment(name))
<1>1. KeyLeaves(Segment(name)) = <<>>
  BY DEF KeyLeaves, Segment
<1>2. DOMAIN <<>> = {}
  OBVIOUS
<1>3. QED
  BY <1>1, <1>2, NoElement DEF IsSegment

LEMMA NewNodes ==
  ASSUME NEW path, IsSeq(path), path # <<>>, IsSegment(Last(path)), NEW value
  PROVE  /\ IsSeq(NewNode(path, value)) /\ DistinctPaths(NewNode(path, value))
         /\ Range(NewNode(path, value))
              = {[path |-> path, value |-> Stored(<<Last(path)[1], value>>)]}
                \union {KeyLeafNode(path, key) : key \in Range(KeyLeaves(Last(path)))}
<1>. DEFINE keys == KeyLeaves(Last(path))
            entry == [path |-> path, value |-> Stored(<<Last(path)[1], value>>)]
            leaves == [k \in DOMAIN keys |-> KeyLeafNode(path, keys[k])]
            n == Len(keys)
<1>1. /\ n \in Nat /\ DOMAIN keys = 1..n /\ Range(keys) = {keys[k] : k \in 1..n}
      /\ \A j, k \in 1..n : keys[j][1] = keys[k][1] => j = k
  BY SeqFacts DEF IsSegment
<1>2. NewNode(path, value) = <<entry>> \o leaves
  BY DEF NewNode, KeyLeafNode
<1>. HIDE DEF keys, n
<1>3. IsSeq(leaves) /\ DOMAIN leaves = 1..n /\ Len(leaves) = n
  <2>1. DOMAIN leaves = 1..n /\ leaves = [k \in 1..n |-> leaves[k]]
    BY <1>1
  <2>. HIDE DEF leaves
  <2>2. QED
    BY <1>1, <2>1, FunctionIsSeq
<1>4. Range(leaves) = {KeyLeafNode(path, key) : key \in Range(keys)}
  BY <1>1, <1>3 DEF Range
<1>5. \A name : Front(Append(path, Segment(name))) = path
                /\ Last(Append(path, Segment(name))) = Segment(name)
                /\ Append(path, Segment(name)) # path
  <2>1. ASSUME NEW name
        PROVE  /\ Front(Append(path, Segment(name))) = path
               /\ Last(Append(path, Segment(name))) = Segment(name)
               /\ Append(path, Segment(name)) # path
    <3>1. Len(path) \in Nat
      BY SeqFacts
    <3>. DEFINE longer == Append(path, Segment(name))
    <3>2. Len(longer) = Len(path) + 1 /\ Front(longer) = path /\ Last(longer) = Segment(name)
      BY Appended
    <3>. HIDE DEF longer
    <3>3. longer # path
      BY <3>1, <3>2
    <3>4. QED
      BY <3>2, <3>3 DEF longer
  <2>2. QED
    BY <2>1
<1>6. DistinctPaths(leaves)
  <2>1. ASSUME NEW j \in 1..n, NEW k \in 1..n, leaves[j].path = leaves[k].path
        PROVE  j = k
    <3>1. /\ leaves[j].path = Append(path, Segment(keys[j][1]))
          /\ leaves[k].path = Append(path, Segment(keys[k][1]))
      BY <1>1 DEF KeyLeafNode
    <3>2. Segment(keys[j][1]) = Segment(keys[k][1])
      <4>1. /\ Last(Append(path, Segment(keys[j][1]))) = Segment(keys[j][1])
            /\ Last(Append(path, Segment(keys[k][1]))) = Segment(keys[k][1])
        BY <1>5
      <4>2. QED
        BY <2>1, <3>1, <4>1
    <3>3. keys[j][1] = keys[k][1]
      BY <3>2 DEF Segment
    <3>4. QED
      BY <1>1, <3>3
  <2>2. QED
    BY <1>3, <2>1 DEF DistinctPaths
<1>7. IsSeq(<<entry>>) /\ DistinctPaths(<<entry>>) /\ Range(<<entry>>) = {entry}
  <2>. HIDE DEF entry
  <2>1. IsSeq(<<entry>>) /\ Range(<<entry>>) = {entry} /\ Len(<<entry>>) = 1
    BY OneElement
  <2>2. DOMAIN <<entry>> = 1..1
    BY <2>1, SeqFacts
  <2>3. QED
    BY <2>1, <2>2 DEF DistinctPaths
<1>8. NoCommonPath(<<entry>>, leaves)
  <2>1. entry.path = path
    OBVIOUS
  <2>2. ASSUME NEW m \in Range(leaves) PROVE m.path # path
    <3>1. PICK key : m = KeyLeafNode(path, key)
      BY <1>4
    <3>2. m.path = Append(path, Segment(key[1]))
      BY <3>1 DEF KeyLeafNode
    <3>3. QED
      BY <1>5, <3>2
  <2>. HIDE DEF entry, leaves
  <2>3. QED
    BY <1>7, <2>1, <2>2 DEF NoCommonPath
<1>. HIDE DEF entry, leaves
<1>9. /\ IsSeq(<<entry>> \o leaves)
      /\ Range(<<entry>> \o leaves) = {entry} \union Range(leaves)
  BY <1>3, <1>7, Concatenation
<1>10. DistinctPaths(<<entry>> \o leaves)
  BY <1>3, <1>6, <1>7, <1>8, ConcatPaths
<1>11. QED
  BY <1>2, <1>4, <1>9, <1>10 DEF entry, keys

\* The nodes that lyd_new_path makes for the i-th segment of the path, and when.
Above(call, i) == SubSeq(call.path, 1, i)
ValueAt(call, i) == IF i = Len(call.path) THEN call.value ELSE None
NodesAt(call, i) == NewNode(Above(call, i), ValueAt(call, i))
Creates(nodes, call, i) ==
  ~HasNode(nodes, Above(call, i)) /\ ~IsKeyLeaf(call.path, i)

IsPath(path) == IsSeq(path) /\ path # <<>> /\ \A s \in Range(path) : IsSegment(s)

LEMMA PathPrefix ==
  ASSUME NEW call, IsPath(call.path), NEW i \in DOMAIN call.path
  PROVE  /\ IsSeq(Above(call, i)) /\ Above(call, i) # <<>> /\ Len(Above(call, i)) = i
         /\ Last(Above(call, i)) = call.path[i] /\ IsSegment(call.path[i])
         /\ i \in Nat \ {0} /\ (i > 1 => i - 1 \in DOMAIN call.path)
         /\ Front(Above(call, i)) = Above(call, i - 1)
         /\ IsSeq(NodesAt(call, i)) /\ DistinctPaths(NodesAt(call, i))
         /\ Range(NodesAt(call, i))
              = {[path |-> Above(call, i),
                  value |-> Stored(<<call.path[i][1], ValueAt(call, i)>>)]}
                \union {KeyLeafNode(Above(call, i), key) : key \in Range(KeyLeaves(call.path[i]))}
         /\ \A key \in Range(KeyLeaves(call.path[i])) :
              KeyLeafNode(Above(call, i), key) \in Range(NodesAt(call, i))
<1>1. /\ i \in 1..Len(call.path) /\ Len(call.path) \in Nat
      /\ IsSegment(call.path[i]) /\ DOMAIN call.path = 1..Len(call.path)
  BY SeqFacts DEF IsPath
<1>2. /\ IsSeq(Above(call, i)) /\ Above(call, i) # <<>> /\ Len(Above(call, i)) = i
      /\ Last(Above(call, i)) = call.path[i]
      /\ Front(Above(call, i)) = Above(call, i - 1)
  BY <1>1, Prefix DEF IsPath, Above
<1>3. i \in Nat \ {0} /\ (i > 1 => i - 1 \in DOMAIN call.path)
  BY <1>1
<1>4. /\ IsSeq(NodesAt(call, i)) /\ DistinctPaths(NodesAt(call, i))
      /\ Range(NodesAt(call, i))
           = {[path |-> Above(call, i),
               value |-> Stored(<<call.path[i][1], ValueAt(call, i)>>)]}
             \union {KeyLeafNode(Above(call, i), key) : key \in Range(KeyLeaves(call.path[i]))}
  BY <1>1, <1>2, NewNodes DEF NodesAt
<1>5. \A key \in Range(KeyLeaves(call.path[i])) :
        KeyLeafNode(Above(call, i), key) \in Range(NodesAt(call, i))
  BY <1>4
<1>6. QED
  BY <1>1, <1>2, <1>3, <1>4, <1>5

\* The tree keeps its nodes and gets those that the path still needs.
LEMMA NewPathNodes ==
  ASSUME NEW nodes, IsSeq(nodes), NEW call, IsPath(call.path)
  PROVE  /\ IsSeq(lyd_new_path(nodes, call))
         /\ Range(lyd_new_path(nodes, call))
              = Range(nodes) \union
                UNION {Range(NodesAt(call, i)) : i \in {j \in DOMAIN call.path : Creates(nodes, call, j)}}
         /\ DistinctPaths(nodes) /\ (\A n \in Range(nodes) : n.path # <<>>
              /\ IsSeq(n.path) /\ (Len(n.path) > 1 => HasNode(nodes, Front(n.path))))
              => DistinctPaths(lyd_new_path(nodes, call))
<1>. DEFINE n0 == Len(call.path)
            ss == [i \in DOMAIN call.path |-> If(Creates(nodes, call, i), NodesAt(call, i))]
<1>1. n0 \in Nat /\ DOMAIN call.path = 1..n0
  BY SeqFacts DEF IsPath
<1>2. lyd_new_path(nodes, call) = nodes \o FlattenSeq(ss)
  BY DEF lyd_new_path, Creates, NodesAt, Above, ValueAt
<1>3. IsSeq(ss) /\ DOMAIN ss = 1..n0
  <2>1. DOMAIN ss = 1..n0 /\ ss = [i \in 1..n0 |-> ss[i]]
    BY <1>1
  <2>. HIDE DEF ss
  <2>2. QED
    BY <1>1, <2>1, FunctionIsSeq
<1>4. ASSUME NEW i \in 1..n0
      PROVE  /\ IsSeq(ss[i])
             /\ Range(ss[i]) = IF Creates(nodes, call, i) THEN Range(NodesAt(call, i)) ELSE {}
             /\ DistinctPaths(ss[i])
  <2>1. ss[i] = If(Creates(nodes, call, i), NodesAt(call, i))
    BY <1>1
  <2>2. IsSeq(NodesAt(call, i)) /\ DistinctPaths(NodesAt(call, i))
    BY <1>1, PathPrefix
  <2>3. IsSeq(<<>>) /\ Range(<<>>) = {} /\ DOMAIN <<>> = {}
    BY NoElement
  <2>. HIDE DEF ss
  <2>4. CASE Creates(nodes, call, i)
    BY <2>1, <2>2, <2>4 DEF If
  <2>5. CASE ~Creates(nodes, call, i)
    BY <2>1, <2>3, <2>5 DEF If, DistinctPaths
  <2>6. QED
    BY <2>4, <2>5
<1>. HIDE DEF ss, n0
<1>5. IsSeq(FlattenSeq(ss)) /\ Range(FlattenSeq(ss)) = UNION {Range(ss[i]) : i \in 1..n0}
  BY <1>3, <1>4, Flattened
<1>6. /\ IsSeq(nodes \o FlattenSeq(ss))
      /\ Range(nodes \o FlattenSeq(ss)) = Range(nodes) \union Range(FlattenSeq(ss))
  BY <1>5, Concatenation
<1>7. UNION {Range(ss[i]) : i \in 1..n0}
        = UNION {Range(NodesAt(call, i)) : i \in {j \in DOMAIN call.path : Creates(nodes, call, j)}}
  <2>1. ASSUME NEW x, NEW i \in 1..n0, x \in Range(ss[i])
        PROVE  \E j \in {k \in DOMAIN call.path : Creates(nodes, call, k)} :
                 x \in Range(NodesAt(call, j))
    <3>1. Creates(nodes, call, i) /\ x \in Range(NodesAt(call, i))
      BY <1>4, <2>1
    <3>2. QED
      BY <1>1, <3>1
  <2>2. ASSUME NEW x, NEW i \in DOMAIN call.path, Creates(nodes, call, i),
               x \in Range(NodesAt(call, i))
        PROVE  \E j \in 1..n0 : x \in Range(ss[j])
    BY <1>1, <1>4, <2>2
  <2>3. QED
    BY <2>1, <2>2
<1>8. ASSUME DistinctPaths(nodes),
             \A n \in Range(nodes) : n.path # <<>> /\ IsSeq(n.path)
               /\ (Len(n.path) > 1 => HasNode(nodes, Front(n.path)))
      PROVE  DistinctPaths(nodes \o FlattenSeq(ss))
  <2>1. ASSUME NEW i \in 1..n0, NEW x \in Range(ss[i])
        PROVE  /\ Creates(nodes, call, i)
               /\ \/ x.path = Above(call, i) /\ Len(x.path) = i
                  \/ /\ Len(x.path) = i + 1 /\ Front(x.path) = Above(call, i)
                     /\ \E key \in Range(KeyLeaves(call.path[i])) : Last(x.path) = Segment(key[1])
    <3>1. Creates(nodes, call, i) /\ x \in Range(NodesAt(call, i))
      BY <1>4
    <3>2. IsSeq(Above(call, i)) /\ Len(Above(call, i)) = i
      BY <1>1, PathPrefix
    <3>3. \/ x = [path |-> Above(call, i),
                  value |-> Stored(<<call.path[i][1], ValueAt(call, i)>>)]
          \/ \E key \in Range(KeyLeaves(call.path[i])) : x = KeyLeafNode(Above(call, i), key)
      BY <1>1, <3>1, PathPrefix
    <3>4. CASE \E key \in Range(KeyLeaves(call.path[i])) : x = KeyLeafNode(Above(call, i), key)
      <4>1. PICK key \in Range(KeyLeaves(call.path[i])) : x = KeyLeafNode(Above(call, i), key)
        BY <3>4
      <4>2. x.path = Append(Above(call, i), Segment(key[1]))
        BY <4>1 DEF KeyLeafNode
      <4>3. /\ Len(x.path) = i + 1 /\ Front(x.path) = Above(call, i)
            /\ Last(x.path) = Segment(key[1])
        BY <3>2, <4>2, Appended
      <4>4. QED
        BY <3>1, <4>3
    <3>5. CASE x = [path |-> Above(call, i),
                    value |-> Stored(<<call.path[i][1], ValueAt(call, i)>>)]
      BY <3>1, <3>2, <3>5
    <3>6. QED
      BY <3>3, <3>4, <3>5
  <2>2. \A i \in 1..n0 : i \in Nat
    BY <1>1
  <2>3. ASSUME NEW i \in 1..n0, NEW j \in 1..n0, i < j PROVE NoCommonPath(ss[i], ss[j])
    <3>1. ASSUME NEW x \in Range(ss[i]), NEW y \in Range(ss[j]), x.path = y.path
          PROVE  FALSE
      <4>1. j = i + 1 /\ y.path = Above(call, j)
            /\ \E key \in Range(KeyLeaves(call.path[i])) : Last(x.path) = Segment(key[1])
        BY <2>1, <2>2, <2>3, <3>1
      <4>2. Last(y.path) = call.path[j]
        BY <1>1, <4>1, PathPrefix
      <4>3. i \in Nat \ {0}
        BY <1>1, PathPrefix
      <4>4. j > 1 /\ j - 1 = i
        BY <4>1, <4>3
      <4>5. IsKeyLeaf(call.path, j)
        BY <3>1, <4>1, <4>2, <4>4 DEF IsKeyLeaf
      <4>6. QED
        BY <2>1, <4>5 DEF Creates
    <3>2. QED
      BY <3>1 DEF NoCommonPath
  <2>4. ASSUME NEW i \in 1..n0, NEW j \in 1..n0, i # j PROVE NoCommonPath(ss[i], ss[j])
    <3>1. i < j \/ j < i
      BY <2>2, <2>4
    <3>2. QED
      BY <2>3, <3>1 DEF NoCommonPath
  <2>5. DistinctPaths(FlattenSeq(ss))
    BY <1>3, <1>4, <2>4, FlattenPaths
  <2>6. ASSUME NEW m \in Range(nodes), NEW x \in Range(FlattenSeq(ss)), m.path = x.path
        PROVE  FALSE
    <3>1. PICK i \in 1..n0 : x \in Range(ss[i])
      BY <1>5
    <3>2. ~HasNode(nodes, Above(call, i))
      BY <2>1, <3>1 DEF Creates
    <3>3. HasNode(nodes, m.path)
      BY DEF HasNode
    <3>4. x.path # Above(call, i)
      BY <2>6, <3>2, <3>3
    <3>5. Len(m.path) = i + 1 /\ Front(m.path) = Above(call, i)
      BY <2>1, <2>6, <3>1, <3>4
    <3>6. Len(m.path) > 1
      BY <2>2, <3>5
    <3>7. QED
      BY <1>8, <3>2, <3>5, <3>6
  <2>7. NoCommonPath(nodes, FlattenSeq(ss))
    BY <2>6 DEF NoCommonPath
  <2>8. QED
    BY <1>5, <1>8, <2>5, <2>7, ConcatPaths
<1>9. QED
  BY <1>2, <1>5, <1>6, <1>7, <1>8

LEMMA WellFormedFacts ==
  ASSUME NEW nodes, WellFormed(nodes)
  PROVE  /\ IsSeq(nodes) /\ DistinctPaths(nodes)
         /\ \A n \in Range(nodes) :
              /\ IsSeq(n.path) /\ n.path # <<>>
              /\ Len(n.path) > 1 => HasNode(nodes, Front(n.path))
              /\ \A key \in Range(KeyLeaves(Last(n.path))) :
                   \E leaf \in Range(nodes) :
                     leaf.path = Append(n.path, Segment(key[1])) /\ leaf.value = Stored(key)
BY DEF WellFormed, IsSeq

\* lyd_new_path keeps a tree well formed, and the whole path is there.
THEOREM NewPathKeeps ==
  ASSUME NEW nodes, WellFormed(nodes), NEW call, IsPath(call.path)
  PROVE  /\ WellFormed(lyd_new_path(nodes, call))
         /\ \A i \in DOMAIN call.path : HasNode(lyd_new_path(nodes, call), Above(call, i))
         /\ HasNode(lyd_new_path(nodes, call), call.path)
<1>. DEFINE new == lyd_new_path(nodes, call)
<1>1. IsSeq(nodes) /\ DistinctPaths(nodes)
  BY WellFormedFacts
<1>2. /\ IsSeq(new) /\ DistinctPaths(new)
      /\ Range(new) = Range(nodes) \union
           UNION {Range(NodesAt(call, i)) : i \in {j \in DOMAIN call.path : Creates(nodes, call, j)}}
  <2>1. \A n \in Range(nodes) : n.path # <<>> /\ IsSeq(n.path)
          /\ (Len(n.path) > 1 => HasNode(nodes, Front(n.path)))
    BY WellFormedFacts
  <2>2. QED
    BY <1>1, <2>1, NewPathNodes
<1>. HIDE DEF new
<1>3. Range(nodes) \subseteq Range(new)
  BY <1>2
<1>4. \A i \in DOMAIN call.path : Creates(nodes, call, i) => Range(NodesAt(call, i)) \subseteq Range(new)
  BY <1>2
<1>5. ASSUME NEW i \in DOMAIN call.path PROVE HasNode(new, Above(call, i))
  <2>1. CASE HasNode(nodes, Above(call, i))
    BY <1>3, <2>1 DEF HasNode
  <2>2. CASE Creates(nodes, call, i)
    <3>1. [path |-> Above(call, i), value |-> Stored(<<call.path[i][1], ValueAt(call, i)>>)]
            \in Range(new)
      BY <1>4, <2>2, PathPrefix
    <3>2. QED
      BY <3>1 DEF HasNode
  <2>3. CASE ~HasNode(nodes, Above(call, i)) /\ IsKeyLeaf(call.path, i)
    <3>1. PICK key \in Range(KeyLeaves(call.path[i - 1])) : call.path[i] = Segment(key[1])
      BY <2>3 DEF IsKeyLeaf
    <3>2. i > 1 /\ i - 1 \in DOMAIN call.path
      BY <2>3, PathPrefix DEF IsKeyLeaf
    <3>3. PICK j \in DOMAIN call.path : j = i - 1
      BY <3>2
    <3>4. Append(Above(call, j), Segment(key[1])) = Above(call, i)
      <4>1. Above(call, i) = Append(Front(Above(call, i)), Last(Above(call, i)))
        BY PathPrefix, FrontAndLast
      <4>2. Front(Above(call, i)) = Above(call, j) /\ Last(Above(call, i)) = call.path[i]
        BY <3>3, PathPrefix
      <4>3. QED
        BY <3>1, <4>1, <4>2
    <3>5. key \in Range(KeyLeaves(call.path[j]))
      BY <3>1, <3>3
    <3>6. ~HasNode(nodes, Above(call, j))
      <4>1. ASSUME NEW n \in Range(nodes), n.path = Above(call, j) PROVE FALSE
        <5>1. Last(n.path) = call.path[j]
          BY <4>1, PathPrefix
        <5>2. \E leaf \in Range(nodes) : leaf.path = Append(n.path, Segment(key[1]))
          BY <3>5, <5>1, WellFormedFacts
        <5>3. QED
          BY <2>3, <3>4, <4>1, <5>2 DEF HasNode
      <4>2. QED
        BY <4>1 DEF HasNode
    <3>7. ~IsKeyLeaf(call.path, j)
      <4>1. ASSUME IsKeyLeaf(call.path, j) PROVE FALSE
        <5>1. PICK name : call.path[j] = Segment(name)
          BY <4>1 DEF IsKeyLeaf
        <5>2. KeyLeaves(call.path[j]) = <<>>
          BY <5>1, NoKeys
        <5>3. QED
          BY <3>5, <5>2, NoElement
      <4>2. QED
        BY <4>1
    <3>8. KeyLeafNode(Above(call, j), key) \in Range(NodesAt(call, j))
      BY <3>5, PathPrefix
    <3>9. KeyLeafNode(Above(call, j), key) \in Range(new)
      BY <1>4, <3>6, <3>7, <3>8 DEF Creates
    <3>10. KeyLeafNode(Above(call, j), key).path = Above(call, i)
      BY <3>4 DEF KeyLeafNode
    <3>11. QED
      BY <3>9, <3>10 DEF HasNode
  <2>4. QED
    BY <2>1, <2>2, <2>3 DEF Creates
<1>6. ASSUME NEW n \in Range(new)
      PROVE  /\ IsSeq(n.path) /\ n.path # <<>>
             /\ Len(n.path) > 1 => HasNode(new, Front(n.path))
             /\ \A key \in Range(KeyLeaves(Last(n.path))) :
                  \E leaf \in Range(new) :
                    leaf.path = Append(n.path, Segment(key[1])) /\ leaf.value = Stored(key)
  <2>1. CASE n \in Range(nodes)
    <3>1. /\ IsSeq(n.path) /\ n.path # <<>>
          /\ Len(n.path) > 1 => HasNode(nodes, Front(n.path))
          /\ \A key \in Range(KeyLeaves(Last(n.path))) :
               \E leaf \in Range(nodes) :
                 leaf.path = Append(n.path, Segment(key[1])) /\ leaf.value = Stored(key)
      BY <2>1, WellFormedFacts
    <3>2. QED
      BY <1>3, <3>1 DEF HasNode
  <2>2. ASSUME NEW i \in DOMAIN call.path, Creates(nodes, call, i),
               n.path = Above(call, i)
        PROVE  /\ IsSeq(n.path) /\ n.path # <<>>
               /\ Len(n.path) > 1 => HasNode(new, Front(n.path))
               /\ \A key \in Range(KeyLeaves(Last(n.path))) :
                    \E leaf \in Range(new) :
                      leaf.path = Append(n.path, Segment(key[1])) /\ leaf.value = Stored(key)
    <3>1. /\ IsSeq(n.path) /\ n.path # <<>> /\ Len(n.path) = i /\ i \in Nat \ {0}
          /\ Last(n.path) = call.path[i] /\ Front(n.path) = Above(call, i - 1)
          /\ (i > 1 => i - 1 \in DOMAIN call.path)
      <4>1. /\ IsSeq(Above(call, i)) /\ Above(call, i) # <<>> /\ Len(Above(call, i)) = i
            /\ Last(Above(call, i)) = call.path[i] /\ i \in Nat \ {0}
            /\ (i > 1 => i - 1 \in DOMAIN call.path) /\ Front(Above(call, i)) = Above(call, i - 1)
        BY <2>2, PathPrefix
      <4>2. QED
        BY <2>2, <4>1
    <3>2. Len(n.path) > 1 => HasNode(new, Front(n.path))
      BY <1>5, <3>1
    <3>3. ASSUME NEW key \in Range(KeyLeaves(Last(n.path)))
          PROVE  KeyLeafNode(n.path, key) \in Range(new)
      <4>1. key \in Range(KeyLeaves(call.path[i]))
        BY <3>1
      <4>2. KeyLeafNode(Above(call, i), key) \in Range(NodesAt(call, i))
        BY <4>1, PathPrefix
      <4>3. QED
        BY <1>4, <2>2, <4>2
    <3>4. QED
      BY <3>1, <3>2, <3>3 DEF KeyLeafNode
  <2>3. ASSUME NEW i \in DOMAIN call.path, NEW key \in Range(KeyLeaves(call.path[i])),
               n = KeyLeafNode(Above(call, i), key)
        PROVE  /\ IsSeq(n.path) /\ n.path # <<>>
               /\ Len(n.path) > 1 => HasNode(new, Front(n.path))
               /\ \A k \in Range(KeyLeaves(Last(n.path))) :
                    \E leaf \in Range(new) :
                      leaf.path = Append(n.path, Segment(k[1])) /\ leaf.value = Stored(k)
    <3>1. n.path = Append(Above(call, i), Segment(key[1])) /\ IsSeq(Above(call, i))
      BY <2>3, PathPrefix DEF KeyLeafNode
    <3>2. /\ IsSeq(n.path) /\ n.path # <<>>
          /\ Front(n.path) = Above(call, i) /\ Last(n.path) = Segment(key[1])
      BY <3>1, Appended
    <3>3. Range(KeyLeaves(Last(n.path))) = {}
      BY <3>2, NoKeys, NoElement
    <3>4. QED
      BY <1>5, <3>2, <3>3
  <2>4. CASE n \notin Range(nodes)
    <3>1. PICK i \in DOMAIN call.path : Creates(nodes, call, i) /\ n \in Range(NodesAt(call, i))
      BY <1>2, <2>4
    <3>2. \/ n = [path |-> Above(call, i),
                  value |-> Stored(<<call.path[i][1], ValueAt(call, i)>>)]
          \/ \E key \in Range(KeyLeaves(call.path[i])) : n = KeyLeafNode(Above(call, i), key)
      BY <3>1, PathPrefix
    <3>3. CASE n.path = Above(call, i)
      BY <2>2, <3>1, <3>3
    <3>4. CASE \E key \in Range(KeyLeaves(call.path[i])) : n = KeyLeafNode(Above(call, i), key)
      BY <2>3, <3>4
    <3>5. QED
      BY <3>2, <3>3, <3>4
  <2>5. QED
    BY <2>1, <2>4
<1>7. WellFormed(new)
  BY <1>2, <1>6 DEF WellFormed, IsSeq
<1>8. HasNode(new, call.path)
  <2>1. Len(call.path) \in DOMAIN call.path /\ Len(call.path) \in 1..Len(call.path)
    BY SeqFacts DEF IsPath
  <2>2. Above(call, Len(call.path)) = call.path
    BY <2>1, Prefix DEF Above, IsPath
  <2>3. QED
    BY <1>5, <2>1, <2>2
<1>9. QED
  BY <1>5, <1>7, <1>8 DEF new

-----------------------------------------------------------------------------
(* Paths and the nodes on them *)

LEMMA LongerPath ==
  ASSUME NEW path, IsSeq(path), NEW segment, IsSegment(segment),
         \A s \in Range(path) : IsSegment(s)
  PROVE  /\ IsPath(Append(path, segment))
         /\ Range(Append(path, segment)) = Range(path) \union {segment}
         /\ Front(Append(path, segment)) = path /\ Last(Append(path, segment)) = segment
<1>1. /\ IsSeq(Append(path, segment)) /\ Append(path, segment) # <<>>
      /\ Range(Append(path, segment)) = Range(path) \union {segment}
      /\ Front(Append(path, segment)) = path /\ Last(Append(path, segment)) = segment
  BY Appended
<1>2. QED
  BY <1>1 DEF IsPath

\* All nodes that a call can create.
NodesOf(call) == UNION {Range(NodesAt(call, i)) : i \in DOMAIN call.path}

\* What a path with one more segment adds to them.
LEMMA NodesOfLonger ==
  ASSUME NEW path, IsSeq(path), \A s \in Range(path) : IsSegment(s),
         NEW segment, IsSegment(segment), NEW value, NEW needs
  PROVE  NodesOf(PathCall(Append(path, segment), value, needs))
           \subseteq NodesOf(PathCall(path, None, {}))
             \union Range(NewNode(Append(path, segment), value))
<1>. DEFINE longer == Append(path, segment)
            n == Len(path)
            call == PathCall(longer, value, needs)
            parent == PathCall(path, None, {})
<1>1. /\ n \in Nat /\ DOMAIN path = 1..n
      /\ IsSeq(longer) /\ Len(longer) = n + 1 /\ DOMAIN longer = 1..(n + 1)
      /\ path \in Seq(Range(path) \union {segment}) /\ segment \in Range(path) \union {segment}
  BY SeqFacts, Appended, InSeq
<1>2. call.path = longer /\ call.value = value /\ parent.path = path /\ parent.value = None
  BY DEF PathCall
<1>3. ASSUME NEW i \in 1..n
      PROVE  NodesAt(call, i) = NodesAt(parent, i)
  <2>1. SubSeq(longer, 1, i) = SubSeq(path, 1, i)
    <3>. DEFINE A == Range(path) \union {segment}
    <3>1. path \in Seq(A) /\ segment \in A /\ i \in 1..Len(path)
      BY <1>1
    <3>. HIDE DEF A, n
    <3>2. QED
      BY <3>1
  <2>2. ValueAt(call, i) = None /\ ValueAt(parent, i) = None
    BY <1>1, <1>2 DEF ValueAt
  <2>. HIDE DEF call, parent, longer
  <2>3. QED
    BY <1>2, <2>1, <2>2 DEF NodesAt, Above
<1>4. NodesAt(call, n + 1) = NewNode(longer, value)
  <2>1. SubSeq(longer, 1, n + 1) = longer
    <3>1. n + 1 \in 1..Len(longer)
      BY <1>1
    <3>2. QED
      BY <1>1, <3>1, Prefix
  <2>2. ValueAt(call, n + 1) = value
    BY <1>1, <1>2 DEF ValueAt
  <2>. HIDE DEF call, parent, longer
  <2>3. QED
    BY <1>2, <2>1, <2>2 DEF NodesAt, Above
<1>. HIDE DEF call, parent, longer, n
<1>5. ASSUME NEW x \in NodesOf(call)
      PROVE  x \in NodesOf(parent) \/ x \in Range(NewNode(longer, value))
  <2>1. PICK i \in 1..(n + 1) : x \in Range(NodesAt(call, i))
    BY <1>1, <1>2 DEF NodesOf
  <2>2. CASE i = n + 1
    BY <1>4, <2>1, <2>2
  <2>3. CASE i # n + 1
    <3>1. i \in 1..n
      BY <1>1, <2>3
    <3>2. QED
      BY <1>1, <1>2, <1>3, <2>1, <3>1 DEF NodesOf
  <2>4. QED
    BY <2>2, <2>3
<1>6. QED
  BY <1>5 DEF call, parent, longer

LEMMA NodesOfNoPath == NodesOf(PathCall(<<>>, None, {})) = {}
<1>1. DOMAIN PathCall(<<>>, None, {}).path = {}
  BY DEF PathCall
<1>2. QED
  BY <1>1 DEF NodesOf

\* A call creates no other nodes.
LEMMA NewPathAdds ==
  ASSUME NEW nodes, IsSeq(nodes), NEW call, IsPath(call.path)
  PROVE  /\ Range(nodes) \subseteq Range(lyd_new_path(nodes, call))
         /\ Range(lyd_new_path(nodes, call)) \subseteq Range(nodes) \union NodesOf(call)
<1>1. Range(lyd_new_path(nodes, call))
        = Range(nodes) \union
          UNION {Range(NodesAt(call, i)) : i \in {j \in DOMAIN call.path : Creates(nodes, call, j)}}
  BY NewPathNodes
<1>2. QED
  BY <1>1 DEF NodesOf

-----------------------------------------------------------------------------
(* The calls that serialize makes for an interface *)

EntryPath(name) == << Entry("interface", <<name>>) >>
BoxPath(name, container) == Append(EntryPath(name), Segment(container))
AddressPath(name, container, ip) ==
  Append(BoxPath(name, container), Entry("address", <<ip>>))

LEMMA AppendToOne ==
  ASSUME NEW r, IsSeq(r), Len(r) = 1, NEW b
  PROVE  /\ Append(r, b) = [k \in 1..2 |-> Append(r, b)[k]]
         /\ Append(r, b)[1] = r[1] /\ Append(r, b)[2] = b
<1>. DEFINE s == Append(r, b)
<1>1. IsSeq(s) /\ Len(s) = Len(r) + 1 /\ s[Len(r) + 1] = b
      /\ \A k \in 1..Len(r) : s[k] = r[k]
  BY Appended
<1>. HIDE DEF s
<1>2. Len(s) = 2 /\ s[2] = b /\ s[1] = r[1]
  BY <1>1
<1>3. s = [k \in 1..2 |-> s[k]]
  BY <1>1, <1>2, SeqFacts
<1>4. QED
  BY <1>2, <1>3 DEF s

LEMMA TwoElements ==
  ASSUME NEW a, NEW b
  PROVE  Append(<<a>>, b) = <<a, b>>
<1>. DEFINE r == <<a>>
            s == Append(r, b)
            t == <<a, b>>
<1>1. IsSeq(r) /\ Len(r) = 1 /\ r[1] = a
  BY OneElement
<1>. HIDE DEF r
<1>2. s = [k \in 1..2 |-> s[k]] /\ s[1] = a /\ s[2] = b
  BY <1>1, AppendToOne
<1>3. t \in Seq({a, b}) /\ Len(t) = 2 /\ t[1] = a /\ t[2] = b
  OBVIOUS
<1>. HIDE DEF s, t
<1>4. t = [k \in 1..2 |-> t[k]]
  BY <1>3, SequenceOver, SeqFacts
<1>5. s = t
  BY <1>2, <1>3, <1>4
<1>6. QED
  BY <1>5 DEF r, s, t

LEMMA OneKey ==
  ASSUME NEW list, NEW leaf, KeyOf[list] = <<leaf>>, NEW key, <<key>> # None
  PROVE  /\ IsSegment(Entry(list, <<key>>))
         /\ Range(KeyLeaves(Entry(list, <<key>>))) = {<<leaf, key>>}
<1>1. Entry(list, <<key>>)[1] = list /\ Entry(list, <<key>>)[2] = <<key>>
  BY DEF Entry
<1>2. DOMAIN <<key>> = 1..1 /\ <<key>>[1] = key /\ <<leaf>>[1] = leaf
  BY OneElement, SeqFacts
<1>. DEFINE keys == KeyLeaves(Entry(list, <<key>>))
<1>3. keys = [k \in 1..1 |-> <<leaf, key>>]
  <2>1. keys = [k \in 1..1 |-> <<KeyOf[list][k], <<key>>[k]>>]
    BY <1>1, <1>2 DEF KeyLeaves
  <2>2. \A k \in 1..1 : <<KeyOf[list][k], <<key>>[k]>> = <<leaf, key>>
    BY <1>2
  <2>. HIDE DEF keys
  <2>3. QED
    BY <2>1, <2>2
<1>. HIDE DEF keys
<1>4. IsSeq(keys) /\ DOMAIN keys = 1..1
  <2>1. DOMAIN keys = 1..1 /\ keys = [k \in 1..1 |-> keys[k]]
    BY <1>3
  <2>2. QED
    BY <2>1, FunctionIsSeq
<1>5. Range(keys) = {<<leaf, key>>}
  BY <1>3, <1>4 DEF Range
<1>6. QED
  BY <1>4, <1>5 DEF IsSegment, keys

\* The segments of interface data.
LEMMA InterfaceSegments ==
  /\ \A name \in Names :
       /\ IsSegment(Entry("interface", <<name>>))
       /\ Range(KeyLeaves(Entry("interface", <<name>>))) = {<<"name", name>>}
  /\ \A ip \in Ips :
       /\ IsSegment(Entry("address", <<ip>>))
       /\ Range(KeyLeaves(Entry("address", <<ip>>))) = {<<"ip", ip>>}
  /\ \A node : IsSegment(Segment(node)) /\ Range(KeyLeaves(Segment(node))) = {}
BY OneKey, NoKeys, NoElement, InterfaceSchemaAssumption

LEMMA InterfacePaths ==
  ASSUME NEW name \in Names
  PROVE  /\ IsPath(EntryPath(name)) /\ Range(EntryPath(name)) = {Entry("interface", <<name>>)}
         /\ Last(EntryPath(name)) = Entry("interface", <<name>>)
         /\ EntryPath(name) = Append(<<>>, Entry("interface", <<name>>))
         /\ \A container :
              /\ IsPath(BoxPath(name, container))
              /\ Last(BoxPath(name, container)) = Segment(container)
              /\ Front(BoxPath(name, container)) = EntryPath(name)
              /\ Entry("interface", <<name>>) \in Range(BoxPath(name, container))
              /\ \A ip \in Ips :
                   /\ IsPath(AddressPath(name, container, ip))
                   /\ Last(AddressPath(name, container, ip)) = Entry("address", <<ip>>)
                   /\ Front(AddressPath(name, container, ip)) = BoxPath(name, container)
                   /\ Entry("interface", <<name>>) \in Range(AddressPath(name, container, ip))
<1>1. IsSegment(Entry("interface", <<name>>))
  BY InterfaceSegments
<1>2. /\ IsPath(EntryPath(name)) /\ Range(EntryPath(name)) = {Entry("interface", <<name>>)}
      /\ EntryPath(name) = Append(<<>>, Entry("interface", <<name>>))
      /\ Last(EntryPath(name)) = Entry("interface", <<name>>)
  <2>1. EntryPath(name) = Append(<<>>, Entry("interface", <<name>>))
    <3>. DEFINE x == Entry("interface", <<name>>)
    <3>1. Append(<<>>, x) = <<x>>
      OBVIOUS
    <3>2. QED
      BY <3>1 DEF EntryPath
  <2>. DEFINE none == <<>>
  <2>2. IsSeq(none) /\ Range(none) = {}
    BY NoElement
  <2>3. EntryPath(name) = Append(none, Entry("interface", <<name>>))
    BY <2>1
  <2>. HIDE DEF none
  <2>4. IsPath(EntryPath(name)) /\ Range(EntryPath(name)) = {Entry("interface", <<name>>)}
        /\ Last(EntryPath(name)) = Entry("interface", <<name>>)
    BY <1>1, <2>2, <2>3, LongerPath
  <2>5. QED
    BY <2>1, <2>4
<1>3. ASSUME NEW container
      PROVE  /\ IsPath(BoxPath(name, container))
             /\ Range(BoxPath(name, container))
                  = {Entry("interface", <<name>>), Segment(container)}
             /\ Last(BoxPath(name, container)) = Segment(container)
             /\ Front(BoxPath(name, container)) = EntryPath(name)
  <2>1. IsSegment(Segment(container))
    BY InterfaceSegments
  <2>2. QED
    BY <1>1, <1>2, <2>1, LongerPath DEF BoxPath, IsPath
<1>4. ASSUME NEW container, NEW ip \in Ips
      PROVE  /\ IsPath(AddressPath(name, container, ip))
             /\ Last(AddressPath(name, container, ip)) = Entry("address", <<ip>>)
             /\ Front(AddressPath(name, container, ip)) = BoxPath(name, container)
             /\ Entry("interface", <<name>>) \in Range(AddressPath(name, container, ip))
  <2>1. IsSegment(Entry("address", <<ip>>))
    BY InterfaceSegments
  <2>2. QED
    BY <1>3, <2>1, LongerPath DEF AddressPath, IsPath
<1>5. QED
  BY <1>2, <1>3, <1>4

LEMMA AddressPaths ==
  ASSUME NEW name \in Names, NEW container, NEW ip \in Ips
  PROVE  /\ IsPath(AddressPath(name, container, ip))
         /\ Last(AddressPath(name, container, ip)) = Entry("address", <<ip>>)
         /\ Front(AddressPath(name, container, ip)) = BoxPath(name, container)
<1>1. IsPath(BoxPath(name, container))
  BY InterfacePaths
<1>2. IsSegment(Entry("address", <<ip>>))
  BY InterfaceSegments
<1>3. QED
  BY <1>1, <1>2, LongerPath DEF AddressPath, IsPath

\* The calls of an interface, one by one.
IsNameCall(c, i) == c = PathCall(Append(EntryPath(i.name), Segment("name")), i.name, {})
IsDescriptionCall(c, i) ==
  /\ i.description # None
  /\ c = PathCall(Append(EntryPath(i.name), Segment("description")), i.description, {})
IsEnabledCall(c, i) ==
  ~i.enabled /\ c = PathCall(Append(EntryPath(i.name), Segment("enabled")), "false", {})
IsTypeCall(c, i) ==
  /\ i.type # None
  /\ c = PathCall(Append(EntryPath(i.name), Segment("type")),
                  ianaIfTypeToString(i.type), {"ianaift"})
IsMtuCall(c, name, container, ip) ==
  /\ ip # None /\ ip.mtu # None
  /\ c = PathCall(Append(BoxPath(name, container), Segment("mtu")), ip.mtu, {"ip"})
IsAddressCall(c, name, container, ip) ==
  ip # None /\ \E a \in Range(ip.address) :
    \/ c = PathCall(Append(AddressPath(name, container, a.ip), Segment("ip")), a.ip, {"ip"})
    \/ /\ a.plen # None
       /\ c = PathCall(Append(AddressPath(name, container, a.ip), Segment("prefix-length")),
                       a.plen, {"ip"})
IsIpCall(c, name, container, ip) ==
  IsMtuCall(c, name, container, ip) \/ IsAddressCall(c, name, container, ip)

IsLeafCall(c, i) ==
  IsNameCall(c, i) \/ IsDescriptionCall(c, i) \/ IsEnabledCall(c, i) \/ IsTypeCall(c, i)

IsCall(c, i) ==
  \/ IsLeafCall(c, i)
  \/ IsIpCall(c, i.name, "ipv4", i.ipv4) \/ IsIpCall(c, i.name, "ipv6", i.ipv6)

LEMMA OneIf ==
  ASSUME NEW condition \in BOOLEAN, NEW x
  PROVE  /\ IsSeq(If(condition, <<x>>))
         /\ \A y : y \in Range(If(condition, <<x>>)) <=> condition /\ y = x
BY IfFacts, OneElement

LEMMA TheLeafCalls ==
  ASSUME NEW i, i.enabled \in BOOLEAN
  PROVE  IsSeq(LeafCalls(i)) /\ \A c : c \in Range(LeafCalls(i)) <=> IsLeafCall(c, i)
<1>. DEFINE Leaf(node, value, needs) ==
              << PathCall(<< Entry("interface", <<i.name>>), Segment(node) >>, value, needs) >>
            s1 == Leaf("name", i.name, {})
            s2 == If(i.description # None, Leaf("description", i.description, {}))
            s3 == If(~i.enabled, Leaf("enabled", "false", {}))
            s4 == If(i.type # None, Leaf("type", ianaIfTypeToString(i.type), {"ianaift"}))
<1>1. LeafCalls(i) = s1 \o s2 \o s3 \o s4
  BY DEF LeafCalls
<1>2. \A node : << Entry("interface", <<i.name>>), Segment(node) >>
                  = Append(EntryPath(i.name), Segment(node))
  BY TwoElements DEF EntryPath
<1>3. IsSeq(s1) /\ \A c : c \in Range(s1) <=> IsNameCall(c, i)
  <2>1. Range(s1) = {PathCall(<<Entry("interface", <<i.name>>), Segment("name")>>, i.name, {})}
        /\ IsSeq(s1)
    BY OneElement
  <2>. HIDE DEF s1
  <2>2. QED
    BY <1>2, <2>1 DEF IsNameCall
<1>4. IsSeq(s2) /\ \A c : c \in Range(s2) <=> IsDescriptionCall(c, i)
  <2>. DEFINE x == PathCall(<<Entry("interface", <<i.name>>), Segment("description")>>,
                            i.description, {})
  <2>1. s2 = If(i.description # None, <<x>>)
    OBVIOUS
  <2>2. IsSeq(s2) /\ \A c : c \in Range(s2) <=> i.description # None /\ c = x
    <3>. HIDE DEF s2, x
    <3>1. QED
      BY <2>1, OneIf
  <2>. HIDE DEF s2
  <2>3. QED
    BY <1>2, <2>2 DEF IsDescriptionCall
<1>5. IsSeq(s3) /\ \A c : c \in Range(s3) <=> IsEnabledCall(c, i)
  <2>. DEFINE x == PathCall(<<Entry("interface", <<i.name>>), Segment("enabled")>>, "false", {})
  <2>1. s3 = If(~i.enabled, <<x>>)
    OBVIOUS
  <2>2. IsSeq(s3) /\ \A c : c \in Range(s3) <=> ~i.enabled /\ c = x
    <3>. HIDE DEF s3, x
    <3>1. QED
      BY <2>1, OneIf
  <2>. HIDE DEF s3
  <2>3. QED
    BY <1>2, <2>2 DEF IsEnabledCall
<1>6. IsSeq(s4) /\ \A c : c \in Range(s4) <=> IsTypeCall(c, i)
  <2>. DEFINE x == PathCall(<<Entry("interface", <<i.name>>), Segment("type")>>,
                            ianaIfTypeToString(i.type), {"ianaift"})
  <2>1. s4 = If(i.type # None, <<x>>)
    OBVIOUS
  <2>2. IsSeq(s4) /\ \A c : c \in Range(s4) <=> i.type # None /\ c = x
    <3>. HIDE DEF s4, x
    <3>1. QED
      BY <2>1, OneIf
  <2>. HIDE DEF s4
  <2>3. QED
    BY <1>2, <2>2 DEF IsTypeCall
<1>. HIDE DEF s1, s2, s3, s4
<1>7. IsSeq(s1 \o s2) /\ Range(s1 \o s2) = Range(s1) \union Range(s2)
  BY <1>3, <1>4, Concatenation
<1>8. /\ IsSeq(s1 \o s2 \o s3)
      /\ Range(s1 \o s2 \o s3) = Range(s1) \union Range(s2) \union Range(s3)
  BY <1>5, <1>7, Concatenation
<1>9. /\ IsSeq(s1 \o s2 \o s3 \o s4)
      /\ Range(s1 \o s2 \o s3 \o s4)
           = Range(s1) \union Range(s2) \union Range(s3) \union Range(s4)
  BY <1>6, <1>8, Concatenation
<1>10. QED
  BY <1>1, <1>3, <1>4, <1>5, <1>6, <1>9 DEF IsLeafCall

LEMMA TheAddressCalls ==
  ASSUME NEW name, NEW container, NEW a
  PROVE  LET cs == AddressCalls(BoxPath(name, container), a) IN
         /\ IsSeq(cs)
         /\ \A c : c \in Range(cs) <=>
              \/ c = PathCall(Append(AddressPath(name, container, a.ip), Segment("ip")), a.ip, {"ip"})
              \/ /\ a.plen # None
                 /\ c = PathCall(Append(AddressPath(name, container, a.ip),
                                        Segment("prefix-length")), a.plen, {"ip"})
<1>. DEFINE base == AddressPath(name, container, a.ip)
            x == PathCall(Append(base, Segment("ip")), a.ip, {"ip"})
            y == PathCall(Append(base, Segment("prefix-length")), a.plen, {"ip"})
            cs == AddressCalls(BoxPath(name, container), a)
            s1 == <<x>>
            s2 == If(a.plen # None, <<y>>)
<1>1. cs = s1 \o s2
  BY DEF AddressCalls, AddressPath
<1>. HIDE DEF x, y, cs
<1>2. IsSeq(s1) /\ Range(s1) = {x}
  BY OneElement
<1>3. IsSeq(s2) /\ \A c : c \in Range(s2) <=> a.plen # None /\ c = y
  BY OneIf
<1>. HIDE DEF s1, s2
<1>4. IsSeq(cs) /\ Range(cs) = {x} \union Range(s2)
  BY <1>1, <1>2, <1>3, Concatenation
<1>5. \A c : c \in Range(cs) <=> c = x \/ (a.plen # None /\ c = y)
  BY <1>3, <1>4
<1>6. QED
  BY <1>4, <1>5 DEF x, y, cs

LEMMA TheIpCalls ==
  ASSUME NEW name, NEW container, NEW ip \in Optional(Ip)
  PROVE  /\ IsSeq(IpCalls(name, container, ip))
         /\ \A c : c \in Range(IpCalls(name, container, ip)) <=> IsIpCall(c, name, container, ip)
<1>1. CASE ip = None
  <2>1. IpCalls(name, container, ip) = <<>>
    BY <1>1 DEF IpCalls, If
  <2>2. \A c : ~IsIpCall(c, name, container, ip)
    BY <1>1 DEF IsIpCall, IsMtuCall, IsAddressCall
  <2>3. QED
    BY <2>1, <2>2, NoElement
<1>2. CASE ip # None
  <2>. DEFINE box == BoxPath(name, container)
              ss == [k \in DOMAIN ip.address |-> AddressCalls(box, ip.address[k])]
              x == PathCall(Append(box, Segment("mtu")), ip.mtu, {"ip"})
              mtu == If(ip.mtu # None, <<x>>)
              n == Len(ip.address)
  <2>1. << Entry("interface", <<name>>), Segment(container) >> = box
    BY TwoElements DEF BoxPath, EntryPath
  <2>2. IpCalls(name, container, ip) = FlattenSeq(ss) \o mtu
    BY <1>2, <2>1 DEF IpCalls, If
  <2>3. IsSeq(mtu) /\ \A c : c \in Range(mtu) <=> ip.mtu # None /\ c = x
    <3>. HIDE DEF x
    <3>1. QED
      BY OneIf
  <2>4. ip.address \in Seq(Address)
    BY <1>2 DEF Optional, Ip
  <2>5. /\ n \in Nat /\ DOMAIN ip.address = 1..n
        /\ Range(ip.address) = {ip.address[k] : k \in 1..n}
    BY <2>4, SequenceOver, SeqFacts
  <2>6. IsSeq(ss) /\ DOMAIN ss = 1..n
    <3>1. DOMAIN ss = 1..n /\ ss = [k \in 1..n |-> ss[k]]
      BY <2>5
    <3>. HIDE DEF ss
    <3>2. QED
      BY <2>5, <3>1, FunctionIsSeq
  <2>7. \A k \in 1..n : ss[k] = AddressCalls(box, ip.address[k])
    BY <2>5
  <2>. HIDE DEF ss, mtu, n, x
  <2>8. \A k \in 1..n : IsSeq(ss[k])
    BY <2>7, TheAddressCalls
  <2>9. IsSeq(FlattenSeq(ss)) /\ Range(FlattenSeq(ss)) = UNION {Range(ss[k]) : k \in 1..n}
    BY <2>6, <2>8, Flattened
  <2>10. \A c : c \in Range(FlattenSeq(ss)) <=> IsAddressCall(c, name, container, ip)
    <3>. DEFINE Of(c, a) ==
           \/ c = PathCall(Append(AddressPath(name, container, a.ip), Segment("ip")), a.ip, {"ip"})
           \/ /\ a.plen # None
              /\ c = PathCall(Append(AddressPath(name, container, a.ip),
                                     Segment("prefix-length")), a.plen, {"ip"})
    <3>1. \A k \in 1..n : \A c : c \in Range(ss[k]) <=> Of(c, ip.address[k])
      BY <2>7, TheAddressCalls
    <3>2. \A c : IsAddressCall(c, name, container, ip)
                 <=> \E a \in Range(ip.address) : Of(c, a)
      BY <1>2 DEF IsAddressCall
    <3>. HIDE DEF Of
    <3>3. ASSUME NEW c, c \in Range(FlattenSeq(ss)) PROVE \E a \in Range(ip.address) : Of(c, a)
      <4>1. PICK k \in 1..n : c \in Range(ss[k])
        BY <2>9, <3>3
      <4>2. QED
        BY <2>5, <3>1, <4>1
    <3>4. ASSUME NEW c, NEW a \in Range(ip.address), Of(c, a) PROVE c \in Range(FlattenSeq(ss))
      <4>1. PICK k \in 1..n : a = ip.address[k]
        BY <2>5
      <4>2. c \in Range(ss[k])
        BY <3>1, <3>4, <4>1
      <4>3. QED
        BY <2>9, <4>2
    <3>5. QED
      BY <3>2, <3>3, <3>4
  <2>11. /\ IsSeq(FlattenSeq(ss) \o mtu)
         /\ Range(FlattenSeq(ss) \o mtu) = Range(FlattenSeq(ss)) \union Range(mtu)
    BY <2>3, <2>9, Concatenation
  <2>12. \A c : IsMtuCall(c, name, container, ip) <=> ip.mtu # None /\ c = x
    BY <1>2 DEF IsMtuCall, x
  <2>13. QED
    BY <2>2, <2>3, <2>10, <2>11, <2>12 DEF IsIpCall
<1>3. QED
  BY <1>1, <1>2

LEMMA InterfaceFields ==
  ASSUME NEW i \in Interface
  PROVE  /\ i.name \in Names /\ i.description \in Optional(Texts) /\ i.enabled \in BOOLEAN
         /\ i.type \in Optional(IanaIfType) /\ i.oper_status \in Optional(Texts)
         /\ i.ipv4 \in Optional(Ip) /\ i.ipv6 \in Optional(Ip)
BY DEF Interface

LEMMA TheCalls ==
  ASSUME NEW i \in Interface
  PROVE  IsSeq(Calls(i)) /\ \A c : c \in Range(Calls(i)) <=> IsCall(c, i)
<1>. DEFINE s1 == LeafCalls(i)
            s2 == IpCalls(i.name, "ipv4", i.ipv4)
            s3 == IpCalls(i.name, "ipv6", i.ipv6)
<1>1. IsSeq(s1) /\ \A c : c \in Range(s1) <=> IsLeafCall(c, i)
  BY InterfaceFields, TheLeafCalls
<1>2. IsSeq(s2) /\ \A c : c \in Range(s2) <=> IsIpCall(c, i.name, "ipv4", i.ipv4)
  BY InterfaceFields, TheIpCalls
<1>3. IsSeq(s3) /\ \A c : c \in Range(s3) <=> IsIpCall(c, i.name, "ipv6", i.ipv6)
  BY InterfaceFields, TheIpCalls
<1>4. Calls(i) = s1 \o s2 \o s3
  BY DEF Calls
<1>. HIDE DEF s1, s2, s3
<1>5. IsSeq(s1 \o s2) /\ Range(s1 \o s2) = Range(s1) \union Range(s2)
  BY <1>1, <1>2, Concatenation
<1>6. /\ IsSeq(s1 \o s2 \o s3)
      /\ Range(s1 \o s2 \o s3) = Range(s1) \union Range(s2) \union Range(s3)
  BY <1>3, <1>5, Concatenation
<1>7. QED
  BY <1>1, <1>2, <1>3, <1>4, <1>6 DEF IsCall

-----------------------------------------------------------------------------
(* The nodes that these calls create *)

IsLeaf(n, path, node, value) == n.path = Append(path, Segment(node)) /\ n.value = value

MadeAddress(n, name, container, a) ==
  LET base == AddressPath(name, container, a.ip) IN
  \/ n.path = base
  \/ IsLeaf(n, base, "ip", a.ip)
  \/ a.plen # None /\ IsLeaf(n, base, "prefix-length", a.plen)

MadeIp(n, name, container, ip) ==
  /\ ip # None
  /\ \/ n.path = BoxPath(name, container)
     \/ ip.mtu # None /\ IsLeaf(n, BoxPath(name, container), "mtu", ip.mtu)
     \/ \E a \in Range(ip.address) : MadeAddress(n, name, container, a)

MadeEntry(n, name) ==
  n.path = EntryPath(name) \/ IsLeaf(n, EntryPath(name), "name", name)

\* What an interface can have in the tree.
Made(n, i) ==
  \/ MadeEntry(n, i.name)
  \/ i.description # None /\ IsLeaf(n, EntryPath(i.name), "description", i.description)
  \/ ~i.enabled /\ IsLeaf(n, EntryPath(i.name), "enabled", "false")
  \/ i.type # None /\ IsLeaf(n, EntryPath(i.name), "type", ianaIfTypeToString(i.type))
  \/ MadeIp(n, i.name, "ipv4", i.ipv4)
  \/ MadeIp(n, i.name, "ipv6", i.ipv6)

LEMMA StoredAsIs ==
  /\ \A name \in Names : Stored(<<"name", name>>) = name
  /\ \A text \in Texts : Stored(<<"description", text>>) = text
  /\ Stored(<<"enabled", "false">>) = "false"
  /\ \A t \in IanaIfType : Stored(<<"type", ianaIfTypeToString(t)>>) = ianaIfTypeToString(t)
  /\ \A ip \in Ips : Stored(<<"ip", ip>>) = ip
  /\ \A plen \in Lens : Stored(<<"prefix-length", plen>>) = plen
  /\ \A mtu \in Mtus : Stored(<<"mtu", mtu>>) = mtu
<1>1. \A leaf \in InterfaceLeaves : Stored(leaf) = leaf[2]
  BY InterfaceSchemaAssumption DEF Stored
<1>2. \A t \in IanaIfType : ianaIfTypeToString(t) \in Range(TypeName) \union {"unknown"}
  BY InterfaceDataAssumption DEF ianaIfTypeToString, Range
<1>3. /\ \A name \in Names : <<"name", name>> \in InterfaceLeaves
      /\ \A text \in Texts : <<"description", text>> \in InterfaceLeaves
      /\ <<"enabled", "false">> \in InterfaceLeaves
      /\ \A t \in IanaIfType : <<"type", ianaIfTypeToString(t)>> \in InterfaceLeaves
      /\ \A ip \in Ips : <<"ip", ip>> \in InterfaceLeaves
      /\ \A plen \in Lens : <<"prefix-length", plen>> \in InterfaceLeaves
      /\ \A mtu \in Mtus : <<"mtu", mtu>> \in InterfaceLeaves
  BY <1>2 DEF InterfaceLeaves
<1>4. \A a, b : <<a, b>>[2] = b
  OBVIOUS
<1>5. QED
  BY <1>1, <1>3, <1>4

LEMMA LeafNode ==
  ASSUME NEW path, IsSeq(path), \A s \in Range(path) : IsSegment(s),
         NEW node, NEW value, NEW needs,
         NEW n \in NodesOf(PathCall(Append(path, Segment(node)), value, needs))
  PROVE  \/ n \in NodesOf(PathCall(path, None, {}))
         \/ IsLeaf(n, path, node, Stored(<<node, value>>))
<1>. DEFINE longer == Append(path, Segment(node))
<1>1. IsSegment(Segment(node)) /\ KeyLeaves(Segment(node)) = <<>> /\ Segment(node)[1] = node
  BY NoKeys DEF Segment
<1>2. IsPath(longer) /\ Last(longer) = Segment(node)
  BY <1>1, LongerPath
<1>3. n \in NodesOf(PathCall(path, None, {})) \/ n \in Range(NewNode(longer, value))
  BY <1>1, NodesOfLonger
<1>. HIDE DEF longer
<1>4. Range(NewNode(longer, value)) =
        {[path |-> longer, value |-> Stored(<<Last(longer)[1], value>>)]}
        \union {KeyLeafNode(longer, key) : key \in Range(KeyLeaves(Last(longer)))}
  BY <1>1, <1>2, NewNodes DEF IsPath
<1>5. Range(KeyLeaves(Last(longer))) = {}
  BY <1>1, <1>2, NoElement
<1>6. Range(NewNode(longer, value)) = {[path |-> longer, value |-> Stored(<<node, value>>)]}
  BY <1>1, <1>2, <1>4, <1>5
<1>7. QED
  BY <1>3, <1>6 DEF IsLeaf, longer

LEMMA EntryNodes ==
  ASSUME NEW path, IsSeq(path), \A s \in Range(path) : IsSegment(s),
         NEW list, NEW leaf, KeyOf[list] = <<leaf>>, NEW key, <<key>> # None,
         Stored(<<leaf, key>>) = key,
         NEW n \in NodesOf(PathCall(Append(path, Entry(list, <<key>>)), None, {}))
  PROVE  \/ n \in NodesOf(PathCall(path, None, {}))
         \/ n.path = Append(path, Entry(list, <<key>>))
         \/ IsLeaf(n, Append(path, Entry(list, <<key>>)), leaf, key)
<1>. DEFINE longer == Append(path, Entry(list, <<key>>))
<1>1. /\ IsSegment(Entry(list, <<key>>))
      /\ Range(KeyLeaves(Entry(list, <<key>>))) = {<<leaf, key>>}
  BY OneKey
<1>2. IsPath(longer) /\ Last(longer) = Entry(list, <<key>>)
  BY <1>1, LongerPath
<1>3. n \in NodesOf(PathCall(path, None, {})) \/ n \in Range(NewNode(longer, None))
  BY <1>1, NodesOfLonger
<1>. HIDE DEF longer
<1>4. Range(NewNode(longer, None)) =
        {[path |-> longer, value |-> Stored(<<Last(longer)[1], None>>)]}
        \union {KeyLeafNode(longer, k) : k \in Range(KeyLeaves(Last(longer)))}
  BY <1>1, <1>2, NewNodes DEF IsPath
<1>5. KeyLeafNode(longer, <<leaf, key>>).path = Append(longer, Segment(leaf))
      /\ KeyLeafNode(longer, <<leaf, key>>).value = key
  BY DEF KeyLeafNode
<1>6. ASSUME n \in Range(NewNode(longer, None))
      PROVE  n.path = longer \/ IsLeaf(n, longer, leaf, key)
  <2>1. \/ n = [path |-> longer, value |-> Stored(<<Last(longer)[1], None>>)]
        \/ n = KeyLeafNode(longer, <<leaf, key>>)
    BY <1>1, <1>2, <1>4, <1>6
  <2>2. QED
    BY <1>5, <2>1 DEF IsLeaf
<1>7. QED
  BY <1>3, <1>6 DEF longer

LEMMA NodesOfEntry ==
  ASSUME NEW name \in Names, NEW n \in NodesOf(PathCall(EntryPath(name), None, {}))
  PROVE  MadeEntry(n, name)
<1>. DEFINE none == <<>>
<1>1. IsSeq(none) /\ Range(none) = {} /\ EntryPath(name) = Append(none, Entry("interface", <<name>>))
  BY NoElement, InterfacePaths
<1>2. NodesOf(PathCall(none, None, {})) = {}
  BY NodesOfNoPath
<1>3. KeyOf["interface"] = <<"name">> /\ <<name>> # None /\ Stored(<<"name", name>>) = name
  BY StoredAsIs, InterfaceSchemaAssumption
<1>. HIDE DEF none
<1>4. QED
  BY <1>1, <1>2, <1>3, EntryNodes DEF MadeEntry

LEMMA NodesOfBox ==
  ASSUME NEW name \in Names, NEW container,
         NEW n \in NodesOf(PathCall(BoxPath(name, container), None, {}))
  PROVE  MadeEntry(n, name) \/ n.path = BoxPath(name, container)
<1>1. IsSeq(EntryPath(name)) /\ \A s \in Range(EntryPath(name)) : IsSegment(s)
  BY InterfacePaths DEF IsPath
<1>2. \/ n \in NodesOf(PathCall(EntryPath(name), None, {}))
      \/ IsLeaf(n, EntryPath(name), container, Stored(<<container, None>>))
  BY <1>1, LeafNode DEF BoxPath
<1>3. QED
  BY <1>2, NodesOfEntry DEF IsLeaf, BoxPath

LEMMA NodesOfAddress ==
  ASSUME NEW name \in Names, NEW container, NEW ip \in Ips,
         NEW n \in NodesOf(PathCall(AddressPath(name, container, ip), None, {}))
  PROVE  \/ MadeEntry(n, name) \/ n.path = BoxPath(name, container)
         \/ n.path = AddressPath(name, container, ip)
         \/ IsLeaf(n, AddressPath(name, container, ip), "ip", ip)
<1>1. IsSeq(BoxPath(name, container)) /\ \A s \in Range(BoxPath(name, container)) : IsSegment(s)
  BY InterfacePaths DEF IsPath
<1>2. KeyOf["address"] = <<"ip">> /\ <<ip>> # None /\ Stored(<<"ip", ip>>) = ip
  BY StoredAsIs, InterfaceSchemaAssumption
<1>3. \/ n \in NodesOf(PathCall(BoxPath(name, container), None, {}))
      \/ n.path = AddressPath(name, container, ip)
      \/ IsLeaf(n, AddressPath(name, container, ip), "ip", ip)
  BY <1>1, <1>2, EntryNodes DEF AddressPath
<1>4. QED
  BY <1>3, NodesOfBox

LEMMA IpFields ==
  ASSUME NEW ip \in Optional(Ip), ip # None
  PROVE  /\ ip.mtu \in Optional(Mtus) /\ ip.address \in Seq(Address)
         /\ \A a \in Range(ip.address) : a.ip \in Ips /\ a.plen \in Optional(Lens)
<1>1. ip \in Ip
  BY DEF Optional
<1>2. ip.mtu \in Optional(Mtus) /\ ip.address \in Seq(Address)
  BY <1>1 DEF Ip
<1>3. Range(ip.address) \subseteq Address
  BY <1>2, SequenceOver
<1>4. QED
  BY <1>2, <1>3 DEF Address

\* Everything a call creates belongs to its interface.
LEMMA IpCallNodes ==
  ASSUME NEW name \in Names, NEW container, NEW ip \in Optional(Ip),
         NEW c, IsIpCall(c, name, container, ip)
  PROVE  /\ IsPath(c.path) /\ Entry("interface", <<name>>) \in Range(c.path)
         /\ DOMAIN c = {"path", "value", "needs"}
         /\ \A n \in NodesOf(c) : MadeEntry(n, name) \/ MadeIp(n, name, container, ip)
<1>1. CASE IsMtuCall(c, name, container, ip)
  <2>. DEFINE box == BoxPath(name, container)
  <2>1. /\ ip # None /\ ip.mtu # None
        /\ c = PathCall(Append(box, Segment("mtu")), ip.mtu, {"ip"})
    BY <1>1 DEF IsMtuCall
  <2>2. /\ IsSeq(box) /\ \A s \in Range(box) : IsSegment(s)
        /\ Entry("interface", <<name>>) \in Range(box)
    BY InterfacePaths DEF IsPath
  <2>3. Stored(<<"mtu", ip.mtu>>) = ip.mtu
    BY <2>1, IpFields, StoredAsIs DEF Optional
  <2>. HIDE DEF box
  <2>4. IsPath(c.path) /\ Entry("interface", <<name>>) \in Range(c.path)
        /\ DOMAIN c = {"path", "value", "needs"}
    BY <2>1, <2>2, NoKeys, LongerPath DEF PathCall
  <2>5. ASSUME NEW n \in NodesOf(c)
        PROVE  n \in NodesOf(PathCall(box, None, {})) \/ IsLeaf(n, box, "mtu", ip.mtu)
    BY <2>1, <2>2, <2>3, LeafNode
  <2>6. QED
    BY <2>1, <2>4, <2>5, NodesOfBox DEF MadeIp, box
<1>2. CASE IsAddressCall(c, name, container, ip)
  <2>1. PICK a \in Range(ip.address) :
          \/ c = PathCall(Append(AddressPath(name, container, a.ip), Segment("ip")), a.ip, {"ip"})
          \/ /\ a.plen # None
             /\ c = PathCall(Append(AddressPath(name, container, a.ip), Segment("prefix-length")),
                             a.plen, {"ip"})
    BY <1>2 DEF IsAddressCall
  <2>. DEFINE base == AddressPath(name, container, a.ip)
  <2>2. ip # None /\ a.ip \in Ips /\ a.plen \in Optional(Lens)
    BY <1>2, IpFields DEF IsAddressCall
  <2>3. /\ IsSeq(base) /\ \A s \in Range(base) : IsSegment(s)
        /\ Entry("interface", <<name>>) \in Range(base)
    BY <2>2, InterfacePaths DEF IsPath
  <2>4. /\ Stored(<<"ip", a.ip>>) = a.ip
        /\ a.plen # None => Stored(<<"prefix-length", a.plen>>) = a.plen
    BY <2>2, StoredAsIs DEF Optional
  <2>. HIDE DEF base
  <2>5. ASSUME NEW n \in NodesOf(PathCall(base, None, {}))
        PROVE  MadeEntry(n, name) \/ n.path = BoxPath(name, container)
               \/ MadeAddress(n, name, container, a)
    BY <2>2, NodesOfAddress DEF MadeAddress, base
  <2>6. CASE c = PathCall(Append(base, Segment("ip")), a.ip, {"ip"})
    <3>1. IsPath(c.path) /\ Entry("interface", <<name>>) \in Range(c.path)
          /\ DOMAIN c = {"path", "value", "needs"}
      BY <2>3, <2>6, NoKeys, LongerPath DEF PathCall
    <3>2. ASSUME NEW n \in NodesOf(c)
          PROVE  n \in NodesOf(PathCall(base, None, {})) \/ IsLeaf(n, base, "ip", a.ip)
      BY <2>3, <2>4, <2>6, LeafNode
    <3>3. ASSUME NEW n, IsLeaf(n, base, "ip", a.ip) PROVE MadeAddress(n, name, container, a)
      BY <3>3 DEF MadeAddress, base
    <3>4. QED
      BY <2>2, <2>5, <3>1, <3>2, <3>3 DEF MadeIp
  <2>7. CASE a.plen # None /\ c = PathCall(Append(base, Segment("prefix-length")), a.plen, {"ip"})
    <3>1. IsPath(c.path) /\ Entry("interface", <<name>>) \in Range(c.path)
          /\ DOMAIN c = {"path", "value", "needs"}
      BY <2>3, <2>7, NoKeys, LongerPath DEF PathCall
    <3>2. ASSUME NEW n \in NodesOf(c)
          PROVE  n \in NodesOf(PathCall(base, None, {}))
                 \/ IsLeaf(n, base, "prefix-length", a.plen)
      BY <2>3, <2>4, <2>7, LeafNode
    <3>3. ASSUME NEW n, IsLeaf(n, base, "prefix-length", a.plen)
          PROVE  MadeAddress(n, name, container, a)
      BY <2>7, <3>3 DEF MadeAddress, base
    <3>4. QED
      BY <2>2, <2>5, <3>1, <3>2, <3>3 DEF MadeIp
  <2>8. QED
    BY <2>1, <2>6, <2>7 DEF base
<1>3. QED
  BY <1>1, <1>2 DEF IsIpCall

LEMMA LeafCallNodes ==
  ASSUME NEW i \in Interface, NEW c, IsLeafCall(c, i)
  PROVE  /\ IsPath(c.path) /\ Entry("interface", <<i.name>>) \in Range(c.path)
         /\ DOMAIN c = {"path", "value", "needs"}
         /\ \A n \in NodesOf(c) : Made(n, i)
<1>. DEFINE base == EntryPath(i.name)
<1>1. i.name \in Names
  BY InterfaceFields
<1>2. /\ IsSeq(base) /\ \A s \in Range(base) : IsSegment(s)
      /\ Entry("interface", <<i.name>>) \in Range(base)
  BY <1>1, InterfacePaths DEF IsPath
<1>3. \A n \in NodesOf(PathCall(base, None, {})) : Made(n, i)
  BY <1>1, NodesOfEntry DEF Made
<1>. HIDE DEF base
<1>4. ASSUME NEW node, NEW value, NEW needs, Stored(<<node, value>>) = value,
             c = PathCall(Append(base, Segment(node)), value, needs)
      PROVE  /\ IsPath(c.path) /\ Entry("interface", <<i.name>>) \in Range(c.path)
             /\ DOMAIN c = {"path", "value", "needs"}
             /\ \A n \in NodesOf(c) : Made(n, i) \/ IsLeaf(n, base, node, value)
  <2>1. /\ IsPath(c.path) /\ Entry("interface", <<i.name>>) \in Range(c.path)
        /\ DOMAIN c = {"path", "value", "needs"}
    BY <1>2, <1>4, NoKeys, LongerPath DEF PathCall
  <2>2. ASSUME NEW n \in NodesOf(c)
        PROVE  n \in NodesOf(PathCall(base, None, {})) \/ IsLeaf(n, base, node, value)
    BY <1>2, <1>4, LeafNode
  <2>3. QED
    BY <1>3, <2>1, <2>2
<1>5. CASE IsNameCall(c, i)
  <2>1. c = PathCall(Append(base, Segment("name")), i.name, {})
    BY <1>5 DEF IsNameCall, base
  <2>2. Stored(<<"name", i.name>>) = i.name
    BY <1>1, StoredAsIs
  <2>3. QED
    BY <1>4, <2>1, <2>2 DEF Made, MadeEntry, base
<1>6. CASE IsDescriptionCall(c, i)
  <2>1. i.description # None
        /\ c = PathCall(Append(base, Segment("description")), i.description, {})
    BY <1>6 DEF IsDescriptionCall, base
  <2>2. Stored(<<"description", i.description>>) = i.description
    BY <2>1, InterfaceFields, StoredAsIs DEF Optional
  <2>3. QED
    BY <1>4, <2>1, <2>2 DEF Made, base
<1>7. CASE IsEnabledCall(c, i)
  <2>1. ~i.enabled /\ c = PathCall(Append(base, Segment("enabled")), "false", {})
    BY <1>7 DEF IsEnabledCall, base
  <2>2. Stored(<<"enabled", "false">>) = "false"
    BY StoredAsIs
  <2>3. QED
    BY <1>4, <2>1, <2>2 DEF Made, base
<1>8. CASE IsTypeCall(c, i)
  <2>1. i.type # None
        /\ c = PathCall(Append(base, Segment("type")), ianaIfTypeToString(i.type), {"ianaift"})
    BY <1>8 DEF IsTypeCall, base
  <2>2. Stored(<<"type", ianaIfTypeToString(i.type)>>) = ianaIfTypeToString(i.type)
    BY <2>1, InterfaceFields, StoredAsIs DEF Optional
  <2>3. QED
    BY <1>4, <2>1, <2>2 DEF Made, base
<1>9. QED
  BY <1>5, <1>6, <1>7, <1>8 DEF IsLeafCall

LEMMA CallNodes ==
  ASSUME NEW i \in Interface, NEW c \in Range(Calls(i))
  PROVE  /\ IsPath(c.path) /\ Entry("interface", <<i.name>>) \in Range(c.path)
         /\ DOMAIN c = {"path", "value", "needs"}
         /\ \A n \in NodesOf(c) : Made(n, i)
<1>1. IsCall(c, i)
  BY TheCalls
<1>2. i.name \in Names /\ i.ipv4 \in Optional(Ip) /\ i.ipv6 \in Optional(Ip)
  BY InterfaceFields
<1>3. CASE IsLeafCall(c, i)
  BY <1>3, LeafCallNodes
<1>4. CASE IsIpCall(c, i.name, "ipv4", i.ipv4)
  BY <1>2, <1>4, IpCallNodes DEF Made
<1>5. CASE IsIpCall(c, i.name, "ipv6", i.ipv6)
  BY <1>2, <1>5, IpCallNodes DEF Made
<1>6. QED
  BY <1>1, <1>3, <1>4, <1>5 DEF IsCall

\* A call that libyang does not refuse has a name that a predicate can hold.
LEMMA QuotableName ==
  ASSUME NEW i \in Interface, NEW c \in Range(Calls(i)), NEW resolves, ~Rejects(c, resolves)
  PROVE  i.name \notin Unquotable
<1>1. /\ Entry("interface", <<i.name>>) \in Range(c.path)
      /\ <<"name", i.name>> \in Range(KeyLeaves(Entry("interface", <<i.name>>)))
  BY CallNodes, InterfaceFields, InterfaceSegments
<1>2. <<"name", i.name>>[2] = i.name
  OBVIOUS
<1>3. QED
  BY <1>1, <1>2 DEF Rejects

LEMMA MadeOfSchema ==
  ASSUME NEW i \in Interface, NEW n, Made(n, i)
  PROVE  OfSchema(n)
<1>1. i.name \in Names /\ i.ipv4 \in Optional(Ip) /\ i.ipv6 \in Optional(Ip)
  BY InterfaceFields
<1>2. ASSUME NEW path, IsSeq(path), NEW node, NEW value, IsLeaf(n, path, node, value)
      PROVE  Last(n.path) = Segment(node) /\ Segment(node)[1] = node /\ n.value = value
  BY <1>2, Appended DEF IsLeaf, Segment
<1>3. \A list, keys : Entry(list, keys)[1] = list
  BY DEF Entry
<1>4. IsSeq(EntryPath(i.name))
  BY <1>1, InterfacePaths DEF IsPath
<1>5. CASE MadeEntry(n, i.name)
  <2>1. CASE n.path = EntryPath(i.name)
    <3>1. Last(n.path) = Entry("interface", <<i.name>>)
      BY <1>1, <2>1, InterfacePaths
    <3>2. QED
      BY <1>1, <1>3, <3>1 DEF OfSchema
  <2>2. CASE IsLeaf(n, EntryPath(i.name), "name", i.name)
    BY <1>2, <1>4, <2>2 DEF OfSchema
  <2>3. QED
    BY <1>5, <2>1, <2>2 DEF MadeEntry
<1>6. CASE i.description # None /\ IsLeaf(n, EntryPath(i.name), "description", i.description)
  <2>1. i.description \in Texts
    BY <1>6, InterfaceFields DEF Optional
  <2>2. QED
    BY <1>2, <1>4, <1>6, <2>1 DEF OfSchema
<1>7. CASE ~i.enabled /\ IsLeaf(n, EntryPath(i.name), "enabled", "false")
  BY <1>2, <1>4, <1>7 DEF OfSchema
<1>8. CASE i.type # None /\ IsLeaf(n, EntryPath(i.name), "type", ianaIfTypeToString(i.type))
  BY <1>2, <1>4, <1>8 DEF OfSchema
<1>9. ASSUME NEW container \in {"ipv4", "ipv6"}, NEW ip \in Optional(Ip),
             MadeIp(n, i.name, container, ip)
      PROVE  OfSchema(n)
  <2>. DEFINE box == BoxPath(i.name, container)
  <2>1. IsSeq(box) /\ Last(box) = Segment(container) /\ Segment(container)[1] = container
    BY <1>1, InterfacePaths DEF IsPath, Segment
  <2>2. ip # None
    BY <1>9 DEF MadeIp
  <2>3. CASE n.path = box
    BY <2>1, <2>3 DEF OfSchema
  <2>4. CASE ip.mtu # None /\ IsLeaf(n, box, "mtu", ip.mtu)
    <3>1. ip.mtu \in Mtus
      BY <2>2, <2>4, IpFields DEF Optional
    <3>2. Last(n.path) = Segment("mtu") /\ Segment("mtu")[1] = "mtu" /\ n.value = ip.mtu
      BY <1>2, <2>1, <2>4
    <3>3. QED
      BY <3>1, <3>2 DEF OfSchema
  <2>5. ASSUME NEW a \in Range(ip.address), MadeAddress(n, i.name, container, a)
        PROVE  OfSchema(n)
    <3>. DEFINE base == AddressPath(i.name, container, a.ip)
    <3>1. a.ip \in Ips /\ a.plen \in Optional(Lens)
      BY <2>2, IpFields
    <3>2. IsSeq(base) /\ Last(base) = Entry("address", <<a.ip>>)
      <4>1. IsPath(base) /\ Last(base) = Entry("address", <<a.ip>>)
        BY <1>1, <3>1, AddressPaths
      <4>2. QED
        BY <4>1 DEF IsPath
    <3>3. CASE n.path = base
      BY <1>3, <3>1, <3>2, <3>3 DEF OfSchema
    <3>4. CASE IsLeaf(n, base, "ip", a.ip)
      <4>1. Last(n.path) = Segment("ip") /\ Segment("ip")[1] = "ip"
        BY <1>2, <3>2, <3>4
      <4>2. QED
        BY <4>1 DEF OfSchema
    <3>5. CASE a.plen # None /\ IsLeaf(n, base, "prefix-length", a.plen)
      <4>1. a.plen \in Lens
        BY <3>1, <3>5 DEF Optional
      <4>2. /\ Last(n.path) = Segment("prefix-length") /\ n.value = a.plen
            /\ Segment("prefix-length")[1] = "prefix-length"
        BY <1>2, <3>2, <3>5
      <4>3. QED
        BY <4>1, <4>2 DEF OfSchema
    <3>6. QED
      BY <2>5, <3>3, <3>4, <3>5 DEF MadeAddress
  <2>6. QED
    BY <1>9, <2>3, <2>4, <2>5 DEF MadeIp
<1>10. QED
  BY <1>1, <1>5, <1>6, <1>7, <1>8, <1>9 DEF Made

-----------------------------------------------------------------------------
(* What deserialize reads *)

LEMMA TreeFacts ==
  ASSUME NEW nodes, IsInterfacesTree(nodes)
  PROVE  /\ WellFormed(nodes) /\ IsSeq(nodes) /\ DistinctPaths(nodes)
         /\ \A n \in Range(nodes) : OfSchema(n) /\ IsSeq(n.path) /\ n.path # <<>>
BY WellFormedFacts DEF IsInterfacesTree

\* An interface entry has the path of its name, and the name leaf.
LEMMA InterfaceEntry ==
  ASSUME NEW nodes, IsInterfacesTree(nodes), NEW e \in Range(InterfaceEntries(nodes))
  PROVE  \E name \in Names :
           /\ e.path = EntryPath(name)
           /\ NodeValue(nodes, Append(EntryPath(name), Segment("name"))) = name
<1>1. /\ e \in Range(nodes) /\ Front(e.path) = <<>> /\ Last(e.path)[1] = "interface"
      /\ IsSeq(nodes) /\ DistinctPaths(nodes) /\ OfSchema(e)
      /\ IsSeq(e.path) /\ e.path # <<>>
  BY TreeFacts, Entries DEF InterfaceEntries
<1>2. PICK name \in Names : Last(e.path) = Entry("interface", <<name>>)
  BY <1>1 DEF OfSchema
<1>3. e.path = EntryPath(name)
  <2>1. e.path = Append(<<>>, Entry("interface", <<name>>))
    BY <1>1, <1>2, FrontAndLast
  <2>2. QED
    BY <2>1, InterfacePaths
<1>4. <<"name", name>> \in Range(KeyLeaves(Last(e.path)))
  BY <1>2, InterfaceSegments
<1>5. PICK leaf \in Range(nodes) :
        leaf.path = Append(e.path, Segment("name")) /\ leaf.value = Stored(<<"name", name>>)
  <2>1. \E leaf \in Range(nodes) :
          /\ leaf.path = Append(e.path, Segment(<<"name", name>>[1]))
          /\ leaf.value = Stored(<<"name", name>>)
    BY <1>1, <1>4, TreeFacts, WellFormedFacts
  <2>2. QED
    BY <2>1
<1>6. leaf.value = name
  BY <1>5, StoredAsIs
<1>7. QED
  BY <1>1, <1>3, <1>5, <1>6, ValueOfNode

\* So has an address of a container.
LEMMA AddressEntry ==
  ASSUME NEW nodes, IsInterfacesTree(nodes), NEW name \in Names, NEW container,
         NEW e \in Range(EntriesOf(nodes, BoxPath(name, container), "address"))
  PROVE  \E ip \in Ips :
           /\ e.path = AddressPath(name, container, ip)
           /\ NodeValue(nodes, Append(AddressPath(name, container, ip), Segment("ip"))) = ip
<1>1. /\ e \in Range(nodes) /\ Last(e.path)[1] = "address"
      /\ Front(e.path) = BoxPath(name, container)
      /\ IsSeq(nodes) /\ DistinctPaths(nodes) /\ OfSchema(e)
      /\ IsSeq(e.path) /\ e.path # <<>>
  BY TreeFacts, Entries
<1>2. PICK ip \in Ips : Last(e.path) = Entry("address", <<ip>>)
  BY <1>1 DEF OfSchema
<1>3. e.path = AddressPath(name, container, ip)
  BY <1>1, <1>2, FrontAndLast DEF AddressPath
<1>4. <<"ip", ip>> \in Range(KeyLeaves(Last(e.path)))
  BY <1>2, InterfaceSegments
<1>5. PICK leaf \in Range(nodes) :
        leaf.path = Append(e.path, Segment("ip")) /\ leaf.value = Stored(<<"ip", ip>>)
  <2>1. \E leaf \in Range(nodes) :
          /\ leaf.path = Append(e.path, Segment(<<"ip", ip>>[1]))
          /\ leaf.value = Stored(<<"ip", ip>>)
    BY <1>1, <1>4, TreeFacts, WellFormedFacts
  <2>2. QED
    BY <2>1
<1>6. leaf.value = ip
  BY <1>5, StoredAsIs
<1>7. QED
  BY <1>1, <1>3, <1>5, <1>6, ValueOfNode

LeafValue(nodes, path, node) == NodeValue(nodes, Append(path, Segment(node)))

LEMMA ReadFields ==
  ASSUME NEW nodes, NEW base
  PROVE  LET i == ReadInterface(nodes, base) IN
         /\ i.name = LeafValue(nodes, base, "name")
         /\ i.description = LeafValue(nodes, base, "description")
         /\ i.enabled = (LeafValue(nodes, base, "enabled") # "false")
         /\ i.type = ReadType(LeafValue(nodes, base, "type"))
         /\ i.oper_status = LeafValue(nodes, base, "oper-status")
         /\ i.ipv4 = ReadIp(nodes, base, "ipv4")
         /\ i.ipv6 = ReadIp(nodes, base, "ipv6")
         /\ i = [name |-> i.name, description |-> i.description, enabled |-> i.enabled,
                 type |-> i.type, oper_status |-> i.oper_status,
                 ipv4 |-> i.ipv4, ipv6 |-> i.ipv6]
<1>. DEFINE r == ReadChildren(nodes, base)
            i == ReadInterface(nodes, base)
<1>1. r = [name |-> LeafValue(nodes, base, "name"),
           description |-> LeafValue(nodes, base, "description"),
           enabled |-> LeafValue(nodes, base, "enabled"),
           type |-> LeafValue(nodes, base, "type"),
           oper_status |-> LeafValue(nodes, base, "oper-status"),
           ipv4 |-> ReadIp(nodes, base, "ipv4"), ipv6 |-> ReadIp(nodes, base, "ipv6")]
  BY DEF ReadChildren, LeafValue
<1>2. i = [r EXCEPT !.enabled = r.enabled # "false", !.type = ReadType(r.type)]
  BY DEF ReadInterface
<1>. HIDE DEF r, i
<1>3. i = [name |-> LeafValue(nodes, base, "name"),
           description |-> LeafValue(nodes, base, "description"),
           enabled |-> (LeafValue(nodes, base, "enabled") # "false"),
           type |-> ReadType(LeafValue(nodes, base, "type")),
           oper_status |-> LeafValue(nodes, base, "oper-status"),
           ipv4 |-> ReadIp(nodes, base, "ipv4"), ipv6 |-> ReadIp(nodes, base, "ipv6")]
  BY <1>1, <1>2
<1>4. QED
  BY <1>3 DEF i

\* The value of a leaf of the schema is of its type.
LEMMA LeafType ==
  ASSUME NEW nodes, IsInterfacesTree(nodes), NEW path, IsSeq(path)
  PROVE  /\ LeafValue(nodes, path, "description") \in Optional(Texts)
         /\ LeafValue(nodes, path, "oper-status") \in Optional(Texts)
         /\ LeafValue(nodes, path, "prefix-length") \in Optional(Lens)
         /\ LeafValue(nodes, path, "mtu") \in Optional(Mtus)
<1>1. ASSUME NEW node
      PROVE  \/ LeafValue(nodes, path, node) = None
             \/ \E n \in Range(nodes) :
                  /\ OfSchema(n) /\ Last(n.path)[1] = node
                  /\ LeafValue(nodes, path, node) = n.value
  <2>1. CASE LeafValue(nodes, path, node) # None
    <3>. DEFINE p == Append(path, Segment(node))
    <3>0. NodeValue(nodes, p) = LeafValue(nodes, path, node)
      BY DEF LeafValue
    <3>. HIDE DEF p
    <3>1. PICK n \in Range(nodes) : n.path = p /\ LeafValue(nodes, path, node) = n.value
      BY <2>1, <3>0, NodeOfValue
    <3>2. Last(n.path) = Segment(node) /\ Segment(node)[1] = node
      BY <3>1, Appended DEF Segment, p
    <3>3. QED
      BY <3>1, <3>2, TreeFacts
  <2>2. QED
    BY <2>1
<1>2. QED
  BY <1>1 DEF OfSchema, Optional

LEMMA ReadIpFacts ==
  ASSUME NEW nodes, IsInterfacesTree(nodes), NEW name \in Names, NEW container
  PROVE  LET ip == ReadIp(nodes, EntryPath(name), container)
             entries == EntriesOf(nodes, BoxPath(name, container), "address") IN
         /\ ip \in Optional(Ip)
         /\ entries = <<>> <=> ip = None
         /\ ip # None =>
              /\ ip.mtu = LeafValue(nodes, BoxPath(name, container), "mtu")
              /\ ip.address # <<>> /\ DistinctIps(ip)
              /\ DOMAIN ip.address = DOMAIN entries
              /\ \A k \in DOMAIN ip.address :
                   /\ entries[k].path = AddressPath(name, container, ip.address[k].ip)
                   /\ ip.address[k].ip \in Ips
                   /\ ip.address[k].plen =
                        LeafValue(nodes, AddressPath(name, container, ip.address[k].ip),
                                  "prefix-length")
<1>. DEFINE box == BoxPath(name, container)
            entries == EntriesOf(nodes, box, "address")
            Read(e) == [ip   |-> LeafValue(nodes, e.path, "ip"),
                        plen |-> LeafValue(nodes, e.path, "prefix-length")]
            addresses == [k \in DOMAIN entries |-> Read(entries[k])]
            ip == ReadIp(nodes, EntryPath(name), container)
            full == [address |-> addresses, mtu |-> LeafValue(nodes, box, "mtu")]
            n == Len(entries)
<1>1. ip = IF entries = <<>> THEN None ELSE full
  BY DEF ReadIp, BoxPath, LeafValue
<1>2. IsSeq(nodes) /\ DistinctPaths(nodes)
  BY TreeFacts
<1>3. IsSeq(entries) /\ DistinctPaths(entries)
  BY <1>2, Entries
<1>4. n \in Nat /\ DOMAIN entries = 1..n /\ (\A k \in 1..n : entries[k] \in Range(entries))
      /\ (entries # <<>> <=> n > 0)
  <2>. HIDE DEF entries
  <2>1. QED
    BY <1>3, SeqFacts
<1>5. ASSUME NEW k \in 1..n
      PROVE  \E x \in Ips : /\ entries[k].path = AddressPath(name, container, x)
                            /\ LeafValue(nodes, entries[k].path, "ip") = x
  BY <1>4, AddressEntry DEF LeafValue
<1>. HIDE DEF entries, n
<1>6. DOMAIN addresses = 1..n /\ addresses = [k \in 1..n |-> addresses[k]]
  BY <1>4
<1>7. ASSUME NEW k \in 1..n
      PROVE  /\ addresses[k].ip \in Ips
             /\ entries[k].path = AddressPath(name, container, addresses[k].ip)
             /\ addresses[k].plen = LeafValue(nodes, entries[k].path, "prefix-length")
             /\ addresses[k] \in Address
  <2>1. addresses[k] = Read(entries[k])
    BY <1>4
  <2>2. PICK x \in Ips : /\ entries[k].path = AddressPath(name, container, x)
                         /\ LeafValue(nodes, entries[k].path, "ip") = x
    BY <1>5
  <2>3. LeafValue(nodes, entries[k].path, "prefix-length") \in Optional(Lens)
    <3>1. IsSeq(entries[k].path)
      BY <2>2, InterfacePaths DEF IsPath
    <3>2. QED
      BY <3>1, LeafType
  <2>. HIDE DEF addresses
  <2>4. QED
    BY <2>1, <2>2, <2>3 DEF Address
<1>. HIDE DEF addresses
<1>8. IsSeq(addresses) /\ Len(addresses) = n /\ DOMAIN addresses = 1..n
  BY <1>4, <1>6, FunctionIsSeq
<1>9. addresses \in Seq(Address)
  <2>1. Range(addresses) \subseteq Address
    BY <1>7, <1>8 DEF Range
  <2>2. QED
    BY <1>8, <2>1, InSeq
<1>10. full \in Ip
  <2>1. IsSeq(box)
    BY InterfacePaths DEF IsPath
  <2>2. LeafValue(nodes, box, "mtu") \in Optional(Mtus)
    BY <2>1, LeafType
  <2>3. QED
    BY <1>9, <2>2 DEF Ip
<1>11. None \notin Ip
  BY InterfaceDataAssumption
<1>12. CASE entries = <<>>
  BY <1>1, <1>12 DEF Optional, entries
<1>13. CASE entries # <<>>
  <2>1. ip = full /\ ip # None /\ ip.address = addresses /\ ip.mtu = LeafValue(nodes, box, "mtu")
    BY <1>1, <1>10, <1>11, <1>13
  <2>2. ip \in Optional(Ip)
    BY <1>10, <2>1 DEF Optional
  <2>3. addresses # <<>>
    BY <1>4, <1>8, <1>13, SeqFacts
  <2>4. DistinctIps(ip)
    <3>1. ASSUME NEW j \in 1..n, NEW k \in 1..n, addresses[j].ip = addresses[k].ip
          PROVE  j = k
      <4>1. entries[j].path = entries[k].path
        BY <1>7, <3>1
      <4>2. QED
        BY <1>3, <1>4, <4>1 DEF DistinctPaths
    <3>2. DOMAIN addresses = 1..n
      BY <1>8
    <3>3. QED
      BY <2>1, <3>1, <3>2 DEF DistinctIps, IsInjective
  <2>. HIDE DEF ip, full
  <2>5. QED
    BY <1>4, <1>7, <1>8, <1>13, <2>1, <2>2, <2>3, <2>4 DEF ip, entries, box
<1>14. QED
  BY <1>12, <1>13

LEMMA TypeRoundTrip ==
  /\ \A s : ReadType(s) \in Optional(IanaIfType)
  /\ \A t \in IanaIfType : ianaIfTypeFromString(ianaIfTypeToString(t)) = t
<1>1. DOMAIN TypeName = IfTypes /\ Range(TypeName) = {TypeName[t] : t \in IfTypes}
      /\ \A t, u \in IfTypes : TypeName[t] = TypeName[u] => t = u
  BY InterfaceDataAssumption DEF Range, IsInjective
<1>2. \A s : ianaIfTypeFromString(s) \in IanaIfType
  BY <1>1 DEF ianaIfTypeFromString, IanaIfType
<1>3. ASSUME NEW t \in IanaIfType PROVE ianaIfTypeFromString(ianaIfTypeToString(t)) = t
  <2>1. CASE t \in IfTypes
    <3>1. ianaIfTypeToString(t) = TypeName[t] /\ TypeName[t] \in Range(TypeName)
      BY <1>1, <2>1 DEF ianaIfTypeToString
    <3>2. (CHOOSE u \in IfTypes : TypeName[u] = TypeName[t]) = t
      BY <1>1, <2>1
    <3>3. QED
      BY <3>1, <3>2 DEF ianaIfTypeFromString
  <2>2. CASE t \notin IfTypes
    <3>1. t = Unknown /\ ianaIfTypeToString(t) = "unknown"
      BY <2>2 DEF ianaIfTypeToString, IanaIfType
    <3>2. QED
      BY <3>1, InterfaceDataAssumption DEF ianaIfTypeFromString
  <2>3. QED
    BY <2>1, <2>2
<1>4. QED
  BY <1>2, <1>3 DEF ReadType, Optional

\* deserialize reads an interface for each entry.
LEMMA ReadEntries ==
  ASSUME NEW nodes, IsInterfacesTree(nodes)
  PROVE  LET m == ReadInterfaces(nodes)
             entries == InterfaceEntries(nodes) IN
         /\ m \in Seq(Interface) /\ IsSeq(entries) /\ DOMAIN m = DOMAIN entries
         /\ \A k \in DOMAIN m :
              /\ m[k].name \in Names
              /\ entries[k].path = EntryPath(m[k].name)
              /\ m[k] = ReadInterface(nodes, EntryPath(m[k].name))
<1>. DEFINE m == ReadInterfaces(nodes)
            entries == InterfaceEntries(nodes)
            n == Len(entries)
<1>1. IsSeq(entries)
  BY TreeFacts, Entries DEF InterfaceEntries
<1>2. n \in Nat /\ DOMAIN entries = 1..n /\ \A k \in 1..n : entries[k] \in Range(entries)
  <2>. HIDE DEF entries
  <2>1. QED
    BY <1>1, SeqFacts
<1>3. m = [k \in DOMAIN entries |-> ReadInterface(nodes, entries[k].path)]
  BY DEF ReadInterfaces
<1>4. ASSUME NEW k \in 1..n
      PROVE  \E name \in Names :
               /\ entries[k].path = EntryPath(name)
               /\ LeafValue(nodes, EntryPath(name), "name") = name
  BY <1>2, InterfaceEntry DEF LeafValue
<1>. HIDE DEF m, entries, n
<1>5. DOMAIN m = 1..n /\ m = [k \in 1..n |-> m[k]]
  BY <1>2, <1>3
<1>6. ASSUME NEW k \in 1..n
      PROVE  /\ m[k].name \in Names
             /\ entries[k].path = EntryPath(m[k].name)
             /\ m[k] = ReadInterface(nodes, EntryPath(m[k].name))
             /\ m[k] \in Interface
  <2>1. PICK name \in Names : /\ entries[k].path = EntryPath(name)
                              /\ LeafValue(nodes, EntryPath(name), "name") = name
    BY <1>4
  <2>2. m[k] = ReadInterface(nodes, EntryPath(name))
    BY <1>2, <1>3, <2>1
  <2>. DEFINE i == ReadInterface(nodes, EntryPath(name))
  <2>3. /\ i.name = name
        /\ i.description = LeafValue(nodes, EntryPath(name), "description")
        /\ i.enabled = (LeafValue(nodes, EntryPath(name), "enabled") # "false")
        /\ i.type = ReadType(LeafValue(nodes, EntryPath(name), "type"))
        /\ i.oper_status = LeafValue(nodes, EntryPath(name), "oper-status")
        /\ i.ipv4 = ReadIp(nodes, EntryPath(name), "ipv4")
        /\ i.ipv6 = ReadIp(nodes, EntryPath(name), "ipv6")
        /\ i = [name |-> i.name, description |-> i.description, enabled |-> i.enabled,
                type |-> i.type, oper_status |-> i.oper_status,
                ipv4 |-> i.ipv4, ipv6 |-> i.ipv6]
    BY <2>1, ReadFields
  <2>4. IsSeq(EntryPath(name))
    BY InterfacePaths DEF IsPath
  <2>. HIDE DEF i
  <2>5. i.description \in Optional(Texts) /\ i.oper_status \in Optional(Texts)
    BY <2>3, <2>4, LeafType
  <2>6. i.enabled \in BOOLEAN
    BY <2>3
  <2>7. i.type \in Optional(IanaIfType)
    BY <2>3, TypeRoundTrip
  <2>8. i.ipv4 \in Optional(Ip) /\ i.ipv6 \in Optional(Ip)
    BY <2>3, ReadIpFacts
  <2>9. i \in Interface
    BY <2>3, <2>5, <2>6, <2>7, <2>8 DEF Interface
  <2>10. QED
    BY <2>1, <2>2, <2>3, <2>9 DEF i
<1>7. m \in Seq(Interface)
  <2>1. IsSeq(m)
    BY <1>2, <1>5, FunctionIsSeq
  <2>2. Range(m) \subseteq Interface
    BY <1>5, <1>6 DEF Range
  <2>3. QED
    BY <2>1, <2>2, InSeq
<1>8. QED
  BY <1>1, <1>2, <1>5, <1>6, <1>7 DEF m, entries

\* The ip containers of what was read.
LEMMA ReadContainers ==
  ASSUME NEW nodes, IsInterfacesTree(nodes), NEW k \in DOMAIN ReadInterfaces(nodes)
  PROVE  LET i == ReadInterfaces(nodes)[k] IN
         /\ i.ipv4 = ReadIp(nodes, EntryPath(i.name), "ipv4")
         /\ i.ipv6 = ReadIp(nodes, EntryPath(i.name), "ipv6")
<1>. DEFINE i == ReadInterfaces(nodes)[k]
<1>1. i = ReadInterface(nodes, EntryPath(i.name))
  BY ReadEntries
<1>. HIDE DEF i
<1>2. /\ ReadInterface(nodes, EntryPath(i.name)).ipv4 = ReadIp(nodes, EntryPath(i.name), "ipv4")
      /\ ReadInterface(nodes, EntryPath(i.name)).ipv6 = ReadIp(nodes, EntryPath(i.name), "ipv6")
  BY ReadFields
<1>3. QED
  BY <1>1, <1>2 DEF i

\* Of every tree that libyang can hold, deserialize makes a normal model: each
\* name once, no ip container without an address, no address twice.
THEOREM ReadIsNormal ==
  ASSUME NEW nodes, IsInterfacesTree(nodes)
  PROVE  Normal(ReadInterfaces(nodes))
<1>. DEFINE m == ReadInterfaces(nodes)
            entries == InterfaceEntries(nodes)
<1>1. /\ m \in Seq(Interface) /\ IsSeq(entries) /\ DOMAIN m = DOMAIN entries
      /\ \A k \in DOMAIN m :
           /\ m[k].name \in Names
           /\ entries[k].path = EntryPath(m[k].name)
  BY ReadEntries
<1>2. DistinctPaths(entries)
  BY TreeFacts, Entries DEF InterfaceEntries
<1>3. \A k \in DOMAIN m : /\ m[k].ipv4 = ReadIp(nodes, EntryPath(m[k].name), "ipv4")
                          /\ m[k].ipv6 = ReadIp(nodes, EntryPath(m[k].name), "ipv6")
  BY ReadContainers
<1>. HIDE DEF m, entries
<1>4. DistinctNames(m)
  <2>1. ASSUME NEW j \in DOMAIN m, NEW k \in DOMAIN m, m[j].name = m[k].name PROVE j = k
    <3>1. entries[j].path = entries[k].path
      BY <1>1, <2>1
    <3>2. QED
      BY <1>1, <1>2, <3>1 DEF DistinctPaths
  <2>2. QED
    BY <2>1 DEF DistinctNames, IsInjective
<1>5. ASSUME NEW i \in Range(m), NEW ip \in {i.ipv4, i.ipv6} \ {None}
      PROVE  ip.address # <<>> /\ DistinctIps(ip)
  <2>1. PICK k \in DOMAIN m : i = m[k]
    BY DEF Range
  <2>2. m[k].name \in Names
    BY <1>1
  <2>3. PICK container : ip = ReadIp(nodes, EntryPath(m[k].name), container)
    BY <1>3, <1>5, <2>1
  <2>4. QED
    BY <1>5, <2>2, <2>3, ReadIpFacts
<1>6. QED
  BY <1>4, <1>5 DEF Normal, m

-----------------------------------------------------------------------------
(* From a path back to the interface that its node belongs to *)

LEMMA PathLengths ==
  ASSUME NEW name \in Names
  PROVE  /\ Len(EntryPath(name)) = 1
         /\ \A s : Len(Append(EntryPath(name), s)) = 2
         /\ \A container :
              /\ Len(BoxPath(name, container)) = 2
              /\ \A s : Len(Append(BoxPath(name, container), s)) = 3
<1>1. IsSeq(EntryPath(name)) /\ Len(EntryPath(name)) = 1
  BY OneElement DEF EntryPath
<1>2. \A s : Len(Append(EntryPath(name), s)) = 2
  <2>1. ASSUME NEW s PROVE Len(Append(EntryPath(name), s)) = 2
    <3>1. Len(Append(EntryPath(name), s)) = Len(EntryPath(name)) + 1
      BY <1>1, Appended
    <3>2. QED
      BY <1>1, <3>1
  <2>2. QED
    BY <2>1
<1>3. ASSUME NEW container
      PROVE  /\ Len(BoxPath(name, container)) = 2
             /\ \A s : Len(Append(BoxPath(name, container), s)) = 3
  <2>1. Len(BoxPath(name, container)) = 2 /\ IsSeq(BoxPath(name, container))
    BY <1>2, InterfacePaths DEF BoxPath, IsPath
  <2>2. ASSUME NEW s PROVE Len(Append(BoxPath(name, container), s)) = 3
    <3>1. Len(Append(BoxPath(name, container), s)) = Len(BoxPath(name, container)) + 1
      BY <2>1, Appended
    <3>2. QED
      BY <2>1, <3>1
  <2>3. QED
    BY <2>1, <2>2
<1>4. QED
  BY <1>1, <1>2, <1>3

LEMMA AddressLengths ==
  ASSUME NEW name \in Names, NEW container, NEW ip \in Ips
  PROVE  /\ Len(AddressPath(name, container, ip)) = 3
         /\ \A s : Len(Append(AddressPath(name, container, ip), s)) = 4
<1>1. Len(AddressPath(name, container, ip)) = 3
  BY PathLengths DEF AddressPath
<1>2. IsSeq(AddressPath(name, container, ip))
  <2>1. IsPath(AddressPath(name, container, ip))
    BY AddressPaths
  <2>2. QED
    BY <2>1 DEF IsPath
<1>3. ASSUME NEW s PROVE Len(Append(AddressPath(name, container, ip), s)) = 4
  <2>1. Len(Append(AddressPath(name, container, ip), s))
          = Len(AddressPath(name, container, ip)) + 1
    BY <1>2, Appended
  <2>2. QED
    BY <1>1, <2>1
<1>4. QED
  BY <1>1, <1>3

\* Paths are equal only if all of their segments are.
LEMMA SamePath ==
  /\ \A name, other \in Names : EntryPath(name) = EntryPath(other) => name = other
  /\ \A name, other \in Names : \A s, t :
       Append(EntryPath(name), s) = Append(EntryPath(other), t) => name = other /\ s = t
  /\ \A a, b : Segment(a) = Segment(b) => a = b
  /\ \A a, b, list : Entry(list, <<a>>) = Entry(list, <<b>>) => a = b
<1>1. \A a, b : Segment(a) = Segment(b) => a = b
  BY DEF Segment
<1>2. \A a, b, list : Entry(list, <<a>>) = Entry(list, <<b>>) => a = b
  <2>1. ASSUME NEW a, NEW b, NEW list, Entry(list, <<a>>) = Entry(list, <<b>>) PROVE a = b
    <3>1. <<a>> = <<b>>
      BY <2>1 DEF Entry
    <3>2. <<a>>[1] = a /\ <<b>>[1] = b
      OBVIOUS
    <3>3. QED
      BY <3>1, <3>2
  <2>2. QED
    BY <2>1
<1>3. ASSUME NEW name \in Names, NEW other \in Names, EntryPath(name) = EntryPath(other)
      PROVE  name = other
  <2>1. Entry("interface", <<name>>) = Entry("interface", <<other>>)
    BY <1>3, InterfacePaths
  <2>2. QED
    BY <1>2, <2>1
<1>4. ASSUME NEW name \in Names, NEW other \in Names, NEW s, NEW t,
             Append(EntryPath(name), s) = Append(EntryPath(other), t)
      PROVE  name = other /\ s = t
  <2>1. IsSeq(EntryPath(name)) /\ IsSeq(EntryPath(other))
    BY InterfacePaths DEF IsPath
  <2>2. EntryPath(name) = EntryPath(other) /\ s = t
    <3>1. /\ Front(Append(EntryPath(name), s)) = EntryPath(name)
          /\ Last(Append(EntryPath(name), s)) = s
      BY <2>1, Appended
    <3>2. /\ Front(Append(EntryPath(other), t)) = EntryPath(other)
          /\ Last(Append(EntryPath(other), t)) = t
      BY <2>1, Appended
    <3>3. QED
      BY <1>4, <3>1, <3>2
  <2>3. QED
    BY <1>3, <2>2
<1>5. QED
  BY <1>1, <1>2, <1>3, <1>4

LEMMA SameBox ==
  ASSUME NEW name \in Names, NEW other \in Names, NEW c, NEW d, BoxPath(name, c) = BoxPath(other, d)
  PROVE  name = other /\ c = d
<1>1. name = other /\ Segment(c) = Segment(d)
  BY SamePath DEF BoxPath
<1>2. QED
  BY <1>1, SamePath

LEMMA SameAddress ==
  ASSUME NEW name \in Names, NEW other \in Names, NEW c, NEW d, NEW ip \in Ips, NEW jp \in Ips,
         AddressPath(name, c, ip) = AddressPath(other, d, jp)
  PROVE  name = other /\ c = d /\ ip = jp
<1>1. /\ BoxPath(name, c) = BoxPath(other, d)
      /\ Entry("address", <<ip>>) = Entry("address", <<jp>>)
  <2>1. /\ Last(AddressPath(name, c, ip)) = Entry("address", <<ip>>)
        /\ Front(AddressPath(name, c, ip)) = BoxPath(name, c)
    BY AddressPaths
  <2>2. /\ Last(AddressPath(other, d, jp)) = Entry("address", <<jp>>)
        /\ Front(AddressPath(other, d, jp)) = BoxPath(other, d)
    BY AddressPaths
  <2>3. QED
    BY <2>1, <2>2
<1>2. QED
  BY <1>1, SameBox, SamePath

IpOf(i, container) == IF container = "ipv4" THEN i.ipv4 ELSE i.ipv6

\* The nodes that belong to an interface, one level of the tree after the other
LEMMA MadeLevels ==
  ASSUME NEW i \in Interface, NEW n, Made(n, i)
  PROVE  \/ Len(n.path) = 1 /\ n.path = EntryPath(i.name)
         \/ /\ Len(n.path) = 2
            /\ \/ IsLeaf(n, EntryPath(i.name), "name", i.name)
               \/ /\ i.description # None
                  /\ IsLeaf(n, EntryPath(i.name), "description", i.description)
               \/ ~i.enabled /\ IsLeaf(n, EntryPath(i.name), "enabled", "false")
               \/ /\ i.type # None
                  /\ IsLeaf(n, EntryPath(i.name), "type", ianaIfTypeToString(i.type))
               \/ \E container \in {"ipv4", "ipv6"} : n.path = BoxPath(i.name, container)
         \/ /\ Len(n.path) = 3
            /\ \E container \in {"ipv4", "ipv6"} :
                 LET ip == IpOf(i, container) IN
                 /\ ip # None
                 /\ \/ ip.mtu # None /\ IsLeaf(n, BoxPath(i.name, container), "mtu", ip.mtu)
                    \/ \E a \in Range(ip.address) :
                         n.path = AddressPath(i.name, container, a.ip)
         \/ /\ Len(n.path) = 4
            /\ \E container \in {"ipv4", "ipv6"} :
                 LET ip == IpOf(i, container) IN
                 /\ ip # None
                 /\ \E a \in Range(ip.address) :
                      \/ IsLeaf(n, AddressPath(i.name, container, a.ip), "ip", a.ip)
                      \/ /\ a.plen # None
                         /\ IsLeaf(n, AddressPath(i.name, container, a.ip),
                                   "prefix-length", a.plen)
<1>1. i.name \in Names /\ i.ipv4 \in Optional(Ip) /\ i.ipv6 \in Optional(Ip)
  BY InterfaceFields
<1>2. ASSUME NEW node, NEW value, IsLeaf(n, EntryPath(i.name), node, value)
      PROVE  Len(n.path) = 2
  BY <1>1, <1>2, PathLengths DEF IsLeaf
<1>3. CASE MadeEntry(n, i.name)
  BY <1>1, <1>2, <1>3, PathLengths DEF MadeEntry
<1>4. CASE \/ i.description # None /\ IsLeaf(n, EntryPath(i.name), "description", i.description)
           \/ ~i.enabled /\ IsLeaf(n, EntryPath(i.name), "enabled", "false")
           \/ /\ i.type # None
              /\ IsLeaf(n, EntryPath(i.name), "type", ianaIfTypeToString(i.type))
  BY <1>2, <1>4
<1>5. ASSUME NEW container \in {"ipv4", "ipv6"},
             MadeIp(n, i.name, container, IpOf(i, container))
      PROVE  \/ Len(n.path) = 2 /\ n.path = BoxPath(i.name, container)
             \/ /\ Len(n.path) = 3 /\ IpOf(i, container) # None
                /\ \/ /\ IpOf(i, container).mtu # None
                      /\ IsLeaf(n, BoxPath(i.name, container), "mtu", IpOf(i, container).mtu)
                   \/ \E a \in Range(IpOf(i, container).address) :
                        n.path = AddressPath(i.name, container, a.ip)
             \/ /\ Len(n.path) = 4 /\ IpOf(i, container) # None
                /\ \E a \in Range(IpOf(i, container).address) :
                     \/ IsLeaf(n, AddressPath(i.name, container, a.ip), "ip", a.ip)
                     \/ /\ a.plen # None
                        /\ IsLeaf(n, AddressPath(i.name, container, a.ip),
                                  "prefix-length", a.plen)
  <2>. DEFINE ip == IpOf(i, container)
  <2>1. ip # None /\ ip \in Optional(Ip)
    BY <1>1, <1>5 DEF MadeIp, IpOf
  <2>. HIDE DEF ip
  <2>2. CASE n.path = BoxPath(i.name, container)
    BY <1>1, <2>2, PathLengths
  <2>3. CASE ip.mtu # None /\ IsLeaf(n, BoxPath(i.name, container), "mtu", ip.mtu)
    <3>1. Len(n.path) = 3
      BY <1>1, <2>3, PathLengths DEF IsLeaf
    <3>2. QED
      BY <2>1, <2>3, <3>1 DEF ip
  <2>4. ASSUME NEW a \in Range(ip.address), MadeAddress(n, i.name, container, a)
        PROVE  \/ Len(n.path) = 3 /\ n.path = AddressPath(i.name, container, a.ip)
               \/ /\ Len(n.path) = 4
                  /\ \/ IsLeaf(n, AddressPath(i.name, container, a.ip), "ip", a.ip)
                     \/ /\ a.plen # None
                        /\ IsLeaf(n, AddressPath(i.name, container, a.ip),
                                  "prefix-length", a.plen)
    <3>1. a.ip \in Ips
      BY <2>1, IpFields
    <3>2. /\ Len(AddressPath(i.name, container, a.ip)) = 3
          /\ \A s : Len(Append(AddressPath(i.name, container, a.ip), s)) = 4
      BY <1>1, <3>1, AddressLengths
    <3>3. QED
      BY <2>4, <3>2 DEF MadeAddress, IsLeaf
  <2>5. \/ n.path = BoxPath(i.name, container)
        \/ ip.mtu # None /\ IsLeaf(n, BoxPath(i.name, container), "mtu", ip.mtu)
        \/ \E a \in Range(ip.address) : MadeAddress(n, i.name, container, a)
    BY <1>5 DEF MadeIp, ip
  <2>6. CASE \E a \in Range(ip.address) : MadeAddress(n, i.name, container, a)
    <3>1. PICK a \in Range(ip.address) : MadeAddress(n, i.name, container, a)
      BY <2>6
    <3>2. QED
      BY <2>1, <2>4, <3>1 DEF ip
  <2>7. QED
    BY <2>2, <2>3, <2>5, <2>6
<1>6. IpOf(i, "ipv4") = i.ipv4 /\ IpOf(i, "ipv6") = i.ipv6
  BY DEF IpOf
<1>7. CASE \E container \in {"ipv4", "ipv6"} : MadeIp(n, i.name, container, IpOf(i, container))
  <2>1. PICK container \in {"ipv4", "ipv6"} : MadeIp(n, i.name, container, IpOf(i, container))
    BY <1>7
  <2>2. QED
    BY <1>5, <2>1
<1>8. QED
  BY <1>3, <1>4, <1>6, <1>7 DEF Made

\* What a node at one of the paths that deserialize reads tells of the interface
\* that it belongs to.
LEMMA EntryOf ==
  ASSUME NEW i \in Interface, NEW n, Made(n, i), NEW name \in Names, n.path = EntryPath(name)
  PROVE  i.name = name
<1>1. Len(n.path) = 1 /\ i.name \in Names
  BY PathLengths, InterfaceFields
<1>2. n.path = EntryPath(i.name)
  BY <1>1, MadeLevels
<1>3. QED
  BY <1>1, <1>2, SamePath

LEMMA EntryLeafOf ==
  ASSUME NEW i \in Interface, NEW n, Made(n, i), NEW name \in Names, NEW node,
         n.path = Append(EntryPath(name), Segment(node))
  PROVE  /\ i.name = name
         /\ \/ node = "name" /\ n.value = i.name
            \/ node = "description" /\ i.description # None /\ n.value = i.description
            \/ node = "enabled" /\ ~i.enabled /\ n.value = "false"
            \/ node = "type" /\ i.type # None /\ n.value = ianaIfTypeToString(i.type)
            \/ node \in {"ipv4", "ipv6"}
<1>1. Len(n.path) = 2 /\ i.name \in Names
  BY PathLengths, InterfaceFields
<1>2. ASSUME NEW other, n.path = Append(EntryPath(i.name), Segment(other))
      PROVE  i.name = name /\ other = node
  <2>1. Append(EntryPath(i.name), Segment(other)) = Append(EntryPath(name), Segment(node))
    BY <1>2
  <2>2. i.name = name /\ Segment(other) = Segment(node)
    BY <1>1, <2>1, SamePath
  <2>3. QED
    BY <2>2, SamePath
<1>3. \/ IsLeaf(n, EntryPath(i.name), "name", i.name)
      \/ i.description # None /\ IsLeaf(n, EntryPath(i.name), "description", i.description)
      \/ ~i.enabled /\ IsLeaf(n, EntryPath(i.name), "enabled", "false")
      \/ i.type # None /\ IsLeaf(n, EntryPath(i.name), "type", ianaIfTypeToString(i.type))
      \/ \E container \in {"ipv4", "ipv6"} : n.path = BoxPath(i.name, container)
  BY <1>1, MadeLevels
<1>4. QED
  BY <1>2, <1>3 DEF IsLeaf, BoxPath

IsMtuOf(n, below, ip) == below = Segment("mtu") /\ ip.mtu # None /\ n.value = ip.mtu
IsAddressOf(below, ip) == \E a \in Range(ip.address) : below = Entry("address", <<a.ip>>)

LEMMA BelowBoxOf ==
  ASSUME NEW i \in Interface, NEW n, Made(n, i), NEW name \in Names, NEW container, NEW below,
         n.path = Append(BoxPath(name, container), below)
  PROVE  /\ i.name = name /\ container \in {"ipv4", "ipv6"} /\ IpOf(i, container) # None
         /\ IsMtuOf(n, below, IpOf(i, container)) \/ IsAddressOf(below, IpOf(i, container))
<1>1. Len(n.path) = 3 /\ i.name \in Names
  BY PathLengths, InterfaceFields
<1>2. ASSUME NEW c, NEW end, n.path = Append(BoxPath(i.name, c), end)
      PROVE  i.name = name /\ c = container /\ end = below
  <2>1. IsSeq(BoxPath(i.name, c)) /\ IsSeq(BoxPath(name, container))
    BY <1>1, InterfacePaths DEF IsPath
  <2>2. Front(n.path) = BoxPath(i.name, c) /\ Last(n.path) = end
    BY <1>2, <2>1, Appended
  <2>3. Front(n.path) = BoxPath(name, container) /\ Last(n.path) = below
    BY <2>1, Appended
  <2>4. BoxPath(i.name, c) = BoxPath(name, container) /\ end = below
    BY <2>2, <2>3
  <2>5. QED
    BY <1>1, <2>4, SameBox
<1>3. PICK c \in {"ipv4", "ipv6"} :
        LET ip == IpOf(i, c) IN
        /\ ip # None
        /\ \/ ip.mtu # None /\ IsLeaf(n, BoxPath(i.name, c), "mtu", ip.mtu)
           \/ \E a \in Range(ip.address) : n.path = AddressPath(i.name, c, a.ip)
  <2>1. ~(Len(n.path) = 1) /\ ~(Len(n.path) = 2) /\ ~(Len(n.path) = 4)
    BY <1>1
  <2>2. QED
    BY <2>1, MadeLevels
<1>. DEFINE ip == IpOf(i, c)
<1>. HIDE DEF ip
<1>4. CASE ip.mtu # None /\ IsLeaf(n, BoxPath(i.name, c), "mtu", ip.mtu)
  <2>1. i.name = name /\ c = container /\ Segment("mtu") = below /\ n.value = ip.mtu
    BY <1>2, <1>4 DEF IsLeaf
  <2>2. QED
    BY <1>3, <1>4, <2>1 DEF ip, IsMtuOf
<1>5. ASSUME NEW a \in Range(ip.address), n.path = AddressPath(i.name, c, a.ip)
      PROVE  i.name = name /\ c = container /\ below = Entry("address", <<a.ip>>)
  BY <1>2, <1>5 DEF AddressPath
<1>6. QED
  BY <1>3, <1>4, <1>5 DEF ip, IsAddressOf

LEMMA AddressOf ==
  ASSUME NEW i \in Interface, NEW n, Made(n, i), NEW name \in Names, NEW container, NEW jp,
         n.path = AddressPath(name, container, jp)
  PROVE  /\ i.name = name /\ container \in {"ipv4", "ipv6"} /\ IpOf(i, container) # None
         /\ \E a \in Range(IpOf(i, container).address) : a.ip = jp
<1>. DEFINE entry == Entry("address", <<jp>>)
<1>1. n.path = Append(BoxPath(name, container), entry)
  BY DEF AddressPath
<1>2. entry # Segment("mtu")
  BY DEF Entry, Segment
<1>. HIDE DEF entry
<1>3. /\ i.name = name /\ container \in {"ipv4", "ipv6"} /\ IpOf(i, container) # None
      /\ IsMtuOf(n, entry, IpOf(i, container)) \/ IsAddressOf(entry, IpOf(i, container))
  BY <1>1, BelowBoxOf
<1>4. PICK a \in Range(IpOf(i, container).address) : entry = Entry("address", <<a.ip>>)
  BY <1>2, <1>3 DEF IsMtuOf, IsAddressOf
<1>5. a.ip = jp
  BY <1>4, SamePath DEF entry
<1>6. QED
  BY <1>3, <1>4, <1>5

LEMMA AddressLeafOf ==
  ASSUME NEW i \in Interface, NEW n, Made(n, i), NEW name \in Names, NEW container, NEW jp \in Ips,
         NEW node, n.path = Append(AddressPath(name, container, jp), Segment(node))
  PROVE  /\ i.name = name /\ container \in {"ipv4", "ipv6"} /\ IpOf(i, container) # None
         /\ \E a \in Range(IpOf(i, container).address) :
              /\ a.ip = jp
              /\ \/ node = "ip"
                 \/ node = "prefix-length" /\ a.plen # None /\ n.value = a.plen
<1>1. /\ Len(n.path) = 4 /\ i.name \in Names
      /\ i.ipv4 \in Optional(Ip) /\ i.ipv6 \in Optional(Ip)
  BY AddressLengths, InterfaceFields
<1>2. PICK c \in {"ipv4", "ipv6"} :
        LET ip == IpOf(i, c) IN
        /\ ip # None
        /\ \E a \in Range(ip.address) :
             \/ IsLeaf(n, AddressPath(i.name, c, a.ip), "ip", a.ip)
             \/ /\ a.plen # None
                /\ IsLeaf(n, AddressPath(i.name, c, a.ip), "prefix-length", a.plen)
  BY <1>1, MadeLevels
<1>3. PICK a \in Range(IpOf(i, c).address) :
        \/ IsLeaf(n, AddressPath(i.name, c, a.ip), "ip", a.ip)
        \/ /\ a.plen # None
           /\ IsLeaf(n, AddressPath(i.name, c, a.ip), "prefix-length", a.plen)
  BY <1>2
<1>4. a.ip \in Ips
  BY <1>1, <1>2, IpFields DEF IpOf
<1>5. ASSUME NEW other, n.path = Append(AddressPath(i.name, c, a.ip), Segment(other))
      PROVE  i.name = name /\ c = container /\ a.ip = jp /\ other = node
  <2>1. IsSeq(AddressPath(i.name, c, a.ip)) /\ IsSeq(AddressPath(name, container, jp))
    BY <1>1, <1>4, AddressPaths DEF IsPath
  <2>2. Front(n.path) = AddressPath(i.name, c, a.ip) /\ Last(n.path) = Segment(other)
    BY <1>5, <2>1, Appended
  <2>3. Front(n.path) = AddressPath(name, container, jp) /\ Last(n.path) = Segment(node)
    BY <2>1, Appended
  <2>4. AddressPath(i.name, c, a.ip) = AddressPath(name, container, jp)
        /\ Segment(other) = Segment(node)
    BY <2>2, <2>3
  <2>5. i.name = name /\ c = container /\ a.ip = jp
    BY <1>1, <1>4, <2>4, SameAddress
  <2>6. QED
    BY <2>4, <2>5, SamePath
<1>6. QED
  BY <1>2, <1>3, <1>5 DEF IsLeaf

-----------------------------------------------------------------------------
(* An interface that was read, and the nodes of its name *)

LEMMA ReadLeaves ==
  ASSUME NEW nodes, IsInterfacesTree(nodes), NEW b \in Range(ReadInterfaces(nodes))
  PROVE  /\ b \in Interface /\ b.name \in Names
         /\ \E e \in Range(nodes) : e.path = EntryPath(b.name)
         /\ b.description = LeafValue(nodes, EntryPath(b.name), "description")
         /\ b.enabled = (LeafValue(nodes, EntryPath(b.name), "enabled") # "false")
         /\ b.type = ReadType(LeafValue(nodes, EntryPath(b.name), "type"))
         /\ b.oper_status = LeafValue(nodes, EntryPath(b.name), "oper-status")
         /\ b.ipv4 = ReadIp(nodes, EntryPath(b.name), "ipv4")
         /\ b.ipv6 = ReadIp(nodes, EntryPath(b.name), "ipv6")
<1>. DEFINE m == ReadInterfaces(nodes)
            entries == InterfaceEntries(nodes)
<1>1. /\ m \in Seq(Interface) /\ IsSeq(entries) /\ DOMAIN m = DOMAIN entries
      /\ \A k \in DOMAIN m :
           /\ m[k].name \in Names
           /\ entries[k].path = EntryPath(m[k].name)
           /\ m[k] = ReadInterface(nodes, EntryPath(m[k].name))
  BY ReadEntries
<1>2. Range(entries) \subseteq Range(nodes)
  BY TreeFacts, Entries DEF InterfaceEntries
<1>3. PICK k \in DOMAIN m : b = m[k]
  BY DEF Range
<1>. HIDE DEF m, entries
<1>4. b \in Interface /\ b.name \in Names /\ b = ReadInterface(nodes, EntryPath(b.name))
  BY <1>1, <1>3
<1>5. entries[k] \in Range(nodes) /\ entries[k].path = EntryPath(b.name)
  BY <1>1, <1>2, <1>3, SeqFacts
<1>6. QED
  BY <1>4, <1>5, ReadFields

\* The value of a leaf that was read is that of a node.
LEMMA NoneIsNoString ==
  None # "false" /\ None # "" /\ \A t \in IanaIfType : None # ianaIfTypeToString(t)
<1>1. None \notin Range(TypeName) /\ None # "unknown" /\ None # "false" /\ None # ""
  BY InterfaceDataAssumption
<1>2. \A t \in IanaIfType : ianaIfTypeToString(t) \in Range(TypeName) \union {"unknown"}
  BY InterfaceDataAssumption DEF ianaIfTypeToString, Range
<1>3. QED
  BY <1>1, <1>2

LEMMA ReadLeafNode ==
  ASSUME NEW nodes, NEW path, NEW node, LeafValue(nodes, path, node) # None
  PROVE  \E n \in Range(nodes) :
           n.path = Append(path, Segment(node)) /\ LeafValue(nodes, path, node) = n.value
<1>. DEFINE p == Append(path, Segment(node))
<1>1. LeafValue(nodes, path, node) = NodeValue(nodes, p)
  BY DEF LeafValue
<1>. HIDE DEF p
<1>2. \E n \in Range(nodes) : n.path = p /\ LeafValue(nodes, path, node) = n.value
  BY <1>1, NodeOfValue
<1>3. QED
  BY <1>2 DEF p

\* Every interface that has a leaf in the tree is read.
LEMMA LeafIsRead ==
  ASSUME NEW nodes, IsInterfacesTree(nodes), NEW name \in Names, NEW node,
         HasNode(nodes, Append(EntryPath(name), Segment(node)))
  PROVE  \E b \in Range(ReadInterfaces(nodes)) : b.name = name
<1>. DEFINE m == ReadInterfaces(nodes)
            entries == InterfaceEntries(nodes)
            path == Append(EntryPath(name), Segment(node))
<1>1. PICK n \in Range(nodes) : n.path = path
  BY DEF HasNode
<1>2. IsSeq(EntryPath(name)) /\ EntryPath(name) # <<>>
  BY InterfacePaths DEF IsPath
<1>3. Len(path) > 1 /\ Front(path) = EntryPath(name)
  <2>1. Len(path) = 2
    BY PathLengths
  <2>2. QED
    BY <1>2, <2>1, Appended
<1>. HIDE DEF path
<1>4. PICK e \in Range(nodes) : e.path = EntryPath(name)
  <2>1. HasNode(nodes, Front(n.path))
    BY <1>1, <1>3, TreeFacts, WellFormedFacts
  <2>2. QED
    BY <1>1, <1>3, <2>1 DEF HasNode
<1>5. e \in Range(entries)
  <2>. DEFINE none == <<>>
  <2>1. IsSeq(none) /\ EntryPath(name) = Append(none, Entry("interface", <<name>>))
    BY NoElement, InterfacePaths
  <2>. HIDE DEF none
  <2>2. Front(e.path) = none /\ Last(e.path) = Entry("interface", <<name>>)
    BY <1>4, <2>1, Appended
  <2>3. Last(e.path)[1] = "interface"
    BY <2>2 DEF Entry
  <2>4. QED
    BY <2>2, <2>3, TreeFacts, Entries DEF InterfaceEntries, none
<1>6. /\ m \in Seq(Interface) /\ IsSeq(entries) /\ DOMAIN m = DOMAIN entries
      /\ \A k \in DOMAIN m : m[k].name \in Names /\ entries[k].path = EntryPath(m[k].name)
  BY ReadEntries
<1>. HIDE DEF m, entries
<1>7. PICK k \in DOMAIN m : e = entries[k]
  BY <1>5, <1>6 DEF Range
<1>8. m[k].name = name /\ m[k] \in Range(m)
  BY <1>4, <1>6, <1>7, SamePath DEF Range
<1>9. QED
  BY <1>8 DEF m

\* libyang takes the call for a leaf of an interface whose name it can write.
LEMMA LeafIsTaken ==
  ASSUME NEW name \in Names, name \notin Unquotable, NEW node, NEW value,
         <<node, value>> \notin Refused, NEW resolves
  PROVE  ~Rejects(PathCall(Append(EntryPath(name), Segment(node)), value, {}), resolves)
<1>. DEFINE path == Append(EntryPath(name), Segment(node))
            c == PathCall(path, value, {})
<1>1. Range(path) = {Entry("interface", <<name>>), Segment(node)} /\ Last(path) = Segment(node)
  <2>1. IsSeq(EntryPath(name)) /\ Range(EntryPath(name)) = {Entry("interface", <<name>>)}
    BY InterfacePaths DEF IsPath
  <2>2. QED
    BY <2>1, Appended
<1>2. Segment(node)[1] = node
  BY DEF Segment
<1>. HIDE DEF path
<1>3. c.path = path /\ c.value = value /\ c.needs = {}
  BY DEF PathCall
<1>4. /\ Range(KeyLeaves(Entry("interface", <<name>>))) = {<<"name", name>>}
      /\ Range(KeyLeaves(Segment(node))) = {}
  BY InterfaceSegments
<1>5. <<"name", name>> \notin Refused /\ <<"name", name>>[2] = name
  BY InterfaceSchemaAssumption
<1>. HIDE DEF c
<1>6. QED
  BY <1>1, <1>2, <1>3, <1>4, <1>5 DEF Rejects, c, path

-----------------------------------------------------------------------------
(* An ip container whose calls were all taken *)

LEMMA LeafIs ==
  ASSUME NEW nodes, IsInterfacesTree(nodes), NEW path, NEW node, NEW value,
         NEW leaf, leaf = Append(path, Segment(node)),
         HasNode(nodes, leaf), \A n \in Range(nodes) : n.path = leaf => n.value = value
  PROVE  LeafValue(nodes, path, node) = value
<1>1. PICK n \in Range(nodes) : n.path = leaf
  BY DEF HasNode
<1>2. LeafValue(nodes, path, node) = NodeValue(nodes, leaf) /\ n.value = value
  BY <1>1 DEF LeafValue
<1>3. NodeValue(nodes, leaf) = n.value
  BY <1>1, TreeFacts, ValueOfNode
<1>4. QED
  BY <1>2, <1>3

\* A leaf that is there for a value only.
IsOptionalLeaf(nodes, leaf, value) ==
  /\ value # None => HasNode(nodes, leaf)
  /\ \A n \in Range(nodes) : n.path = leaf => value # None /\ n.value = value

LEMMA OptionalLeaf ==
  ASSUME NEW nodes, IsInterfacesTree(nodes), NEW path, NEW node, NEW value,
         NEW leaf, leaf = Append(path, Segment(node)), IsOptionalLeaf(nodes, leaf, value)
  PROVE  LeafValue(nodes, path, node) = value
<1>1. CASE value # None
  BY <1>1, LeafIs DEF IsOptionalLeaf
<1>2. CASE value = None
  <2>1. LeafValue(nodes, path, node) = None
    BY <1>2, ReadLeafNode DEF IsOptionalLeaf
  <2>2. QED
    BY <1>2, <2>1
<1>3. QED
  BY <1>1, <1>2

LEMMA DistinctAddresses ==
  ASSUME NEW ip \in Optional(Ip), ip # None, DistinctIps(ip)
  PROVE  \A a, x \in Range(ip.address) : a.ip = x.ip => a = x
<1>1. IsSeq(ip.address)
  BY IpFields, SequenceOver
<1>2. \A j, k \in DOMAIN ip.address : ip.address[j].ip = ip.address[k].ip => j = k
  BY DEF DistinctIps, IsInjective
<1>3. QED
  BY <1>1, <1>2, SeqFacts

\* The tree holds the container of the interface `name', and that one only.
Holds(nodes, name, container, ip) ==
  /\ \A c : IsIpCall(c, name, container, ip) => HasNode(nodes, c.path)
  /\ \A n \in Range(nodes) : \E i \in Interface :
       Made(n, i) /\ (i.name = name => IpOf(i, container) = ip)

LEMMA IpSurvives ==
  ASSUME NEW nodes, IsInterfacesTree(nodes), NEW name \in Names, NEW container,
         NEW ip \in Optional(Ip), Holds(nodes, name, container, ip),
         ip # None => ip.address # <<>> /\ DistinctIps(ip)
  PROVE  LET read == ReadIp(nodes, EntryPath(name), container) IN
         /\ read = None <=> ip = None
         /\ ip # None => Range(read.address) = Range(ip.address) /\ read.mtu = ip.mtu
<1>. DEFINE read == ReadIp(nodes, EntryPath(name), container)
            box == BoxPath(name, container)
            entries == EntriesOf(nodes, box, "address")
<1>1. /\ read \in Optional(Ip)
      /\ entries = <<>> <=> read = None
      /\ read # None =>
           /\ read.mtu = LeafValue(nodes, box, "mtu")
           /\ DOMAIN read.address = DOMAIN entries
           /\ \A k \in DOMAIN read.address :
                /\ entries[k].path = AddressPath(name, container, read.address[k].ip)
                /\ read.address[k].ip \in Ips
                /\ read.address[k].plen =
                     LeafValue(nodes, AddressPath(name, container, read.address[k].ip),
                               "prefix-length")
  BY ReadIpFacts
<1>2. /\ IsSeq(entries)
      /\ Range(entries) = {n \in Range(nodes) : Front(n.path) = box /\ Last(n.path)[1] = "address"}
  BY TreeFacts, Entries
<1>3. ASSUME NEW n \in Range(nodes), NEW jp, n.path = AddressPath(name, container, jp)
      PROVE  ip # None /\ \E a \in Range(ip.address) : a.ip = jp
  <2>1. PICK i \in Interface : Made(n, i) /\ (i.name = name => IpOf(i, container) = ip)
    BY DEF Holds
  <2>2. /\ i.name = name /\ IpOf(i, container) # None
        /\ \E a \in Range(IpOf(i, container).address) : a.ip = jp
    BY <1>3, <2>1, AddressOf
  <2>3. QED
    BY <2>1, <2>2
<1>. HIDE DEF entries, read, box
<1>4. ASSUME read # None PROVE ip # None
  <2>1. 1 \in DOMAIN entries /\ entries[1] \in Range(nodes)
    BY <1>1, <1>2, <1>4, SeqFacts
  <2>2. QED
    BY <1>1, <1>3, <1>4, <2>1
<1>5. ASSUME ip # None, NEW x \in Range(ip.address)
      PROVE  \E k \in DOMAIN entries : entries[k].path = AddressPath(name, container, x.ip)
  <2>. DEFINE base == AddressPath(name, container, x.ip)
              leaf == Append(base, Segment("ip"))
              c == PathCall(leaf, x.ip, {"ip"})
  <2>1. x.ip \in Ips
    BY <1>5, IpFields
  <2>2. HasNode(nodes, leaf)
    <3>1. IsIpCall(c, name, container, ip)
      BY <1>5 DEF IsIpCall, IsAddressCall
    <3>2. c.path = leaf
      BY DEF PathCall
    <3>. HIDE DEF c, leaf
    <3>3. QED
      BY <3>1, <3>2 DEF Holds
  <2>3. /\ IsSeq(base) /\ Front(base) = box /\ Last(base) = Entry("address", <<x.ip>>)
        /\ Len(leaf) > 1
    <3>1. /\ IsPath(base) /\ Front(base) = BoxPath(name, container)
          /\ Last(base) = Entry("address", <<x.ip>>)
      BY <2>1, AddressPaths
    <3>2. QED
      BY <2>1, <3>1, AddressLengths DEF IsPath, box
  <2>. HIDE DEF base
  <2>4. Front(leaf) = base
    BY <2>3, Appended
  <2>. HIDE DEF leaf
  <2>5. PICK n \in Range(nodes) : n.path = leaf
    BY <2>2 DEF HasNode
  <2>6. HasNode(nodes, base)
    <3>1. HasNode(nodes, Front(n.path))
      BY <2>3, <2>5, TreeFacts, WellFormedFacts
    <3>2. QED
      BY <2>4, <2>5, <3>1
  <2>7. PICK e \in Range(nodes) : e.path = base
    BY <2>6 DEF HasNode
  <2>8. Front(e.path) = box /\ Last(e.path)[1] = "address"
    BY <2>3, <2>7 DEF Entry
  <2>9. e \in Range(entries)
    BY <1>2, <2>8
  <2>10. PICK k \in DOMAIN entries : e = entries[k]
    BY <2>9 DEF Range
  <2>11. QED
    BY <2>7, <2>10 DEF base
<1>6. CASE ip = None
  BY <1>4, <1>6 DEF read
<1>7. CASE ip # None
  <2>1. IsSeq(ip.address) /\ ip.address # <<>>
        /\ \A a, x \in Range(ip.address) : a.ip = x.ip => a = x
    BY <1>7, IpFields, SequenceOver, DistinctAddresses
  <2>2. read # None
    <3>1. PICK x : x \in Range(ip.address)
      <4>. DEFINE addresses == ip.address
      <4>1. IsSeq(addresses) /\ addresses # <<>>
        BY <2>1
      <4>. HIDE DEF addresses
      <4>2. addresses[1] \in Range(addresses)
        BY <4>1, SeqFacts
      <4>3. QED
        BY <4>2 DEF addresses
    <3>2. DOMAIN entries # {}
      BY <1>5, <1>7, <3>1
    <3>3. entries # <<>>
      BY <3>2
    <3>4. QED
      BY <1>1, <3>3
  <2>3. read.address \in Seq(Address)
    BY <1>1, <2>2, IpFields
  <2>4. ASSUME NEW k \in DOMAIN read.address PROVE read.address[k] \in Range(ip.address)
    <3>. DEFINE a == read.address[k]
                base == AddressPath(name, container, a.ip)
    <3>1. entries[k] \in Range(nodes)
      BY <1>1, <1>2, <2>2, <2>4, SeqFacts
    <3>2. /\ entries[k].path = base /\ a.ip \in Ips
          /\ a.plen = LeafValue(nodes, base, "prefix-length")
      BY <1>1, <2>2
    <3>3. PICK x \in Range(ip.address) : x.ip = a.ip
      BY <1>3, <3>1, <3>2
    <3>4. a \in Address /\ x \in Address
      BY <1>7, <2>3, IpFields, SequenceOver
    <3>. HIDE DEF a
    <3>. DEFINE leaf == Append(base, Segment("prefix-length"))
    <3>5. x.plen # None => HasNode(nodes, leaf)
      <4>. DEFINE c == PathCall(leaf, x.plen, {"ip"})
      <4>1. ASSUME x.plen # None PROVE IsIpCall(c, name, container, ip)
        BY <1>7, <3>3, <4>1 DEF IsIpCall, IsAddressCall
      <4>2. c.path = leaf
        BY DEF PathCall
      <4>. HIDE DEF c, leaf
      <4>3. QED
        BY <4>1, <4>2 DEF Holds
    <3>6. ASSUME NEW n \in Range(nodes), n.path = leaf
          PROVE  x.plen # None /\ n.value = x.plen
      <4>1. PICK i \in Interface : Made(n, i) /\ (i.name = name => IpOf(i, container) = ip)
        BY DEF Holds
      <4>2. /\ i.name = name
            /\ \E y \in Range(IpOf(i, container).address) :
                 y.ip = a.ip /\ y.plen # None /\ n.value = y.plen
        BY <3>2, <3>6, <4>1, AddressLeafOf
      <4>3. PICK y \in Range(ip.address) : y.ip = a.ip /\ y.plen # None /\ n.value = y.plen
        BY <4>1, <4>2
      <4>4. y = x
        BY <2>1, <3>3, <4>3
      <4>5. QED
        BY <4>3, <4>4
    <3>. HIDE DEF base
    <3>7. LeafValue(nodes, base, "prefix-length") = x.plen
      <4>1. leaf = Append(base, Segment("prefix-length"))
        OBVIOUS
      <4>. HIDE DEF leaf
      <4>2. IsOptionalLeaf(nodes, leaf, x.plen)
        BY <3>5, <3>6 DEF IsOptionalLeaf
      <4>3. QED
        BY <4>1, <4>2, OptionalLeaf
    <3>8. a = x
      BY <3>2, <3>3, <3>4, <3>7 DEF Address
    <3>9. QED
      BY <3>8 DEF a
  <2>5. ASSUME NEW x \in Range(ip.address) PROVE x \in Range(read.address)
    <3>1. PICK k \in DOMAIN entries : entries[k].path = AddressPath(name, container, x.ip)
      BY <1>5, <1>7
    <3>2. /\ k \in DOMAIN read.address /\ read.address[k].ip \in Ips
          /\ entries[k].path = AddressPath(name, container, read.address[k].ip)
      BY <1>1, <2>2
    <3>3. x.ip \in Ips
      BY <1>7, IpFields
    <3>4. read.address[k].ip = x.ip
      <4>. DEFINE jp == read.address[k].ip
                  xp == x.ip
      <4>1. AddressPath(name, container, jp) = AddressPath(name, container, xp)
            /\ jp \in Ips /\ xp \in Ips
        BY <3>1, <3>2, <3>3
      <4>. HIDE DEF jp, xp
      <4>2. jp = xp
        BY <4>1, SameAddress
      <4>3. QED
        BY <4>2 DEF jp, xp
    <3>5. read.address[k] = x
      BY <2>1, <2>4, <3>2, <3>4
    <3>6. QED
      BY <3>2, <3>5 DEF Range
  <2>6. read.mtu = ip.mtu
    <3>. DEFINE leaf == Append(box, Segment("mtu"))
    <3>1. ip.mtu # None => HasNode(nodes, leaf)
      <4>. DEFINE c == PathCall(leaf, ip.mtu, {"ip"})
      <4>1. ASSUME ip.mtu # None PROVE IsIpCall(c, name, container, ip)
        BY <1>7, <4>1 DEF IsIpCall, IsMtuCall, box
      <4>2. c.path = leaf
        BY DEF PathCall
      <4>. HIDE DEF c, leaf
      <4>3. QED
        BY <4>1, <4>2 DEF Holds
    <3>2. ASSUME NEW n \in Range(nodes), n.path = leaf
          PROVE  ip.mtu # None /\ n.value = ip.mtu
      <4>1. PICK i \in Interface : Made(n, i) /\ (i.name = name => IpOf(i, container) = ip)
        BY DEF Holds
      <4>2. /\ i.name = name
            /\ \/ IsMtuOf(n, Segment("mtu"), IpOf(i, container))
               \/ IsAddressOf(Segment("mtu"), IpOf(i, container))
        BY <3>2, <4>1, BelowBoxOf DEF box
      <4>3. ~IsAddressOf(Segment("mtu"), ip)
        BY DEF IsAddressOf, Segment, Entry
      <4>4. QED
        BY <4>1, <4>2, <4>3 DEF IsMtuOf
    <3>3. LeafValue(nodes, box, "mtu") = ip.mtu
      <4>1. leaf = Append(box, Segment("mtu"))
        OBVIOUS
      <4>. HIDE DEF leaf
      <4>2. IsOptionalLeaf(nodes, leaf, ip.mtu)
        BY <3>1, <3>2 DEF IsOptionalLeaf
      <4>3. QED
        BY <4>1, <4>2, OptionalLeaf
    <3>4. QED
      BY <1>1, <2>2, <3>3
  <2>7. Range(read.address) \subseteq Range(ip.address)
    BY <2>4 DEF Range
  <2>8. QED
    BY <1>7, <2>2, <2>5, <2>6, <2>7 DEF read
<1>8. QED
  BY <1>6, <1>7

-----------------------------------------------------------------------------
(* The keys in the path of a call *)

LEMMA PathKeys ==
  ASSUME NEW name \in Names
  PROVE  /\ \A node : \A s \in Range(Append(EntryPath(name), Segment(node))) :
              Range(KeyLeaves(s)) \subseteq {<<"name", name>>}
         /\ \A container : \A node : \A s \in Range(Append(BoxPath(name, container), Segment(node))) :
              Range(KeyLeaves(s)) \subseteq {<<"name", name>>}
         /\ \A container : \A ip \in Ips : \A node :
              \A s \in Range(Append(AddressPath(name, container, ip), Segment(node))) :
                Range(KeyLeaves(s)) \subseteq {<<"name", name>>, <<"ip", ip>>}
<1>1. /\ Range(KeyLeaves(Entry("interface", <<name>>))) = {<<"name", name>>}
      /\ \A ip \in Ips : Range(KeyLeaves(Entry("address", <<ip>>))) = {<<"ip", ip>>}
      /\ \A node : Range(KeyLeaves(Segment(node))) = {}
  BY InterfaceSegments
<1>2. IsSeq(EntryPath(name)) /\ Range(EntryPath(name)) = {Entry("interface", <<name>>)}
  BY InterfacePaths DEF IsPath
<1>3. ASSUME NEW node
      PROVE  LET path == Append(EntryPath(name), Segment(node)) IN
             /\ IsSeq(path)
             /\ \A s \in Range(path) : Range(KeyLeaves(s)) \subseteq {<<"name", name>>}
  <2>1. /\ IsSeq(Append(EntryPath(name), Segment(node)))
        /\ Range(Append(EntryPath(name), Segment(node)))
             = {Entry("interface", <<name>>), Segment(node)}
    BY <1>2, Appended
  <2>2. QED
    BY <1>1, <2>1
<1>4. ASSUME NEW container, NEW s
      PROVE  LET path == Append(BoxPath(name, container), s) IN
             /\ IsSeq(path)
             /\ \A x \in Range(path) : x = s \/ Range(KeyLeaves(x)) \subseteq {<<"name", name>>}
  <2>1. IsSeq(BoxPath(name, container))
        /\ \A x \in Range(BoxPath(name, container)) :
             Range(KeyLeaves(x)) \subseteq {<<"name", name>>}
    BY <1>3 DEF BoxPath
  <2>2. /\ IsSeq(Append(BoxPath(name, container), s))
        /\ Range(Append(BoxPath(name, container), s)) = Range(BoxPath(name, container)) \union {s}
    BY <2>1, Appended
  <2>3. QED
    BY <2>1, <2>2
<1>5. ASSUME NEW container, NEW ip \in Ips, NEW node
      PROVE  \A s \in Range(Append(AddressPath(name, container, ip), Segment(node))) :
               Range(KeyLeaves(s)) \subseteq {<<"name", name>>, <<"ip", ip>>}
  <2>1. /\ IsSeq(AddressPath(name, container, ip))
        /\ \A x \in Range(AddressPath(name, container, ip)) :
             \/ x = Entry("address", <<ip>>)
             \/ Range(KeyLeaves(x)) \subseteq {<<"name", name>>}
    BY <1>4 DEF AddressPath
  <2>2. Range(Append(AddressPath(name, container, ip), Segment(node)))
          = Range(AddressPath(name, container, ip)) \union {Segment(node)}
    BY <2>1, Appended
  <2>3. QED
    BY <1>1, <2>1, <2>2
<1>6. QED
  BY <1>1, <1>3, <1>4, <1>5

\* The leaf that a call sets.
LeafSet(c) == <<Last(c.path)[1], c.value>>

\* Every key in the path of a call is the leaf that a call of the interface sets,
\* so that libyang refuses no key of an interface whose leaves it takes.
LEMMA CallKeys ==
  ASSUME NEW i \in Interface, NEW c \in Range(Calls(i)), NEW s \in Range(c.path),
         NEW key \in Range(KeyLeaves(s))
  PROVE  \E d \in Range(Calls(i)) : key = LeafSet(d)
<1>. DEFINE own == PathCall(Append(EntryPath(i.name), Segment("name")), i.name, {})
<1>1. i.name \in Names /\ i.ipv4 \in Optional(Ip) /\ i.ipv6 \in Optional(Ip)
  BY InterfaceFields
<1>2. ASSUME NEW path, IsSeq(path), NEW node, NEW value, NEW needs
      PROVE  /\ LeafSet(PathCall(Append(path, Segment(node)), value, needs)) = <<node, value>>
             /\ PathCall(Append(path, Segment(node)), value, needs).path
                  = Append(path, Segment(node))
  <2>. DEFINE longer == Append(path, Segment(node))
  <2>1. Last(longer) = Segment(node) /\ Segment(node)[1] = node
    BY <1>2, Appended DEF Segment
  <2>. HIDE DEF longer
  <2>2. PathCall(longer, value, needs).path = longer /\ PathCall(longer, value, needs).value = value
    BY DEF PathCall
  <2>3. QED
    BY <2>1, <2>2 DEF LeafSet, longer
<1>3. own \in Range(Calls(i)) /\ LeafSet(own) = <<"name", i.name>>
  <2>1. IsSeq(EntryPath(i.name))
    BY <1>1, InterfacePaths DEF IsPath
  <2>2. LeafSet(own) = <<"name", i.name>>
    BY <1>2, <2>1
  <2>3. own \in Range(Calls(i))
    BY TheCalls DEF IsCall, IsLeafCall, IsNameCall
  <2>4. QED
    BY <2>2, <2>3
<1>. HIDE DEF own
<1>4. CASE key = <<"name", i.name>>
  BY <1>3, <1>4
<1>5. CASE IsLeafCall(c, i)
  <2>1. PICK node : c.path = Append(EntryPath(i.name), Segment(node))
    BY <1>5 DEF IsLeafCall, IsNameCall, IsDescriptionCall, IsEnabledCall, IsTypeCall, PathCall
  <2>2. key = <<"name", i.name>>
    BY <1>1, <2>1, PathKeys
  <2>3. QED
    BY <1>4, <2>2
<1>6. ASSUME NEW container, NEW ip \in Optional(Ip), IsIpCall(c, i.name, container, ip),
             \A d : IsIpCall(d, i.name, container, ip) => d \in Range(Calls(i))
      PROVE  \E d \in Range(Calls(i)) : key = LeafSet(d)
  <2>1. CASE IsMtuCall(c, i.name, container, ip)
    <3>1. c.path = Append(BoxPath(i.name, container), Segment("mtu"))
      BY <2>1 DEF IsMtuCall, PathCall
    <3>2. key = <<"name", i.name>>
      BY <1>1, <3>1, PathKeys
    <3>3. QED
      BY <1>4, <3>2
  <2>2. CASE IsAddressCall(c, i.name, container, ip)
    <3>1. PICK a \in Range(ip.address) :
            \E node : c.path = Append(AddressPath(i.name, container, a.ip), Segment(node))
      BY <2>2 DEF IsAddressCall, PathCall
    <3>2. PICK node : c.path = Append(AddressPath(i.name, container, a.ip), Segment(node))
      BY <3>1
    <3>3. ip # None /\ a.ip \in Ips
      BY <2>2, IpFields DEF IsAddressCall
    <3>4. key \in {<<"name", i.name>>, <<"ip", a.ip>>}
      BY <1>1, <3>2, <3>3, PathKeys
    <3>. DEFINE d == PathCall(Append(AddressPath(i.name, container, a.ip), Segment("ip")), a.ip, {"ip"})
    <3>5. IsIpCall(d, i.name, container, ip)
      BY <3>3 DEF IsIpCall, IsAddressCall
    <3>6. LeafSet(d) = <<"ip", a.ip>>
      <4>1. IsSeq(AddressPath(i.name, container, a.ip))
        BY <1>1, <3>3, AddressPaths DEF IsPath
      <4>2. QED
        BY <1>2, <4>1
    <3>. HIDE DEF d
    <3>7. CASE key = <<"ip", a.ip>>
      BY <1>6, <3>5, <3>6, <3>7
    <3>8. QED
      BY <1>4, <3>4, <3>7
  <2>3. QED
    BY <1>6, <2>1, <2>2 DEF IsIpCall
<1>7. CASE IsIpCall(c, i.name, "ipv4", i.ipv4)
  <2>1. \A d : IsIpCall(d, i.name, "ipv4", i.ipv4) => d \in Range(Calls(i))
    BY TheCalls DEF IsCall
  <2>2. QED
    BY <1>1, <1>6, <1>7, <2>1
<1>8. CASE IsIpCall(c, i.name, "ipv6", i.ipv6)
  <2>1. \A d : IsIpCall(d, i.name, "ipv6", i.ipv6) => d \in Range(Calls(i))
    BY TheCalls DEF IsCall
  <2>2. QED
    BY <1>1, <1>6, <1>8, <2>1
<1>9. IsCall(c, i)
  BY TheCalls
<1>10. QED
  BY <1>5, <1>7, <1>8, <1>9 DEF IsCall

=============================================================================
