------------------------------ MODULE LydTree ------------------------------
(***************************************************************************)
(* The part of a libyang data tree that the serializers need (external     *)
(* code, modelled from how they use it).  A tree below its top container   *)
(* is the sequence of its nodes in creation order; a node is a path and a  *)
(* value.  A path is a sequence of segments: <<node name, keys>> for a     *)
(* list entry, keys being the sequence of its key values; <<name, None>>   *)
(* for another node; <<name, None, k>> for the k-th entry of a list or     *)
(* leaf-list of state data, which has no keys and may repeat values.       *)
(* Nodes are selected with FlattenSeq, a recursive function, and not with  *)
(* SelectSeq, which the provers cannot expand.                             *)
(***************************************************************************)
EXTENDS Sequences, SequencesExt, Naturals

CONSTANTS
  None,      \* no value, no key
  Refused,   \* the pairs <<node name, value>> that no type accepts
  Unquotable,\* the list keys that a [name='...'] predicate cannot hold
  KeyOf,     \* KeyOf[list]: the names of the list's key leaves, in order
  Canonical  \* Canonical[<<node name, value>>]: the form libyang stores, for
             \* those values that have another one

Segment(node) == <<node, None>>
Entry(list, keys) == <<list, keys>>
Instance(node, k) == <<node, None, k>>

\* A call of lyd_new_path, with the prefixes, features and schema nodes that
\* it needs the context to know.
PathCall(path, value, needs) == [path |-> path, value |-> value, needs |-> needs]

If(condition, seq) == IF condition THEN seq ELSE <<>>

HasNode(nodes, path) == \E n \in Range(nodes) : n.path = path

\* lyd_get_value of the node at path, or None
NodeValue(nodes, path) ==
  IF HasNode(nodes, path)
    THEN (CHOOSE n \in Range(nodes) : n.path = path).value
    ELSE None

\* The children of that name: entries of a list or a leaf-list.  They are in
\* the order of their creation; libyang 3 and later sort the entries of a list
\* of configuration by their keys instead, so that no property may rest on
\* the order of interfaces, addresses, ribs or protocols.  State lists and
\* leaf-lists, which have no keys, do keep the order of their creation.
EntriesOf(nodes, parent, list) ==
  FlattenSeq([k \in DOMAIN nodes |->
    If(Front(nodes[k].path) = parent /\ Last(nodes[k].path)[1] = list, <<nodes[k]>>)])

KeyLeaves(segment) ==
  IF segment[2] = None THEN <<>>
  ELSE [k \in DOMAIN segment[2] |-> <<KeyOf[segment[1]][k], segment[2][k]>>]

\* What lyd_new_path refuses in every tree: the context lacks what the call
\* needs, a key cannot be written or is not one of its type, the value is none.
Rejects(call, resolves) ==
  \/ ~(call.needs \subseteq resolves)
  \/ \E s \in Range(call.path) : \E key \in Range(KeyLeaves(s)) :
       key[2] \in Unquotable \/ key \in Refused
  \/ <<Last(call.path)[1], call.value>> \in Refused

\* It answers an error and changes nothing, also when the node exists.
PathFails(nodes, call, resolves) ==
  Rejects(call, resolves) \/ HasNode(nodes, call.path)

Stored(leaf) == IF leaf \in DOMAIN Canonical THEN Canonical[leaf] ELSE leaf[2]

\* The node at the end of path; a list entry comes with its key leaves.
NewNode(path, value) ==
  LET keys == KeyLeaves(Last(path)) IN
  << [path |-> path, value |-> Stored(<<Last(path)[1], value>>)] >>
  \o [k \in DOMAIN keys |-> [path  |-> Append(path, Segment(keys[k][1])),
                             value |-> Stored(keys[k])]]

\* The i-th segment of path is a key leaf, which its list entry comes with.
IsKeyLeaf(path, i) ==
  i > 1 /\ \E key \in Range(KeyLeaves(path[i - 1])) : path[i] = Segment(key[1])

\* lyd_new_path creates the node and every missing node above it.
lyd_new_path(nodes, call) ==
  LET Above(i) == SubSeq(call.path, 1, i)
      Value(i) == IF i = Len(call.path) THEN call.value ELSE None
  IN nodes \o FlattenSeq([i \in DOMAIN call.path |->
       If(~HasNode(nodes, Above(i)) /\ ~IsKeyLeaf(call.path, i),
          NewNode(Above(i), Value(i)))])

-----------------------------------------------------------------------------
(* What libyang sees to in every tree, its own and a parsed one *)

DistinctPaths(nodes) ==
  \A j, k \in DOMAIN nodes : nodes[j].path = nodes[k].path => j = k

\* A path has one node, whose parent exists; a list entry has its key leaves.
WellFormed(nodes) ==
  /\ nodes \in Seq(Range(nodes))
  /\ DistinctPaths(nodes)
  /\ \A n \in Range(nodes) :
       /\ n.path \in Seq(Range(n.path)) /\ n.path # <<>>
       /\ Len(n.path) > 1 => HasNode(nodes, Front(n.path))
       /\ \A key \in Range(KeyLeaves(Last(n.path))) :
            \E leaf \in Range(nodes) :
              leaf.path = Append(n.path, Segment(key[1])) /\ leaf.value = Stored(key)

=============================================================================
