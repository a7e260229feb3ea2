-------------------------- MODULE IetfRoutingProofs --------------------------
(***************************************************************************)
(* The safety properties of IetfRouting for any models, documents, enabled *)
(* features and bounds.                                                    *)
(***************************************************************************)
EXTENDS IetfRouting, IetfInterfacesObjectProofs

-----------------------------------------------------------------------------
(* The calls of serialize create nodes of the schema. *)

\* What OfRouting asks of a leaf, and of the last segment of a path.
OfLeaf(node, value) ==
  /\ node = "router-id" => value \in RouterIds
  /\ node = "interface" => value \in Names
  /\ node = "name" => value \in Labels
  /\ node = "type" => value \in CppTypes
  /\ node = "address-family" => value \in Families
  /\ node = "description" => value \in Texts
  /\ node = "route-preference" => value \in Prefs

OfList(segment) ==
  /\ segment[1] = "rib" => \E name \in Labels : segment = Entry("rib", <<name>>)
  /\ segment[1] = "control-plane-protocol" =>
       \E type \in CppTypes, name \in Labels :
         segment = Entry("control-plane-protocol", <<type, name>>)

LEMMA OfRoutingParts ==
  ASSUME NEW n
  PROVE  OfRouting(n) <=> OfLeaf(Last(n.path)[1], n.value) /\ OfList(Last(n.path))
BY DEF OfRouting, OfLeaf, OfList

\* The segments of a path above the node that a call sets.
Containers ==
  {"interfaces", "control-plane-protocols", "control-plane-protocol", "ribs", "rib",
   "static-routes", "routes", "route"}

IsContainer(segment) ==
  /\ IsSegment(segment) /\ segment[1] \in Containers /\ OfList(segment)
  /\ \A key \in Range(KeyLeaves(segment)) :
       key[1] \in {"name", "type"} /\ OfLeaf(key[1], Stored(key))

IsBox(path) == IsSeq(path) /\ \A s \in Range(path) : IsContainer(s)

IsRoutingCall(c) ==
  \E box, segment, value, needs :
    /\ IsBox(box) /\ IsSegment(segment) /\ Range(KeyLeaves(segment)) = {}
    /\ segment[1] \notin Containers
    /\ OfLeaf(segment[1], Stored(<<segment[1], value>>))
    /\ c = PathCall(Append(box, segment), value, needs)

LEMMA BoxNodes ==
  ASSUME NEW box, IsBox(box), NEW n \in NodesOf(PathCall(box, None, {}))
  PROVE  OfRouting(n)
<1>. DEFINE call == PathCall(box, None, {})
<1>1. call.path = box /\ call.value = None
  BY DEF PathCall
<1>2. box # <<>>
  BY NodesOfNoPath
<1>3. IsPath(call.path)
  BY <1>1, <1>2 DEF IsBox, IsPath, IsContainer
<1>4. PICK i \in DOMAIN call.path : n \in Range(NodesAt(call, i))
  BY DEF NodesOf
<1>. HIDE DEF call
<1>. DEFINE above == Above(call, i)
            s == call.path[i]
<1>5. /\ IsSeq(above) /\ Last(above) = s
      /\ Range(NodesAt(call, i))
           = {[path |-> above, value |-> Stored(<<s[1], ValueAt(call, i)>>)]}
             \union {KeyLeafNode(above, key) : key \in Range(KeyLeaves(s))}
  BY <1>3, <1>4, PathPrefix
<1>6. IsContainer(s)
  <2>1. s \in Range(box)
    BY <1>1, <1>4 DEF Range
  <2>2. QED
    BY <2>1 DEF IsBox
<1>. HIDE DEF above, s
<1>7. CASE n = [path |-> above, value |-> Stored(<<s[1], ValueAt(call, i)>>)]
  <2>1. Last(n.path) = s
    BY <1>5, <1>7
  <2>2. OfLeaf(s[1], n.value) /\ OfList(s)
    BY <1>6 DEF IsContainer, Containers, OfLeaf
  <2>3. QED
    BY <2>1, <2>2, OfRoutingParts
<1>8. CASE \E key \in Range(KeyLeaves(s)) : n = KeyLeafNode(above, key)
  <2>1. PICK key \in Range(KeyLeaves(s)) : n = KeyLeafNode(above, key)
    BY <1>8
  <2>2. key[1] \in {"name", "type"} /\ OfLeaf(key[1], Stored(key))
    BY <1>6 DEF IsContainer
  <2>3. n.path = Append(above, Segment(key[1])) /\ n.value = Stored(key)
    BY <2>1 DEF KeyLeafNode
  <2>4. Last(n.path) = Segment(key[1])
    BY <1>5, <2>3, Appended
  <2>5. Last(n.path)[1] = key[1]
    BY <2>4 DEF Segment
  <2>6. OfList(Last(n.path))
    BY <2>2, <2>5 DEF OfList
  <2>7. QED
    BY <2>2, <2>3, <2>5, <2>6, OfRoutingParts
<1>9. QED
  BY <1>4, <1>5, <1>7, <1>8

LEMMA RoutingCallNodes ==
  ASSUME NEW c, IsRoutingCall(c)
  PROVE  /\ IsPath(c.path) /\ DOMAIN c = {"path", "value", "needs"}
         /\ \A n \in NodesOf(c) : OfRouting(n)
<1>1. PICK box, segment, value, needs :
        /\ IsBox(box) /\ IsSegment(segment) /\ Range(KeyLeaves(segment)) = {}
        /\ segment[1] \notin Containers
        /\ OfLeaf(segment[1], Stored(<<segment[1], value>>))
        /\ c = PathCall(Append(box, segment), value, needs)
  BY DEF IsRoutingCall
<1>. DEFINE longer == Append(box, segment)
            stored == Stored(<<segment[1], value>>)
<1>2. IsSeq(box) /\ \A s \in Range(box) : IsSegment(s)
  BY <1>1 DEF IsBox, IsContainer
<1>3. /\ IsPath(longer) /\ Last(longer) = segment
      /\ IsSeq(longer) /\ longer # <<>>
  BY <1>1, <1>2, LongerPath DEF IsPath
<1>4. c.path = longer /\ DOMAIN c = {"path", "value", "needs"}
  BY <1>1 DEF PathCall
<1>5. NodesOf(c) \subseteq NodesOf(PathCall(box, None, {})) \union Range(NewNode(longer, value))
  BY <1>1, <1>2, NodesOfLonger
<1>. HIDE DEF longer
<1>6. Range(NewNode(longer, value)) = {[path |-> longer, value |-> stored]}
  <2>1. Range(NewNode(longer, value))
          = {[path |-> longer, value |-> Stored(<<Last(longer)[1], value>>)]}
            \union {KeyLeafNode(longer, key) : key \in Range(KeyLeaves(Last(longer)))}
    BY <1>1, <1>3, NewNodes
  <2>2. QED
    BY <1>1, <1>3, <2>1
<1>. HIDE DEF stored
<1>7. OfLeaf(segment[1], stored) /\ OfList(segment)
  BY <1>1 DEF stored, OfList, Containers
<1>8. ASSUME NEW n \in NodesOf(c) PROVE OfRouting(n)
  <2>1. CASE n \in NodesOf(PathCall(box, None, {}))
    BY <1>1, <2>1, BoxNodes
  <2>2. CASE n = [path |-> longer, value |-> stored]
    <3>1. Last(n.path) = segment /\ n.value = stored
      BY <1>3, <2>2
    <3>2. QED
      BY <1>7, <3>1, OfRoutingParts
  <2>3. QED
    BY <1>5, <1>6, <1>8, <2>1, <2>2
<1>9. QED
  BY <1>3, <1>4, <1>8

\* A sequence of such calls.
AllRouting(s) == IsSeq(s) /\ \A c \in Range(s) : IsRoutingCall(c)

LEMMA NoCalls == AllRouting(<<>>)
BY NoElement DEF AllRouting

LEMMA OneCall ==
  ASSUME NEW c, IsRoutingCall(c)
  PROVE  AllRouting(<<c>>)
BY OneElement DEF AllRouting

LEMMA MoreCalls ==
  ASSUME NEW s, AllRouting(s), NEW t, AllRouting(t)
  PROVE  AllRouting(s \o t)
BY Concatenation DEF AllRouting

LEMMA CallsIf ==
  ASSUME NEW condition \in BOOLEAN, NEW s, condition => AllRouting(s)
  PROVE  AllRouting(If(condition, s))
BY NoCalls DEF If

LEMMA FlatCalls ==
  ASSUME NEW n \in Nat, NEW ss, DOMAIN ss = 1..n, ss = [k \in 1..n |-> ss[k]],
         \A k \in 1..n : AllRouting(ss[k])
  PROVE  AllRouting(FlattenSeq(ss))
<1>1. IsSeq(ss)
  BY FunctionIsSeq
<1>2. \A k \in DOMAIN ss : IsSeq(ss[k])
  BY DEF AllRouting
<1>3. /\ IsSeq(FlattenSeq(ss))
      /\ Range(FlattenSeq(ss)) = UNION {Range(ss[k]) : k \in DOMAIN ss}
  BY <1>1, <1>2, Flattened
<1>4. QED
  BY <1>3 DEF AllRouting

LEMMA LongerBox ==
  ASSUME NEW box, IsBox(box), NEW segment, IsContainer(segment)
  PROVE  IsBox(Append(box, segment))
BY Appended DEF IsBox

LEMMA PlainContainer ==
  /\ \A node \in Containers \ {"rib", "control-plane-protocol"} : IsContainer(Segment(node))
  /\ \A k : IsContainer(Instance("route", k))
  /\ \A node, k : IsSegment(Instance(node, k)) /\ Range(KeyLeaves(Instance(node, k))) = {}
<1>1. ASSUME NEW s, s[2] = None PROVE IsSegment(s) /\ Range(KeyLeaves(s)) = {}
  <2>1. KeyLeaves(s) = <<>>
    BY <1>1 DEF KeyLeaves
  <2>2. IsSeq(<<>>) /\ Range(<<>>) = {} /\ DOMAIN <<>> = {}
    BY NoElement
  <2>3. QED
    BY <2>1, <2>2 DEF IsSegment
<1>2. ASSUME NEW node \in Containers \ {"rib", "control-plane-protocol"},
             NEW s, s[1] = node, s[2] = None
      PROVE  IsContainer(s)
  BY <1>1, <1>2 DEF IsContainer, OfList
<1>3. ASSUME NEW node
      PROVE  Segment(node)[1] = node /\ Segment(node)[2] = None
  BY DEF Segment
<1>4. ASSUME NEW node, NEW k
      PROVE  Instance(node, k)[1] = node /\ Instance(node, k)[2] = None
  BY DEF Instance
<1>5. "route" \in Containers \ {"rib", "control-plane-protocol"}
  BY DEF Containers
<1>6. QED
  BY <1>1, <1>2, <1>3, <1>4, <1>5

LEMMA NamesAsStored ==
  /\ \A name \in Labels : OfLeaf("name", Stored(<<"name", name>>))
  /\ \A s \in CppTypes : OfLeaf("type", Stored(<<"type", s>>))
  /\ \A s \in Families : OfLeaf("address-family", Stored(<<"address-family", s>>))
  /\ \A s \in Texts : OfLeaf("description", Stored(<<"description", s>>))
  /\ \A s \in Names : OfLeaf("interface", Stored(<<"interface", s>>))
  /\ \A s \in RouterIds : OfLeaf("router-id", Stored(<<"router-id", s>>))
  /\ \A s \in Prefs : OfLeaf("route-preference", Stored(<<"route-preference", s>>))
<1>1. ASSUME NEW name \in Labels PROVE OfLeaf("name", Stored(<<"name", name>>))
  BY RoutingSchemaAssumption DEF OfLeaf, Stored
<1>2. ASSUME NEW s \in CppTypes PROVE OfLeaf("type", Stored(<<"type", s>>))
  BY RoutingSchemaAssumption DEF OfLeaf
<1>3. ASSUME NEW s \in Families PROVE OfLeaf("address-family", Stored(<<"address-family", s>>))
  BY RoutingSchemaAssumption DEF OfLeaf
<1>4. ASSUME NEW s \in Texts PROVE OfLeaf("description", Stored(<<"description", s>>))
  BY RoutingSchemaAssumption DEF OfLeaf, Stored
<1>5. ASSUME NEW s \in Names PROVE OfLeaf("interface", Stored(<<"interface", s>>))
  BY RoutingSchemaAssumption DEF OfLeaf, Stored
<1>6. ASSUME NEW s \in RouterIds PROVE OfLeaf("router-id", Stored(<<"router-id", s>>))
  BY RoutingSchemaAssumption DEF OfLeaf, Stored
<1>7. ASSUME NEW s \in Prefs
      PROVE  OfLeaf("route-preference", Stored(<<"route-preference", s>>))
  BY RoutingSchemaAssumption DEF OfLeaf, Stored
<1>8. QED
  BY <1>1, <1>2, <1>3, <1>4, <1>5, <1>6, <1>7

LEMMA RibSegment ==
  ASSUME NEW name \in Labels
  PROVE  /\ IsContainer(Entry("rib", <<name>>))
         /\ Range(KeyLeaves(Entry("rib", <<name>>))) = {<<"name", name>>}
<1>. DEFINE s == Entry("rib", <<name>>)
<1>1. s[1] = "rib" /\ s = Entry("rib", <<name>>)
  BY DEF Entry
<1>2. IsSegment(s) /\ Range(KeyLeaves(s)) = {<<"name", name>>}
  BY OneKey, RoutingSchemaAssumption
<1>. HIDE DEF s
<1>3. OfList(s)
  BY <1>1 DEF OfList
<1>4. QED
  BY <1>1, <1>2, <1>3, NamesAsStored DEF IsContainer, Containers, s

LEMMA CppSegment ==
  ASSUME NEW type \in CppTypes, NEW name \in Labels
  PROVE  /\ IsContainer(Entry("control-plane-protocol", <<type, name>>))
         /\ Range(KeyLeaves(Entry("control-plane-protocol", <<type, name>>)))
              = {<<"type", type>>, <<"name", name>>}
<1>. DEFINE s == Entry("control-plane-protocol", <<type, name>>)
            keys == KeyLeaves(s)
            pair == <<type, name>>
            leaves == <<"type", "name">>
<1>1. s[1] = "control-plane-protocol" /\ s[2] = pair
      /\ s = Entry("control-plane-protocol", <<type, name>>)
  BY DEF Entry
<1>2. /\ DOMAIN pair = 1..2 /\ pair[1] = type /\ pair[2] = name
      /\ leaves[1] = "type" /\ leaves[2] = "name"
  OBVIOUS
<1>3. pair # None /\ KeyOf["control-plane-protocol"] = leaves
  BY RoutingSchemaAssumption
<1>. HIDE DEF s, pair, leaves
<1>4. keys = [k \in 1..2 |-> <<leaves[k], pair[k]>>]
  BY <1>1, <1>2, <1>3 DEF KeyLeaves
<1>. HIDE DEF keys
<1>5. /\ DOMAIN keys = 1..2 /\ keys = [k \in 1..2 |-> keys[k]]
      /\ keys[1] = <<"type", type>> /\ keys[2] = <<"name", name>>
  BY <1>2, <1>4
<1>6. IsSeq(keys) /\ Range(keys) = {<<"type", type>>, <<"name", name>>}
  <2>1. IsSeq(keys)
    BY <1>5, FunctionIsSeq
  <2>2. 1..2 = {1, 2}
    OBVIOUS
  <2>3. QED
    BY <1>5, <2>1, <2>2 DEF Range
<1>7. \A j, k \in DOMAIN keys : keys[j][1] = keys[k][1] => j = k
  BY <1>5
<1>8. IsSegment(s)
  BY <1>6, <1>7 DEF IsSegment, keys
<1>9. OfList(s)
  BY <1>1 DEF OfList
<1>10. \A key \in Range(keys) : key[1] \in {"name", "type"} /\ OfLeaf(key[1], Stored(key))
  BY <1>6, NamesAsStored
<1>11. QED
  BY <1>1, <1>6, <1>8, <1>9, <1>10 DEF IsContainer, Containers, keys, s, pair

\* A call that sets a leaf in a box.
LEMMA LeafCall ==
  ASSUME NEW box, IsBox(box), NEW node, node \notin Containers, NEW value, NEW needs,
         OfLeaf(node, Stored(<<node, value>>))
  PROVE  IsRoutingCall(PathCall(Append(box, Segment(node)), value, needs))
<1>. DEFINE s == Segment(node)
<1>1. s[1] = node /\ IsSegment(s) /\ Range(KeyLeaves(s)) = {}
  BY InterfaceSegments DEF Segment
<1>. HIDE DEF s
<1>2. IsRoutingCall(PathCall(Append(box, s), value, needs))
  BY <1>1 DEF IsRoutingCall
<1>3. QED
  BY <1>2 DEF s

LEMMA RouteCallsTyped ==
  ASSUME NEW box, IsBox(box), NEW list \in {"static-routes", "routes"},
         NEW routes \in Seq(Optional(Prefs)), NEW needs
  PROVE  AllRouting(RouteCalls(box, list, routes, needs))
<1>. DEFINE n == Len(routes)
            C(k) == PathCall(Append(RoutePath(box, list, k), Segment("route-preference")),
                             routes[k], needs)
            ss == [k \in 1..n |-> If(routes[k] # None, <<C(k)>>)]
<1>1. n \in Nat /\ DOMAIN routes = 1..n /\ \A k \in 1..n : routes[k] \in Optional(Prefs)
  OBVIOUS
<1>2. RouteCalls(box, list, routes, needs) = FlattenSeq(ss)
  BY <1>1 DEF RouteCalls
<1>3. ASSUME NEW k \in 1..n PROVE AllRouting(ss[k])
  <2>1. IsBox(RoutePath(box, list, k))
    <3>1. IsContainer(Segment(list)) /\ IsContainer(Instance("route", k))
      BY PlainContainer DEF Containers
    <3>2. QED
      BY <3>1, LongerBox DEF RoutePath
  <2>2. ASSUME routes[k] # None PROVE AllRouting(<<C(k)>>)
    <3>1. routes[k] \in Prefs
      BY <1>1, <2>2 DEF Optional
    <3>2. "route-preference" \notin Containers
      BY DEF Containers
    <3>3. IsRoutingCall(C(k))
      BY <2>1, <3>1, <3>2, LeafCall, NamesAsStored
    <3>. HIDE DEF C
    <3>4. QED
      BY <3>3, OneCall
  <2>3. ss[k] = If(routes[k] # None, <<C(k)>>)
    OBVIOUS
  <2>. HIDE DEF ss, C
  <2>4. QED
    BY <2>2, <2>3, CallsIf
<1>4. DOMAIN ss = 1..n /\ ss = [k \in 1..n |-> ss[k]]
  OBVIOUS
<1>. HIDE DEF ss, n
<1>5. QED
  BY <1>1, <1>2, <1>3, <1>4, FlatCalls

LEMMA CallTyped ==
  ASSUME NEW box, IsBox(box), NEW node, node \notin Containers, NEW value,
         OfLeaf(node, Stored(<<node, value>>))
  PROVE  AllRouting(Call(box, node, value))
BY LeafCall, OneCall DEF Call

LEMMA DescriptionTyped ==
  ASSUME NEW box, IsBox(box), NEW text \in Optional(Texts)
  PROVE  AllRouting(If(text # None, Call(box, "description", text)))
<1>1. ASSUME text # None PROVE AllRouting(Call(box, "description", text))
  <2>1. text \in Texts
    BY <1>1 DEF Optional
  <2>2. "description" \notin Containers
    BY DEF Containers
  <2>3. QED
    BY <2>1, <2>2, CallTyped, NamesAsStored
<1>2. QED
  BY <1>1, CallsIf

\* Two segments.
LEMMA TwoSegments ==
  ASSUME NEW node \in Containers \ {"rib", "control-plane-protocol"}, NEW s, IsContainer(s)
  PROVE  IsBox(<<Segment(node), s>>)
<1>1. IsContainer(Segment(node))
  BY PlainContainer
<1>2. IsBox(<<Segment(node)>>)
  BY <1>1, OneElement DEF IsBox
<1>3. IsBox(Append(<<Segment(node)>>, s))
  BY <1>2, LongerBox
<1>4. QED
  BY <1>3, TwoElements

LEMMA CppCallsTyped ==
  ASSUME NEW p \in Cpp
  PROVE  AllRouting(CppCalls(p))
<1>. DEFINE box == << Segment("control-plane-protocols"),
                      Entry("control-plane-protocol", <<p.type, p.name>>) >>
            s1 == Call(box, "type", p.type)
            s2 == Call(box, "name", p.name)
            s3 == If(p.description # None, Call(box, "description", p.description))
            s4 == RouteCalls(box, "static-routes", p.static_routes, {"static-routes/route"})
<1>1. CppCalls(p) = s1 \o s2 \o s3 \o s4
  BY DEF CppCalls
<1>2. /\ p.type \in CppTypes /\ p.name \in Labels /\ p.description \in Optional(Texts)
      /\ p.static_routes \in Seq(Optional(Prefs))
  BY DEF Cpp
<1>3. IsBox(box)
  <2>1. IsContainer(Entry("control-plane-protocol", <<p.type, p.name>>))
    BY <1>2, CppSegment
  <2>2. QED
    BY <2>1, TwoSegments DEF Containers
<1>. HIDE DEF box
<1>4. AllRouting(s1) /\ AllRouting(s2)
  BY <1>2, <1>3, CallTyped, NamesAsStored DEF Containers
<1>5. AllRouting(s3)
  BY <1>2, <1>3, DescriptionTyped
<1>6. AllRouting(s4)
  BY <1>2, <1>3, RouteCallsTyped
<1>. HIDE DEF s1, s2, s3, s4
<1>7. AllRouting(s1 \o s2 \o s3)
  BY <1>4, <1>5, MoreCalls
<1>8. QED
  BY <1>1, <1>6, <1>7, MoreCalls

LEMMA RibCallsTyped ==
  ASSUME NEW r \in Rib
  PROVE  AllRouting(RibCalls(r))
<1>. DEFINE box == RibBox(r)
            s0 == Call(box, "name", r.name)
            s1 == Call(box, "address-family", r.address_family)
            s2 == If(r.description # None, Call(box, "description", r.description))
            s3 == RouteCalls(box, "routes", r.routes, {})
<1>1. RibCalls(r) = s0 \o (s1 \o s2 \o s3)
  BY DEF RibCalls, RibLeaves
<1>2. /\ r.name \in Labels /\ r.address_family \in Families
      /\ r.description \in Optional(Texts) /\ r.routes \in Seq(Optional(Prefs))
  BY DEF Rib
<1>3. IsBox(box)
  <2>1. IsContainer(Entry("rib", <<r.name>>))
    BY <1>2, RibSegment
  <2>2. QED
    BY <2>1, TwoSegments DEF Containers, RibBox
<1>. HIDE DEF box
<1>4. AllRouting(s0) /\ AllRouting(s1)
  BY <1>2, <1>3, CallTyped, NamesAsStored DEF Containers
<1>5. AllRouting(s2)
  BY <1>2, <1>3, DescriptionTyped
<1>6. AllRouting(s3)
  BY <1>2, <1>3, RouteCallsTyped
<1>. HIDE DEF s0, s1, s2, s3
<1>7. AllRouting(s1 \o s2 \o s3)
  BY <1>4, <1>5, <1>6, MoreCalls
<1>8. QED
  BY <1>1, <1>4, <1>7, MoreCalls

\* Every call that serialize makes for a model of the type is one for the schema.
LEMMA RoutingCallsTyped ==
  ASSUME NEW m \in Routing
  PROVE  AllRouting(RoutingCalls(m))
<1>. DEFINE N == Len(m.interfaces)
            P == Len(m.cpps)
            R == Len(m.ribs)
            Name(k) == PathCall(<<Segment("interfaces"), Instance("interface", k)>>,
                                m.interfaces[k], {})
            s1 == If(m.router_id # None,
                     << PathCall(<<Segment("router-id")>>, m.router_id, {"router-id"}) >>)
            s2 == [k \in 1..N |-> Name(k)]
            pp == [k \in 1..P |-> CppCalls(m.cpps[k])]
            rr == [k \in 1..R |-> RibCalls(m.ribs[k])]
<1>1. /\ m.router_id \in Optional(RouterIds) /\ m.interfaces \in Seq(Names)
      /\ m.cpps \in Seq(Cpp) /\ m.ribs \in Seq(Rib)
  BY DEF Routing
<1>2. /\ N \in Nat /\ DOMAIN m.interfaces = 1..N /\ \A k \in 1..N : m.interfaces[k] \in Names
      /\ P \in Nat /\ DOMAIN m.cpps = 1..P /\ \A k \in 1..P : m.cpps[k] \in Cpp
      /\ R \in Nat /\ DOMAIN m.ribs = 1..R /\ \A k \in 1..R : m.ribs[k] \in Rib
  BY <1>1
<1>3. RoutingCalls(m) = s1 \o s2 \o FlattenSeq(pp) \o FlattenSeq(rr)
  BY <1>2 DEF RoutingCalls
<1>4. AllRouting(s1)
  <2>. DEFINE none == <<>>
              s == Segment("router-id")
              c == PathCall(<<s>>, m.router_id, {"router-id"})
  <2>1. ASSUME m.router_id # None PROVE IsRoutingCall(c)
    <3>1. m.router_id \in RouterIds
      BY <1>1, <2>1 DEF Optional
    <3>2. IsBox(none)
      BY NoElement DEF IsBox
    <3>3. <<s>> = Append(none, s)
      OBVIOUS
    <3>. HIDE DEF none
    <3>4. IsRoutingCall(PathCall(Append(none, Segment("router-id")), m.router_id, {"router-id"}))
      BY <3>1, <3>2, LeafCall, NamesAsStored DEF Containers
    <3>5. QED
      BY <3>3, <3>4
  <2>2. s1 = If(m.router_id # None, <<c>>)
    OBVIOUS
  <2>. HIDE DEF c, s1
  <2>3. QED
    BY <2>1, <2>2, OneCall, CallsIf
<1>5. AllRouting(s2)
  <2>1. ASSUME NEW k \in 1..N PROVE IsRoutingCall(Name(k))
    <3>. DEFINE box == <<Segment("interfaces")>>
                s == Instance("interface", k)
                value == m.interfaces[k]
    <3>1. IsContainer(Segment("interfaces"))
      BY PlainContainer DEF Containers
    <3>2. IsBox(box)
      BY <3>1, OneElement DEF IsBox
    <3>3. <<Segment("interfaces"), s>> = Append(box, s)
      BY TwoElements
    <3>4. IsSegment(s) /\ Range(KeyLeaves(s)) = {} /\ s[1] = "interface"
      BY PlainContainer DEF Instance
    <3>5. OfLeaf("interface", Stored(<<"interface", value>>))
      BY <1>2, NamesAsStored
    <3>6. Name(k) = PathCall(Append(box, s), value, {})
      BY <3>3
    <3>. HIDE DEF box, s, value, Name
    <3>7. "interface" \notin Containers
      BY DEF Containers
    <3>8. QED
      BY <3>2, <3>4, <3>5, <3>6, <3>7 DEF IsRoutingCall
  <2>2. /\ DOMAIN s2 = 1..N /\ s2 = [k \in 1..N |-> s2[k]]
        /\ \A k \in 1..N : s2[k] = Name(k)
    OBVIOUS
  <2>. HIDE DEF s2, Name, N
  <2>3. IsSeq(s2) /\ Len(s2) = N
    BY <1>2, <2>2, FunctionIsSeq
  <2>4. QED
    BY <2>1, <2>2, <2>3 DEF AllRouting, Range
<1>6. AllRouting(FlattenSeq(pp))
  <2>1. \A k \in 1..P : AllRouting(pp[k])
    BY <1>2, CppCallsTyped
  <2>2. DOMAIN pp = 1..P /\ pp = [k \in 1..P |-> pp[k]]
    OBVIOUS
  <2>. HIDE DEF pp, P
  <2>3. QED
    BY <1>2, <2>1, <2>2, FlatCalls
<1>7. AllRouting(FlattenSeq(rr))
  <2>1. \A k \in 1..R : AllRouting(rr[k])
    BY <1>2, RibCallsTyped
  <2>2. DOMAIN rr = 1..R /\ rr = [k \in 1..R |-> rr[k]]
    OBVIOUS
  <2>. HIDE DEF rr, R
  <2>3. QED
    BY <1>2, <2>1, <2>2, FlatCalls
<1>. HIDE DEF s1, s2, pp, rr
<1>8. AllRouting(s1 \o s2)
  BY <1>4, <1>5, MoreCalls
<1>9. AllRouting(s1 \o s2 \o FlattenSeq(pp))
  BY <1>6, <1>8, MoreCalls
<1>10. QED
  BY <1>3, <1>7, <1>9, MoreCalls

\* One call of serialize keeps the tree one of the schema.
LEMMA NewPathOfRouting ==
  ASSUME NEW nodes, IsRoutingTree(nodes), NEW c, IsRoutingCall(c)
  PROVE  IsRoutingTree(lyd_new_path(nodes, c))
<1>. DEFINE new == lyd_new_path(nodes, c)
<1>1. IsPath(c.path) /\ \A n \in NodesOf(c) : OfRouting(n)
  BY RoutingCallNodes
<1>2. WellFormed(nodes) /\ IsSeq(nodes) /\ \A n \in Range(nodes) : OfRouting(n)
  BY WellFormedFacts DEF IsRoutingTree
<1>3. WellFormed(new)
  BY <1>1, <1>2, NewPathKeeps
<1>4. Range(new) \subseteq Range(nodes) \union NodesOf(c)
  BY <1>1, <1>2, NewPathAdds
<1>5. QED
  BY <1>1, <1>2, <1>3, <1>4 DEF IsRoutingTree

-----------------------------------------------------------------------------
(* The loop of deserialize that merges the names *)

\* What AddNames returns has every name once.
LEMMA AddNamesSteps ==
  ASSUME NEW names, NEW nodes, IsSeq(nodes)
  PROVE  \E h : /\ h[0] = names /\ AddNames(names, nodes) = h[Len(nodes)]
                /\ \A k \in 1..Len(nodes) : h[k] = AddName(h[k - 1], nodes[k].value)
<1>. DEFINE N == Len(nodes)
            Is(f) == f = [k \in 0..N |-> IF k = 0 THEN names
                                          ELSE AddName(f[k - 1], nodes[k].value)]
            IsUpTo(f, m) == /\ f = [k \in 0..m |-> f[k]] /\ f[0] = names
                            /\ \A k \in 1..m : f[k] = AddName(f[k - 1], nodes[k].value)
            T == {m \in 0..N : \E f : IsUpTo(f, m)}
<1>1. N \in Nat
  BY SeqFacts
<1>2. AddNames(names, nodes) = (CHOOSE f : Is(f))[N]
  BY DEF AddNames
<1>. HIDE DEF N
<1>3. 0 \in T
  <2>. DEFINE g == [k \in 0..0 |-> names]
  <2>1. IsUpTo(g, 0)
    OBVIOUS
  <2>2. \E f : IsUpTo(f, 0)
    BY <2>1
  <2>. HIDE DEF IsUpTo
  <2>3. QED
    BY <1>1, <2>2
<1>4. ASSUME NEW m \in 0..(N - 1), m \in T PROVE m + 1 \in T
  <2>1. PICK f : IsUpTo(f, m)
    BY <1>4
  <2>. DEFINE g == [k \in 0..(m + 1) |->
                      IF k = m + 1 THEN AddName(f[m], nodes[m + 1].value) ELSE f[k]]
  <2>2. m \in Nat /\ m + 1 \in 0..N
    BY <1>1
  <2>3. g = [k \in 0..(m + 1) |-> g[k]] /\ g[0] = names
    BY <2>1, <2>2
  <2>4. ASSUME NEW k \in 1..(m + 1) PROVE g[k] = AddName(g[k - 1], nodes[k].value)
    <3>1. k \in 0..(m + 1) /\ k - 1 \in 0..(m + 1) /\ k - 1 # m + 1
      BY <2>2
    <3>2. g[k - 1] = f[k - 1]
      BY <3>1
    <3>3. CASE k = m + 1
      <4>1. k - 1 = m
        BY <2>2, <3>3
      <4>2. g[k] = AddName(f[m], nodes[k].value)
        BY <3>1, <3>3
      <4>. HIDE DEF g
      <4>3. QED
        BY <3>2, <4>1, <4>2
    <3>4. CASE k # m + 1
      <4>1. k \in 1..m
        BY <2>2, <3>4
      <4>2. g[k] = f[k]
        BY <3>1, <3>4
      <4>3. f[k] = AddName(f[k - 1], nodes[k].value)
        BY <2>1, <4>1
      <4>. HIDE DEF g
      <4>4. QED
        BY <3>2, <4>2, <4>3
    <3>5. QED
      BY <3>3, <3>4
  <2>. HIDE DEF g
  <2>5. IsUpTo(g, m + 1)
    BY <2>3, <2>4
  <2>6. \E h : IsUpTo(h, m + 1)
    BY <2>5
  <2>. HIDE DEF IsUpTo
  <2>7. QED
    BY <2>2, <2>6
<1>5. N \in T
  <2>. HIDE DEF T
  <2>1. 0..N \subseteq T
    BY <1>1, <1>3, <1>4, UpTo
  <2>2. QED
    BY <1>1, <2>1
<1>6. PICK f : IsUpTo(f, N)
  BY <1>5
<1>7. Is(f)
  <2>1. ASSUME NEW k \in 0..N
        PROVE  f[k] = IF k = 0 THEN names ELSE AddName(f[k - 1], nodes[k].value)
    <3>1. k = 0 \/ k \in 1..N
      BY <1>1
    <3>2. QED
      BY <1>6, <3>1
  <2>2. f = [k \in 0..N |-> f[k]]
    BY <1>6
  <2>3. [k \in 0..N |-> f[k]]
          = [k \in 0..N |-> IF k = 0 THEN names ELSE AddName(f[k - 1], nodes[k].value)]
    BY <2>1
  <2>4. QED
    BY <2>2, <2>3
<1>8. PICK h : Is(h) /\ AddNames(names, nodes) = h[N]
  <2>. HIDE DEF Is
  <2>1. Is(CHOOSE g : Is(g))
    BY <1>7
  <2>2. QED
    BY <1>2, <2>1
<1>9. h[0] = names /\ \A k \in 1..N : h[k] = AddName(h[k - 1], nodes[k].value)
  <2>1. h = [k \in 0..N |-> IF k = 0 THEN names ELSE AddName(h[k - 1], nodes[k].value)]
    BY <1>8
  <2>2. 0 \in 0..N /\ \A k \in 1..N : k \in 0..N /\ k # 0
    BY <1>1
  <2>3. \A k \in 0..N : h[k] = IF k = 0 THEN names ELSE AddName(h[k - 1], nodes[k].value)
    BY <2>1
  <2>4. QED
    BY <2>2, <2>3
<1>10. QED
  BY <1>8, <1>9 DEF N

LEMMA AddNamesOnce ==
  ASSUME NEW names, IsSeq(names), IsInjective(names), NEW nodes, IsSeq(nodes)
  PROVE  LET all == AddNames(names, nodes) IN
         /\ IsSeq(all) /\ IsInjective(all)
         /\ Range(all) = Range(names) \union {n.value : n \in Range(nodes)}
<1>. DEFINE N == Len(nodes)
<1>1. N \in Nat /\ Range(nodes) = {nodes[k] : k \in 1..N}
  BY SeqFacts
<1>2. PICK h : /\ h[0] = names /\ AddNames(names, nodes) = h[N]
               /\ \A k \in 1..N : h[k] = AddName(h[k - 1], nodes[k].value)
  BY AddNamesSteps
<1>. HIDE DEF N
<1>. DEFINE Once(k) == /\ IsSeq(h[k]) /\ IsInjective(h[k])
                       /\ Range(h[k]) = Range(names) \union {nodes[j].value : j \in 1..k}
            U == {k \in 0..N : Once(k)}
<1>3. 0 \in U
  <2>1. {nodes[j].value : j \in 1..0} = {}
    OBVIOUS
  <2>2. QED
    BY <1>1, <1>2, <2>1
<1>4. ASSUME NEW k \in 0..(N - 1), k \in U PROVE k + 1 \in U
  <2>. DEFINE name == nodes[k + 1].value
              old == h[k]
              new == h[k + 1]
  <2>1. k \in Nat /\ k + 1 \in 0..N /\ k + 1 \in 1..N /\ k + 1 - 1 = k
    BY <1>1
  <2>2. new = AddName(old, name)
    BY <1>2, <2>1
  <2>3. /\ IsSeq(old) /\ IsInjective(old)
        /\ Range(old) = Range(names) \union {nodes[j].value : j \in 1..k}
    BY <1>4
  <2>4. {nodes[j].value : j \in 1..(k + 1)} = {nodes[j].value : j \in 1..k} \union {name}
    <3>1. 1..(k + 1) = (1..k) \union {k + 1}
      BY <2>1
    <3>2. QED
      BY <3>1
  <2>. HIDE DEF old, new, name
  <2>5. IsSeq(new) /\ IsInjective(new) /\ Range(new) = Range(old) \union {name}
    <3>1. CASE name \in Range(old)
      BY <2>2, <2>3, <3>1 DEF AddName
    <3>2. CASE name \notin Range(old)
      <4>1. new = Append(old, name)
        BY <2>2, <3>2 DEF AddName
      <4>2. /\ IsSeq(new) /\ Len(new) = Len(old) + 1 /\ Range(new) = Range(old) \union {name}
            /\ new[Len(old) + 1] = name /\ \A j \in 1..Len(old) : new[j] = old[j]
        BY <2>3, <4>1, Appended
      <4>3. /\ Len(old) \in Nat /\ DOMAIN new = 1..Len(new) /\ DOMAIN old = 1..Len(old)
            /\ \A j \in 1..Len(old) : old[j] \in Range(old)
        BY <2>3, <4>2, SeqFacts
      <4>4. \A j \in DOMAIN new : j = Len(old) + 1 \/ j \in 1..Len(old)
        BY <4>2, <4>3
      <4>5. ASSUME NEW i \in DOMAIN new, NEW j \in DOMAIN new, new[i] = new[j] PROVE i = j
        <5>1. CASE i = Len(old) + 1 /\ j = Len(old) + 1
          BY <5>1
        <5>2. CASE i \in 1..Len(old) /\ j \in 1..Len(old)
          BY <2>3, <4>2, <4>3, <4>5, <5>2 DEF IsInjective
        <5>3. CASE i = Len(old) + 1 /\ j \in 1..Len(old)
          BY <3>2, <4>2, <4>3, <4>5, <5>3
        <5>4. CASE i \in 1..Len(old) /\ j = Len(old) + 1
          BY <3>2, <4>2, <4>3, <4>5, <5>4
        <5>5. QED
          BY <4>4, <5>1, <5>2, <5>3, <5>4
      <4>6. QED
        BY <4>2, <4>5 DEF IsInjective
    <3>3. QED
      BY <3>1, <3>2
  <2>6. Once(k + 1)
    BY <2>3, <2>4, <2>5 DEF new
  <2>. HIDE DEF Once
  <2>7. QED
    BY <2>1, <2>6
<1>5. Once(N)
  <2>. HIDE DEF U
  <2>1. 0..N \subseteq U
    BY <1>1, <1>3, <1>4, UpTo
  <2>2. N \in U
    BY <1>1, <2>1
  <2>3. QED
    BY <2>2 DEF U
<1>6. {nodes[j].value : j \in 1..N} = {n.value : n \in Range(nodes)}
  BY <1>1
<1>7. QED
  BY <1>2, <1>5, <1>6

-----------------------------------------------------------------------------
(* What deserialize reads has the types of the model. *)

LEMMA RoutingTreeFacts ==
  ASSUME NEW nodes, IsRoutingTree(nodes)
  PROVE  /\ IsSeq(nodes) /\ DistinctPaths(nodes)
         /\ \A n \in Range(nodes) :
              /\ OfRouting(n) /\ IsSeq(n.path)
              /\ \A key \in Range(KeyLeaves(Last(n.path))) :
                   HasNode(nodes, Append(n.path, Segment(key[1])))
BY WellFormedFacts DEF IsRoutingTree, HasNode

\* The value of a leaf that is there is of its type.
LEMMA RoutingLeaf ==
  ASSUME NEW nodes, IsRoutingTree(nodes), NEW path, IsSeq(path), NEW node
  PROVE  /\ \/ LeafValue(nodes, path, node) = None
            \/ OfLeaf(node, LeafValue(nodes, path, node))
         /\ HasNode(nodes, Append(path, Segment(node)))
              => OfLeaf(node, LeafValue(nodes, path, node))
<1>. DEFINE p == Append(path, Segment(node))
            value == LeafValue(nodes, path, node)
<1>1. value = NodeValue(nodes, p)
  BY DEF LeafValue
<1>2. Last(p) = Segment(node) /\ Segment(node)[1] = node
  BY Appended DEF Segment
<1>. HIDE DEF p, value
<1>3. ASSUME NEW n \in Range(nodes), n.path = p, value = n.value
      PROVE  OfLeaf(node, value)
  BY <1>2, <1>3, RoutingTreeFacts, OfRoutingParts
<1>4. value = None \/ OfLeaf(node, value)
  BY <1>1, <1>3, NodeOfValue
<1>5. ASSUME HasNode(nodes, p) PROVE OfLeaf(node, value)
  <2>1. PICK n \in Range(nodes) : n.path = p
    BY <1>5 DEF HasNode
  <2>2. NodeValue(nodes, n.path) = n.value
    BY RoutingTreeFacts, ValueOfNode
  <2>3. QED
    BY <1>1, <1>3, <2>1, <2>2
<1>6. QED
  BY <1>4, <1>5 DEF p, value

LEMMA ReadRoutesTyped ==
  ASSUME NEW nodes, IsRoutingTree(nodes), NEW box
  PROVE  ReadRoutes(nodes, box) \in Seq(Optional(Prefs))
<1>. DEFINE entries == EntriesOf(nodes, box, "route")
            n == Len(entries)
            V(k) == LeafValue(nodes, entries[k].path, "route-preference")
<1>1. /\ IsSeq(entries) /\ Range(entries) \subseteq Range(nodes)
      /\ n \in Nat /\ DOMAIN entries = 1..n /\ \A k \in 1..n : entries[k] \in Range(nodes)
  <2>1. IsSeq(entries) /\ Range(entries) \subseteq Range(nodes)
    BY RoutingTreeFacts, Entries
  <2>. HIDE DEF entries
  <2>2. QED
    BY <2>1, SeqFacts
<1>2. ReadRoutes(nodes, box) = [k \in 1..n |-> V(k)]
  BY <1>1 DEF ReadRoutes, LeafValue
<1>. HIDE DEF n
<1>3. ASSUME NEW k \in 1..n PROVE V(k) \in Optional(Prefs)
  <2>. DEFINE path == entries[k].path
  <2>1. IsSeq(path)
    BY <1>1, RoutingTreeFacts
  <2>. HIDE DEF entries, path
  <2>2. \/ LeafValue(nodes, path, "route-preference") = None
        \/ OfLeaf("route-preference", LeafValue(nodes, path, "route-preference"))
    BY <2>1, RoutingLeaf
  <2>3. QED
    BY <2>2 DEF OfLeaf, Optional, path
<1>. HIDE DEF V
<1>4. [k \in 1..n |-> V(k)] \in [1..n -> Optional(Prefs)]
  BY <1>3
<1>5. QED
  BY <1>1, <1>2, <1>4

LEMMA ReadCppTyped ==
  ASSUME NEW nodes, IsRoutingTree(nodes), NEW n \in Range(nodes),
         Last(n.path)[1] = "control-plane-protocol"
  PROVE  ReadCpp(nodes, n.path) \in Cpp
<1>. DEFINE Leaf(node) == LeafValue(nodes, n.path, node)
<1>1. IsSeq(n.path)
  BY RoutingTreeFacts
<1>2. Leaf("type") \in CppTypes /\ Leaf("name") \in Labels
  <2>1. PICK type \in CppTypes, name \in Labels :
          Last(n.path) = Entry("control-plane-protocol", <<type, name>>)
    BY RoutingTreeFacts DEF OfRouting
  <2>2. {<<"type", type>>, <<"name", name>>} = Range(KeyLeaves(Last(n.path)))
    BY <2>1, CppSegment
  <2>3. /\ HasNode(nodes, Append(n.path, Segment(<<"type", type>>[1])))
        /\ HasNode(nodes, Append(n.path, Segment(<<"name", name>>[1])))
    BY <2>2, RoutingTreeFacts
  <2>4. OfLeaf("type", Leaf("type")) /\ OfLeaf("name", Leaf("name"))
    BY <1>1, <2>3, RoutingLeaf
  <2>5. QED
    BY <2>4 DEF OfLeaf
<1>3. Leaf("description") \in Optional(Texts)
  <2>1. Leaf("description") = None \/ OfLeaf("description", Leaf("description"))
    BY <1>1, RoutingLeaf
  <2>2. QED
    BY <2>1 DEF OfLeaf, Optional
<1>4. ReadRoutes(nodes, Append(n.path, Segment("static-routes"))) \in Seq(Optional(Prefs))
  BY ReadRoutesTyped
<1>5. ReadIdentity(Leaf("type")) \in CppTypes /\ ReadString(Leaf("name")) \in Labels
  BY <1>2, RoutingDataAssumption DEF ReadIdentity, ReadString
<1>6. ReadCpp(nodes, n.path)
        = [type |-> ReadIdentity(Leaf("type")), name |-> ReadString(Leaf("name")),
           description |-> Leaf("description"),
           static_routes |-> ReadRoutes(nodes, Append(n.path, Segment("static-routes")))]
  BY DEF ReadCpp, LeafValue
<1>. HIDE DEF Leaf
<1>7. QED
  BY <1>3, <1>4, <1>5, <1>6 DEF Cpp

LEMMA ReadRibTyped ==
  ASSUME NEW nodes, IsRoutingTree(nodes), NEW n \in Range(nodes), Last(n.path)[1] = "rib"
  PROVE  ReadRib(nodes, n.path) \in Rib
<1>. DEFINE Leaf(node) == LeafValue(nodes, n.path, node)
<1>1. IsSeq(n.path)
  BY RoutingTreeFacts
<1>2. Leaf("name") \in Labels
  <2>1. PICK name \in Labels : Last(n.path) = Entry("rib", <<name>>)
    BY RoutingTreeFacts DEF OfRouting
  <2>2. {<<"name", name>>} = Range(KeyLeaves(Last(n.path)))
    BY <2>1, RibSegment
  <2>3. HasNode(nodes, Append(n.path, Segment(<<"name", name>>[1])))
    BY <2>2, RoutingTreeFacts
  <2>4. OfLeaf("name", Leaf("name"))
    BY <1>1, <2>3, RoutingLeaf
  <2>5. QED
    BY <2>4 DEF OfLeaf
<1>3. Leaf("description") \in Optional(Texts) /\ Leaf("address-family") \in Optional(Families)
  <2>1. Leaf("description") = None \/ OfLeaf("description", Leaf("description"))
    BY <1>1, RoutingLeaf
  <2>2. Leaf("address-family") = None \/ OfLeaf("address-family", Leaf("address-family"))
    BY <1>1, RoutingLeaf
  <2>3. QED
    BY <2>1, <2>2 DEF OfLeaf, Optional
<1>4. ReadRoutes(nodes, Append(n.path, Segment("routes"))) \in Seq(Optional(Prefs))
  BY ReadRoutesTyped
<1>5. ReadString(Leaf("name")) \in Labels
  BY <1>2, RoutingDataAssumption DEF ReadString
<1>6. ReadIdentity(Leaf("address-family")) \in Families
  BY <1>3, RoutingDataAssumption DEF ReadIdentity, Optional
<1>7. ReadRib(nodes, n.path)
        = [name |-> ReadString(Leaf("name")),
           address_family |-> ReadIdentity(Leaf("address-family")),
           description |-> Leaf("description"),
           routes |-> ReadRoutes(nodes, Append(n.path, Segment("routes")))]
  BY DEF ReadRib, LeafValue
<1>. HIDE DEF Leaf
<1>8. QED
  BY <1>3, <1>4, <1>5, <1>6, <1>7 DEF Rib

\* The names deserialize starts from, each once.
LEMMA InfoNames ==
  ASSUME NEW info \in Seq(Interface), DistinctNames(info)
  PROVE  LET names == [k \in DOMAIN info |-> info[k].name] IN
         /\ IsSeq(names) /\ IsInjective(names)
         /\ Range(names) = NamesOf(info) /\ Range(names) \subseteq Names
<1>. DEFINE names == [k \in DOMAIN info |-> info[k].name]
            n == Len(info)
<1>1. n \in Nat /\ DOMAIN info = 1..n /\ \A k \in 1..n : info[k].name \in Names
  BY InterfaceFields
<1>2. DOMAIN names = 1..n /\ names = [k \in 1..n |-> names[k]]
      /\ \A k \in 1..n : names[k] = info[k].name
  BY <1>1
<1>3. IsInjective(names)
  BY DEF DistinctNames
<1>. HIDE DEF names, n
<1>4. IsSeq(names)
  BY <1>1, <1>2, FunctionIsSeq
<1>5. Range(names) = {names[k] : k \in 1..n} /\ Range(info) = {info[k] : k \in 1..n}
  BY <1>1, <1>2 DEF Range
<1>6. Range(names) = NamesOf(info) /\ Range(names) \subseteq Names
  BY <1>1, <1>2, <1>5 DEF NamesOf
<1>7. QED
  BY <1>3, <1>4, <1>6 DEF names

\* The interfaces of the first tree, which may be missing.
InfoOf(t) == IF "interfaces" \in DOMAIN t THEN ReadInterfaces(t.interfaces) ELSE <<>>

LEMMA InfoTyped ==
  ASSUME NEW t, IsTree(t)
  PROVE  InfoOf(t) \in Seq(Interface) /\ DistinctNames(InfoOf(t))
<1>1. CASE "interfaces" \notin DOMAIN t
  <2>. DEFINE none == <<>>
              names == [k \in DOMAIN none |-> none[k].name]
  <2>1. none \in Seq(Interface) /\ DOMAIN none = {}
    OBVIOUS
  <2>. HIDE DEF none
  <2>2. DOMAIN names = {}
    BY <2>1
  <2>. HIDE DEF names
  <2>3. IsInjective(names)
    BY <2>2 DEF IsInjective
  <2>4. DistinctNames(none)
    BY <2>3 DEF DistinctNames, names
  <2>5. InfoOf(t) = none
    BY <1>1 DEF InfoOf, none
  <2>6. QED
    BY <2>1, <2>4, <2>5
<1>2. CASE "interfaces" \in DOMAIN t
  <2>1. IsInterfacesTree(t.interfaces) /\ InfoOf(t) = ReadInterfaces(t.interfaces)
    BY <1>2 DEF IsTree, InfoOf
  <2>2. Normal(ReadInterfaces(t.interfaces))
    BY <2>1, ReadIsNormal
  <2>3. ReadInterfaces(t.interfaces) \in Seq(Interface)
    BY <2>1, ReadEntries
  <2>4. QED
    BY <2>1, <2>2, <2>3 DEF Normal
<1>3. QED
  BY <1>1, <1>2

\* Of every pair of trees that libyang can hold, deserialize makes a model that
\* has each name of its interface objects and of the leaf-list once, and no
\* other name (IetfRouting.cpp:102-255).
THEOREM ReadRoutingNames ==
  ASSUME NEW t, IsTree(t), "routing" \in DOMAIN t
  PROVE  LET m == ReadRouting(t) IN
         /\ m \in Routing
         /\ IsInjective(m.interfaces)
         /\ Range(m.interfaces) = NamesOf(m.interfaces_info) \union ListedNames(t.routing)
<1>. DEFINE m == ReadRouting(t)
            nodes == t.routing
            Children(box, node) == EntriesOf(nodes, <<Segment(box)>>, node)
            info == InfoOf(t)
            base == [k \in DOMAIN info |-> info[k].name]
            names == Children("interfaces", "interface")
            cpps == Children("control-plane-protocols", "control-plane-protocol")
            ribs == Children("ribs", "rib")
            none == <<>>
            id == LeafValue(nodes, none, "router-id")
            all == AddNames(base, names)
            cppSeq == [k \in DOMAIN cpps |-> ReadCpp(nodes, cpps[k].path)]
            ribSeq == [k \in DOMAIN ribs |-> ReadRib(nodes, ribs[k].path)]
<1>1. IsRoutingTree(nodes)
  BY DEF IsTree
<1>2. m = [router_id |-> id, interfaces_info |-> info, interfaces |-> all,
           cpps |-> cppSeq, ribs |-> ribSeq]
  <2>1. Append(<<>>, Segment("router-id")) = <<Segment("router-id")>>
    OBVIOUS
  <2>2. QED
    BY <2>1 DEF ReadRouting, InfoOf, LeafValue
<1>3. ASSUME NEW box, NEW node
      PROVE  LET entries == Children(box, node) IN
             /\ IsSeq(entries) /\ Len(entries) \in Nat /\ DOMAIN entries = 1..Len(entries)
             /\ \A k \in DOMAIN entries :
                  entries[k] \in Range(nodes) /\ Last(entries[k].path)[1] = node
  <2>. DEFINE entries == Children(box, node)
  <2>1. /\ IsSeq(entries)
        /\ \A e \in Range(entries) : e \in Range(nodes) /\ Last(e.path)[1] = node
    BY <1>1, RoutingTreeFacts, Entries
  <2>. HIDE DEF entries
  <2>2. IsSeq(entries) /\ Len(entries) \in Nat /\ DOMAIN entries = 1..Len(entries)
        /\ \A k \in DOMAIN entries : entries[k] \in Range(entries)
    BY <2>1, SeqFacts
  <2>3. QED
    BY <2>1, <2>2 DEF entries
<1>4. id \in Optional(RouterIds)
  <2>1. IsSeq(none)
    BY NoElement
  <2>. HIDE DEF none, nodes
  <2>2. id = None \/ OfLeaf("router-id", id)
    BY <1>1, <2>1, RoutingLeaf
  <2>3. QED
    BY <2>2 DEF OfLeaf, Optional
<1>5. info \in Seq(Interface) /\ DistinctNames(info)
  BY InfoTyped
<1>. HIDE DEF info
<1>6. IsSeq(base) /\ IsInjective(base) /\ Range(base) = NamesOf(info) /\ Range(base) \subseteq Names
  BY <1>5, InfoNames
<1>. HIDE DEF base
<1>7. /\ IsSeq(all) /\ IsInjective(all)
      /\ Range(all) = Range(base) \union {n.value : n \in Range(names)}
  <2>1. IsSeq(names)
    BY <1>3
  <2>. HIDE DEF names
  <2>2. QED
    BY <1>6, <2>1, AddNamesOnce
<1>8. all \in Seq(Names)
  <2>1. \A n \in Range(names) : n \in Range(nodes) /\ Last(n.path)[1] = "interface"
    BY <1>3 DEF Range
  <2>2. \A n \in Range(names) : n.value \in Names
    BY <1>1, <2>1, RoutingTreeFacts DEF OfRouting
  <2>. HIDE DEF all, names
  <2>3. Range(all) \subseteq Names
    BY <1>6, <1>7, <2>2
  <2>4. QED
    BY <1>7, <2>3, InSeq
<1>9. cppSeq \in Seq(Cpp)
  <2>1. /\ Len(cpps) \in Nat /\ DOMAIN cpps = 1..Len(cpps)
        /\ \A k \in DOMAIN cpps :
             cpps[k] \in Range(nodes) /\ Last(cpps[k].path)[1] = "control-plane-protocol"
    BY <1>3
  <2>. HIDE DEF cpps
  <2>2. \A k \in DOMAIN cpps : ReadCpp(nodes, cpps[k].path) \in Cpp
    <3>. HIDE DEF nodes
    <3>1. QED
      BY <1>1, <2>1, ReadCppTyped
  <2>3. cppSeq \in [1..Len(cpps) -> Cpp]
    BY <2>1, <2>2
  <2>. HIDE DEF cppSeq
  <2>4. QED
    BY <2>1, <2>3
<1>10. ribSeq \in Seq(Rib)
  <2>1. /\ Len(ribs) \in Nat /\ DOMAIN ribs = 1..Len(ribs)
        /\ \A k \in DOMAIN ribs : ribs[k] \in Range(nodes) /\ Last(ribs[k].path)[1] = "rib"
    BY <1>3
  <2>. HIDE DEF ribs
  <2>2. \A k \in DOMAIN ribs : ReadRib(nodes, ribs[k].path) \in Rib
    <3>. HIDE DEF nodes
    <3>1. QED
      BY <1>1, <2>1, ReadRibTyped
  <2>3. ribSeq \in [1..Len(ribs) -> Rib]
    BY <2>1, <2>2
  <2>. HIDE DEF ribSeq
  <2>4. QED
    BY <2>1, <2>3
<1>. HIDE DEF m, all, cppSeq, ribSeq, id
<1>11. m \in Routing
  BY <1>2, <1>4, <1>5, <1>8, <1>9, <1>10 DEF Routing
<1>12. m.interfaces = all /\ m.interfaces_info = info
  BY <1>2
<1>13. {n.value : n \in Range(names)} = ListedNames(nodes)
  <2>1. Range(names) = {n \in Range(nodes) : Front(n.path) = <<Segment("interfaces")>>
                                            /\ Last(n.path)[1] = "interface"}
    BY <1>1, RoutingTreeFacts, Entries
  <2>. HIDE DEF names
  <2>2. QED
    BY <2>1 DEF ListedNames
<1>14. QED
  BY <1>6, <1>7, <1>11, <1>12, <1>13 DEF m

-----------------------------------------------------------------------------
(* Which calls libyang takes *)

\* The paths of a tree, and those that a call sees to.
TreePaths(nodes) == {n.path : n \in Range(nodes)}
PathsOf(c) == {n.path : n \in NodesOf(c)}

\* libyang takes all calls of s, made one after the other in an empty tree: it
\* refuses none by itself, and none is for a node that an earlier one has made.
Taken(s) == \A c \in Range(s) : ~Rejects(c, resolves)
Fresh(s) == \A a, b \in DOMAIN s : a < b => s[b].path \notin PathsOf(s[a])
Passes(s) == Taken(s) /\ Fresh(s)

LEMMA PathsInTree ==
  ASSUME NEW nodes
  PROVE  \A path : HasNode(nodes, path) <=> path \in TreePaths(nodes)
BY DEF HasNode, TreePaths

LEMMA PathsOfCall ==
  ASSUME NEW c, IsPath(c.path)
  PROVE  /\ \A i \in DOMAIN c.path :
              /\ Above(c, i) \in PathsOf(c)
              /\ \A key \in Range(KeyLeaves(c.path[i])) :
                   Append(Above(c, i), Segment(key[1])) \in PathsOf(c)
         /\ \A p \in PathsOf(c) : \E i \in DOMAIN c.path :
              \/ p = Above(c, i)
              \/ \E key \in Range(KeyLeaves(c.path[i])) :
                   p = Append(Above(c, i), Segment(key[1]))
         /\ c.path \in PathsOf(c)
<1>1. ASSUME NEW i \in DOMAIN c.path
      PROVE  /\ Above(c, i) \in PathsOf(c)
             /\ \A key \in Range(KeyLeaves(c.path[i])) :
                  Append(Above(c, i), Segment(key[1])) \in PathsOf(c)
             /\ \A n \in Range(NodesAt(c, i)) :
                  \/ n.path = Above(c, i)
                  \/ \E key \in Range(KeyLeaves(c.path[i])) :
                       n.path = Append(Above(c, i), Segment(key[1]))
  <2>1. Range(NodesAt(c, i))
          = {[path |-> Above(c, i), value |-> Stored(<<c.path[i][1], ValueAt(c, i)>>)]}
            \union {KeyLeafNode(Above(c, i), key) : key \in Range(KeyLeaves(c.path[i]))}
    BY PathPrefix
  <2>2. \A n \in Range(NodesAt(c, i)) : n.path \in PathsOf(c)
    BY DEF PathsOf, NodesOf
  <2>3. \A key : KeyLeafNode(Above(c, i), key).path = Append(Above(c, i), Segment(key[1]))
    BY DEF KeyLeafNode
  <2>. DEFINE above == Above(c, i)
              value == Stored(<<c.path[i][1], ValueAt(c, i)>>)
              n == [path |-> above, value |-> value]
  <2>4. n \in Range(NodesAt(c, i)) /\ n.path = above
    BY <2>1
  <2>. HIDE DEF n
  <2>5. Above(c, i) \in PathsOf(c)
    BY <2>2, <2>4
  <2>6. \A x \in Range(NodesAt(c, i)) :
          \/ x.path = above
          \/ \E key \in Range(KeyLeaves(c.path[i])) : x = KeyLeafNode(above, key)
    BY <2>1
  <2>. HIDE DEF above
  <2>7. \A key \in Range(KeyLeaves(c.path[i])) :
          Append(Above(c, i), Segment(key[1])) \in PathsOf(c)
    BY <2>1, <2>2, <2>3
  <2>8. QED
    BY <2>3, <2>5, <2>6, <2>7 DEF above
<1>2. c.path \in PathsOf(c)
  <2>1. IsSeq(c.path) /\ Len(c.path) \in DOMAIN c.path /\ Len(c.path) \in 1..Len(c.path)
    BY SeqFacts DEF IsPath
  <2>2. Above(c, Len(c.path)) = c.path
    BY <2>1, Prefix DEF Above
  <2>3. QED
    BY <1>1, <2>1, <2>2
<1>3. ASSUME NEW p \in PathsOf(c)
      PROVE  \E i \in DOMAIN c.path :
               \/ p = Above(c, i)
               \/ \E key \in Range(KeyLeaves(c.path[i])) :
                    p = Append(Above(c, i), Segment(key[1]))
  <2>1. PICK i \in DOMAIN c.path : \E n \in Range(NodesAt(c, i)) : p = n.path
    BY DEF PathsOf, NodesOf
  <2>2. QED
    BY <1>1, <2>1
<1>4. QED
  BY <1>1, <1>2, <1>3

\* A call that libyang takes adds just these paths to the tree.
LEMMA PathsAdded ==
  ASSUME NEW nodes, WellFormed(nodes), NEW c, IsPath(c.path)
  PROVE  TreePaths(lyd_new_path(nodes, c)) = TreePaths(nodes) \union PathsOf(c)
<1>. DEFINE new == lyd_new_path(nodes, c)
<1>1. IsSeq(nodes)
  BY WellFormedFacts
<1>2. /\ Range(nodes) \subseteq Range(new)
      /\ Range(new) \subseteq Range(nodes) \union NodesOf(c)
  BY <1>1, NewPathAdds
<1>3. WellFormed(new) /\ \A i \in DOMAIN c.path : HasNode(new, Above(c, i))
  BY NewPathKeeps
<1>. HIDE DEF new
<1>4. ASSUME NEW p \in PathsOf(c) PROVE p \in TreePaths(new)
  <2>1. PICK i \in DOMAIN c.path :
          \/ p = Above(c, i)
          \/ \E key \in Range(KeyLeaves(c.path[i])) :
               p = Append(Above(c, i), Segment(key[1]))
    BY PathsOfCall
  <2>2. PICK n \in Range(new) : n.path = Above(c, i)
    BY <1>3 DEF HasNode
  <2>3. Last(n.path) = c.path[i]
    BY <2>2, PathPrefix
  <2>4. \A key \in Range(KeyLeaves(Last(n.path))) :
          \E leaf \in Range(new) : leaf.path = Append(n.path, Segment(key[1]))
    BY <1>3, WellFormedFacts
  <2>5. QED
    BY <2>1, <2>2, <2>3, <2>4 DEF TreePaths
<1>5. QED
  BY <1>2, <1>4 DEF TreePaths, PathsOf, new

-----------------------------------------------------------------------------
(* The order in which the calls make the nodes *)

LEMMA NewPathAppends ==
  ASSUME NEW nodes, IsSeq(nodes), NEW call, IsPath(call.path)
  PROVE  \E t : IsSeq(t) /\ lyd_new_path(nodes, call) = nodes \o t
<1>. DEFINE ss == [i \in DOMAIN call.path |-> If(Creates(nodes, call, i), NodesAt(call, i))]
            n == Len(call.path)
<1>1. n \in Nat /\ DOMAIN call.path = 1..n
  BY SeqFacts DEF IsPath
<1>2. lyd_new_path(nodes, call) = nodes \o FlattenSeq(ss)
  BY DEF lyd_new_path, Above, ValueAt, NodesAt, Creates
<1>3. \A i \in 1..n : IsSeq(ss[i])
  BY <1>1, PathPrefix, NoElement DEF If
<1>4. IsSeq(ss) /\ DOMAIN ss = 1..n
  <2>1. DOMAIN ss = 1..n /\ ss = [k \in 1..n |-> ss[k]]
    BY <1>1
  <2>. HIDE DEF ss
  <2>2. QED
    BY <1>1, <2>1, FunctionIsSeq
<1>. HIDE DEF ss
<1>5. IsSeq(FlattenSeq(ss))
  BY <1>3, <1>4, Flattened
<1>6. QED
  BY <1>2, <1>5

\* A node stands behind another one only if no earlier call has seen to it.
InOrder(nodes, cs, d) ==
  \A a, b \in DOMAIN nodes : a < b =>
    \A j \in 1..d : nodes[b].path \in PathsOf(cs[j]) =>
      \E i \in 1..j : nodes[a].path \in PathsOf(cs[i])

\* The first d calls have made these nodes and no others.
Built(nodes, cs, d) ==
  /\ IsRoutingTree(nodes)
  /\ TreePaths(nodes) = UNION {PathsOf(cs[a]) : a \in 1..d}
  /\ \A n \in Range(nodes) : \E a \in 1..d : n \in NodesOf(cs[a])
  /\ InOrder(nodes, cs, d)

LEMMA EmptyIsTree == IsRoutingTree(<<>>) /\ TreePaths(<<>>) = {}
<1>1. IsSeq(<<>>) /\ Range(<<>>) = {} /\ DOMAIN <<>> = {}
  BY NoElement
<1>2. QED
  BY <1>1 DEF IsRoutingTree, TreePaths, WellFormed, DistinctPaths, IsSeq

LEMMA BuiltNone ==
  ASSUME NEW cs
  PROVE  Built(<<>>, cs, 0)
<1>1. IsRoutingTree(<<>>) /\ TreePaths(<<>>) = {} /\ Range(<<>>) = {}
  BY EmptyIsTree, NoElement
<1>2. DOMAIN <<>> = {} /\ UNION {PathsOf(cs[a]) : a \in 1..0} = {}
  OBVIOUS
<1>3. QED
  BY <1>1, <1>2 DEF Built, InOrder

LEMMA BuiltStep ==
  ASSUME NEW cs, AllRouting(cs), NEW j \in Nat, j + 1 \in 1..Len(cs),
         NEW nodes, Built(nodes, cs, j)
  PROVE  Built(lyd_new_path(nodes, cs[j + 1]), cs, j + 1)
<1>. DEFINE c == cs[j + 1]
            new == lyd_new_path(nodes, c)
            p == Len(nodes)
<1>1. IsRoutingCall(c)
  BY SeqFacts DEF AllRouting
<1>2. IsPath(c.path)
  BY <1>1, RoutingCallNodes
<1>3. /\ IsRoutingTree(nodes) /\ WellFormed(nodes) /\ IsSeq(nodes)
      /\ TreePaths(nodes) = UNION {PathsOf(cs[a]) : a \in 1..j}
      /\ \A n \in Range(nodes) : \E a \in 1..j : n \in NodesOf(cs[a])
      /\ InOrder(nodes, cs, j)
  BY WellFormedFacts DEF Built, IsRoutingTree
<1>4. IsRoutingTree(new)
  BY <1>1, <1>3, NewPathOfRouting
<1>5. 1..(j + 1) = (1..j) \union {j + 1} /\ \A i \in 1..j : i <= j + 1
  OBVIOUS
<1>6. TreePaths(new) = UNION {PathsOf(cs[a]) : a \in 1..(j + 1)}
  <2>1. TreePaths(new) = TreePaths(nodes) \union PathsOf(c)
    BY <1>2, <1>3, PathsAdded
  <2>2. QED
    BY <1>3, <1>5, <2>1
<1>7. \A n \in Range(new) : \E a \in 1..(j + 1) : n \in NodesOf(cs[a])
  <2>1. Range(new) \subseteq Range(nodes) \union NodesOf(c)
    BY <1>2, <1>3, NewPathAdds
  <2>2. QED
    BY <1>3, <1>5, <2>1
<1>8. PICK t : IsSeq(t) /\ new = nodes \o t
  BY <1>2, <1>3, NewPathAppends
<1>9. IsSeq(new) /\ p \in Nat /\ DOMAIN nodes = 1..p /\ DOMAIN new = 1..Len(new)
      /\ Len(new) \in Nat
      /\ \A k \in 1..p : new[k] = nodes[k]
  BY <1>3, <1>8, SeqFacts, Concatenation
<1>10. DistinctPaths(new)
  BY <1>4, RoutingTreeFacts
<1>11. p <= Len(new)
  BY <1>3, <1>8, <1>9, SeqFacts, Concatenation
<1>. HIDE DEF new, c, p
<1>12. ASSUME NEW a \in DOMAIN new, NEW b \in DOMAIN new, a < b,
              NEW i \in 1..(j + 1), new[b].path \in PathsOf(cs[i])
       PROVE  \E k \in 1..i : new[a].path \in PathsOf(cs[k])
  <2>0. a \in Nat /\ b \in Nat /\ a \in 1..Len(new) /\ b \in 1..Len(new)
    BY <1>9
  <2>1. CASE b <= p
    <3>1. a \in DOMAIN nodes /\ b \in DOMAIN nodes /\ new[a] = nodes[a] /\ new[b] = nodes[b]
      BY <1>9, <1>12, <2>0, <2>1
    <3>2. CASE i \in 1..j
      BY <1>3, <1>12, <3>1, <3>2 DEF InOrder
    <3>3. CASE i = j + 1
      <4>1. nodes[a].path \in TreePaths(nodes)
        BY <1>3, <1>9, <3>1, SeqFacts DEF TreePaths, p
      <4>2. PICK k \in 1..j : nodes[a].path \in PathsOf(cs[k])
        BY <1>3, <4>1
      <4>3. k \in 1..i
        BY <3>3, <4>2
      <4>4. QED
        BY <3>1, <4>2, <4>3
    <3>4. QED
      BY <1>5, <3>2, <3>3
  <2>2. CASE b > p
    <3>1. new[b].path \notin TreePaths(nodes)
      <4>1. ASSUME NEW n \in Range(nodes), n.path = new[b].path PROVE FALSE
        <5>1. PICK k \in 1..p : n = nodes[k]
          BY <1>3, SeqFacts DEF p
        <5>2. k \in DOMAIN new /\ new[k].path = new[b].path /\ k # b
          BY <1>9, <1>11, <2>0, <2>2, <4>1, <5>1
        <5>3. QED
          BY <1>10, <5>2 DEF DistinctPaths
      <4>2. QED
        BY <4>1 DEF TreePaths
    <3>2. i = j + 1
      BY <1>3, <1>5, <1>12, <3>1
    <3>3. new[a].path \in TreePaths(new)
      BY <1>9, <2>0, SeqFacts DEF TreePaths
    <3>4. QED
      BY <1>6, <3>2, <3>3
  <2>3. QED
    BY <1>9, <2>0, <2>1, <2>2
<1>13. InOrder(new, cs, j + 1)
  BY <1>12 DEF InOrder
<1>14. Built(new, cs, j + 1)
  BY <1>4, <1>6, <1>7, <1>13 DEF Built
<1>15. QED
  BY <1>14 DEF new, c

\* The entries that EntriesOf gives, and in which order.
Places(nodes, parent, list) ==
  {k \in DOMAIN nodes : Front(nodes[k].path) = parent /\ Last(nodes[k].path)[1] = list}

LEMMA EntriesSelected ==
  ASSUME NEW nodes, IsSeq(nodes), NEW parent, NEW list
  PROVE  \E n, e : /\ n \in Nat
                   /\ Enumerates(e, n, Places(nodes, parent, list))
                   /\ EntriesOf(nodes, parent, list) = Picked(nodes, e, n)
<1>. DEFINE Is(m) == Front(m.path) = parent /\ Last(m.path)[1] = list
            C == {k \in DOMAIN nodes : Is(nodes[k])}
            ss == [k \in DOMAIN nodes |-> If(Is(nodes[k]), <<nodes[k]>>)]
            N == Len(nodes)
<1>1. N \in Nat /\ DOMAIN nodes = 1..N
  BY SeqFacts
<1>2. EntriesOf(nodes, parent, list) = FlattenSeq(ss)
  BY DEF EntriesOf
<1>3. Selects(ss, N, C, nodes)
  BY <1>1 DEF Selects, If
<1>4. C \in SUBSET (1..N) /\ C = Places(nodes, parent, list)
  BY <1>1 DEF Places
<1>. HIDE DEF C, ss
<1>5. \E n, e : n \in Nat /\ Enumerates(e, n, C) /\ FlattenSeq(ss) = Picked(nodes, e, n)
  BY <1>1, <1>3, <1>4, Selected
<1>6. QED
  BY <1>2, <1>4, <1>5

\* The calls that make the node at path, and the paths with numbers of C one of
\* whose calls comes before all of those for the paths with larger numbers.
Makers(cs, path) == {c \in Range(cs) : path \in PathsOf(c)}

Ordered(cs, C, P) ==
  \A k, l \in C : k < l =>
    \E c : P[k] \in PathsOf(c) /\ Leads(cs, c, Makers(cs, P[l]))

\* The entries have the paths with the numbers of C, and each has its own.
ListedBy(entries, C, P) ==
  /\ \A k, l \in C : P[k] = P[l] => k = l
  /\ \A m \in Range(entries) : \E k \in C : m.path = P[k]
  /\ \A k \in C : \E m \in Range(entries) : m.path = P[k]

\* The entries are n nodes with the paths that e has the numbers of, in its order.
Follow(entries, nodes, P, n, e) ==
  /\ DOMAIN entries = 1..n
  /\ \A i \in 1..n : entries[i] \in Range(nodes) /\ entries[i].path = P[e[i]]

\* The entries of a list have the paths P[c], in the order of the numbers c, if
\* the calls come first for smaller numbers.
LEMMA EntriesInOrder ==
  ASSUME NEW nodes, IsRoutingTree(nodes), NEW cs, IsSeq(cs), InOrder(nodes, cs, Len(cs)),
         NEW parent, NEW list, NEW entries, entries = EntriesOf(nodes, parent, list),
         NEW C \in SUBSET Nat, NEW P, ListedBy(entries, C, P), Ordered(cs, C, P),
         NEW n \in Nat, NEW e, Enumerates(e, n, C)
  PROVE  Follow(entries, nodes, P, n, e)
<1>0. /\ \A k, l \in C : P[k] = P[l] => k = l
      /\ \A m \in Range(EntriesOf(nodes, parent, list)) : \E k \in C : m.path = P[k]
      /\ \A k \in C : \E m \in Range(EntriesOf(nodes, parent, list)) : m.path = P[k]
  BY DEF ListedBy
<1>. DEFINE E == EntriesOf(nodes, parent, list)
            D == Places(nodes, parent, list)
<1>1. IsSeq(nodes) /\ DistinctPaths(nodes)
  BY RoutingTreeFacts
<1>2. PICK l, f : l \in Nat /\ Enumerates(f, l, D) /\ E = Picked(nodes, f, l)
  BY <1>1, EntriesSelected
<1>3. /\ DOMAIN E = 1..l /\ \A i \in 1..l : E[i] = nodes[f[i]] /\ f[i] \in DOMAIN nodes
      /\ \A i, j \in 1..l : i < j => f[i] < f[j]
  BY <1>2 DEF Picked, Enumerates, Places
<1>4. DOMAIN nodes = 1..Len(nodes) /\ Len(nodes) \in Nat
      /\ \A k \in DOMAIN nodes : nodes[k] \in Range(nodes)
  BY <1>1, SeqFacts
<1>5. IsSeq(E) /\ Range(E) = {E[i] : i \in 1..l}
  <2>1. IsSeq(E)
    BY <1>1, Entries
  <2>. HIDE DEF E
  <2>2. QED
    BY <1>3, <2>1 DEF Range
<1>. DEFINE g == [i \in 1..l |-> CHOOSE k \in C : E[i].path = P[k]]
<1>6. \A i \in 1..l : g[i] \in C /\ E[i].path = P[g[i]]
  BY <1>0, <1>5
<1>7. g = [i \in 1..l |-> g[i]]
  OBVIOUS
<1>. HIDE DEF E, g, D
<1>8. ASSUME NEW k \in C PROVE \E i \in 1..l : g[i] = k
  <2>1. PICK i \in 1..l : E[i].path = P[k]
    BY <1>0, <1>5 DEF E
  <2>2. P[g[i]] = P[k] /\ g[i] \in C
    BY <1>6, <2>1
  <2>3. g[i] = k
    BY <1>0, <2>2
  <2>4. QED
    BY <2>3
<1>9. ASSUME NEW i \in 1..l, NEW j \in 1..l, i < j PROVE g[i] < g[j]
  <2>1. f[i] \in DOMAIN nodes /\ f[j] \in DOMAIN nodes /\ f[i] < f[j] /\ f[i] \in Nat /\ f[j] \in Nat
    BY <1>3, <1>4, <1>9
  <2>2. nodes[f[i]].path = P[g[i]] /\ nodes[f[j]].path = P[g[j]]
    BY <1>3, <1>6
  <2>3. g[i] # g[j]
    <3>1. nodes[f[i]].path # nodes[f[j]].path
      BY <1>1, <2>1 DEF DistinctPaths
    <3>2. QED
      BY <2>2, <3>1
  <2>4. ASSUME g[j] < g[i] PROVE FALSE
    <3>1. g[i] \in C /\ g[j] \in C
      BY <1>6
    <3>2. PICK c : P[g[j]] \in PathsOf(c) /\ Leads(cs, c, Makers(cs, P[g[i]]))
      BY <2>4, <3>1 DEF Ordered
    <3>3. PICK x \in DOMAIN cs : cs[x] = c /\ \A y \in 1..x : cs[y] \notin Makers(cs, P[g[i]])
      BY <3>2 DEF Leads
    <3>4. DOMAIN cs = 1..Len(cs) /\ Len(cs) \in Nat /\ \A y \in 1..Len(cs) : cs[y] \in Range(cs)
      BY SeqFacts
    <3>5. PICK y \in 1..x : P[g[i]] \in PathsOf(cs[y])
      BY <2>1, <2>2, <3>2, <3>3, <3>4 DEF InOrder
    <3>6. y \in 1..Len(cs)
      BY <3>4
    <3>7. QED
      BY <3>3, <3>4, <3>5, <3>6 DEF Makers
  <2>5. g[i] \in Nat /\ g[j] \in Nat
    BY <1>6
  <2>6. QED
    BY <2>3, <2>4, <2>5
<1>10. Enumerates(g, l, C)
  BY <1>6, <1>7, <1>8, <1>9 DEF Enumerates
<1>11. n = l /\ g = e
  BY <1>2, <1>10, OneEnumeration
<1>12. \A i \in 1..n : E[i] \in Range(nodes) /\ E[i].path = P[e[i]]
  BY <1>3, <1>4, <1>6, <1>11
<1>13. QED
  BY <1>3, <1>11, <1>12 DEF E, Follow

-----------------------------------------------------------------------------
(* The inductive invariant *)

PhaseInv ==
  /\ pc = "idle" => calls = <<>>
  /\ pc = "serializing" => /\ source \in Routing /\ back = None /\ ~threw
                            /\ tree = NoTree /\ ~rejected
  /\ back # None => tree # NoTree /\ Readable(tree) /\ back = ReadRouting(tree)

Accepted(all, b) ==
  ~Rejects(all[b], resolves) /\ \A a \in 1..(b - 1) : all[b].path \notin PathsOf(all[a])

\* The first j calls of a model have been taken, and the tree is what they made.
Done(all, j) ==
  /\ IsSeq(calls) /\ Len(calls) = Len(all) - j
  /\ \A k \in 1..Len(calls) : calls[k] = all[j + k]
  /\ \A b \in 1..j : Accepted(all, b)
  /\ Built(root, all, j)

DoneInv ==
  pc = "serializing" =>
    \E j \in 0..Len(RoutingCalls(source)) : Done(RoutingCalls(source), j)

\* serialize has thrown when libyang does not take all of the calls.
OutcomeInv ==
  source # None /\ pc = "idle" /\ exact => (threw <=> ~Passes(RoutingCalls(source)))

\* The tree has all that the calls for the model make, and nothing else.
Returned(t, all) ==
  DOMAIN t = {"routing"} /\ Built(t.routing, all, Len(all)) /\ Passes(all)

ReturnInv ==
  source # None /\ pc = "idle" =>
    /\ ~rejected
    /\ threw => tree = NoTree
    /\ ~threw => Returned(tree, RoutingCalls(source))

IInv == TypeOK /\ PhaseInv /\ DoneInv /\ OutcomeInv /\ ReturnInv

LEMMA NoTreeIsTree == IsTree(NoTree) /\ DOMAIN NoTree = {}
<1>1. DOMAIN NoTree = {}
  BY DEF NoTree
<1>2. QED
  BY <1>1 DEF IsTree

LEMMA InitIInv == Init => IInv
<1>. SUFFICES ASSUME Init PROVE IInv
  OBVIOUS
<1>1. TypeOK
  <2>1. routing_ \in Routing
    <3>1. \A S : <<>> \in Seq(S)
      OBVIOUS
    <3>2. Empty \in Routing
      BY <3>1 DEF Empty, Routing, Optional
    <3>3. QED
      BY <3>2 DEF Init
  <2>2. faults \in 0..MaxFaults
    BY RoutingAssumption DEF Init
  <2>3. Range(calls) = {}
    BY NoElement DEF Init
  <2>4. source \in Optional(Routing)
    BY DEF Init, Optional
  <2>5. QED
    BY <2>1, <2>2, <2>3, <2>4, NoTreeIsTree DEF Init, TypeOK
<1>2. QED
  BY <1>1 DEF Init, IInv, PhaseInv, DoneInv, OutcomeInv, ReturnInv

\* The steps that only change the model object.
LEMMA ModelStep ==
  ASSUME IInv, routing_' \in Routing,
         UNCHANGED <<resolves, pc, calls, root, source, threw, lost, exact, tree, back,
                     rejected, faults>>
  PROVE  IInv'
<1>1. TypeOK'
  BY DEF IInv, TypeOK
<1>2. PhaseInv'
  BY DEF IInv, PhaseInv
<1>3. DoneInv'
  BY DEF IInv, DoneInv, Done, Accepted
<1>4. OutcomeInv'
  BY DEF IInv, OutcomeInv, Passes, Taken
<1>5. ReturnInv'
  BY DEF IInv, ReturnInv, Returned, Passes, Taken
<1>6. QED
  BY <1>1, <1>2, <1>3, <1>4, <1>5 DEF IInv

LEMMA mutableRoutingStep ==
  ASSUME IInv, NEW m \in Models, mutableRouting(m)
  PROVE  IInv'
BY ModelStep, RoutingAssumption DEF mutableRouting

LEMMA AdoptStep ==
  ASSUME IInv, Adopt
  PROVE  IInv'
<1>1. routing_' \in Routing
  BY DEF IInv, TypeOK, Adopt
<1>2. QED
  BY <1>1, ModelStep DEF Adopt

LEMMA SerializeRootStep ==
  ASSUME IInv, SerializeRoot
  PROVE  IInv'
<1>. DEFINE all == RoutingCalls(routing_)
<1>1. /\ resolves' = resolves /\ routing_' = routing_ /\ faults' = faults
      /\ pc' = "serializing" /\ calls' = all /\ root' = <<>> /\ source' = routing_
      /\ threw' = FALSE /\ lost' = FALSE /\ exact' = TRUE
      /\ tree' = NoTree /\ back' = None /\ rejected' = FALSE
  BY DEF SerializeRoot, Forget
<1>2. routing_ \in Routing
  BY DEF IInv, TypeOK
<1>3. AllRouting(all)
  BY <1>2, RoutingCallsTyped
<1>. HIDE DEF all
<1>4. IsSeq(all) /\ Len(all) \in Nat /\ \A c \in Range(all) : DOMAIN c = {"path", "value", "needs"}
  BY <1>3, SeqFacts, RoutingCallNodes DEF AllRouting
<1>5. TypeOK'
  BY <1>1, <1>2, <1>4, EmptyIsTree, NoTreeIsTree DEF IInv, TypeOK, Optional
<1>6. PhaseInv'
  BY <1>1, <1>2 DEF PhaseInv
<1>7. DoneInv'
  <2>. DEFINE later == RoutingCalls(source)'
  <2>1. later = all
    BY <1>1 DEF all
  <2>2. Built(<<>>, all, 0)
    BY BuiltNone
  <2>3. \A k \in 1..Len(all) : 0 + k = k
    BY <1>4
  <2>4. Done(all, 0)'
    BY <1>1, <1>4, <2>2, <2>3 DEF Done, all
  <2>5. 0 \in 0..Len(later)
    BY <1>4, <2>1
  <2>6. QED
    BY <1>1, <2>1, <2>4, <2>5 DEF DoneInv, all
<1>8. OutcomeInv' /\ ReturnInv'
  BY <1>1 DEF OutcomeInv, ReturnInv
<1>9. QED
  BY <1>5, <1>6, <1>7, <1>8 DEF IInv

LEMMA RootFailsStep ==
  ASSUME IInv, RootFails
  PROVE  IInv'
<1>1. /\ resolves' = resolves /\ routing_' = routing_ /\ pc' = pc /\ calls' = calls
      /\ root' = root /\ pc = "idle" /\ source' = routing_
      /\ threw' = TRUE /\ lost' = FALSE /\ exact' = FALSE
      /\ tree' = NoTree /\ back' = None /\ rejected' = FALSE
      /\ faults < MaxFaults /\ faults' = faults + 1
  BY DEF RootFails, Forget
<1>2. faults' \in 0..MaxFaults
  BY <1>1, RoutingAssumption DEF IInv, TypeOK
<1>3. TypeOK'
  BY <1>1, <1>2, NoTreeIsTree DEF IInv, TypeOK, Optional
<1>4. PhaseInv' /\ DoneInv' /\ OutcomeInv' /\ ReturnInv'
  BY <1>1 DEF IInv, PhaseInv, DoneInv, OutcomeInv, ReturnInv
<1>5. QED
  BY <1>3, <1>4 DEF IInv

LEMMA ParseXmlStep ==
  ASSUME IInv, NEW t \in Documents, ParseXml(t)
  PROVE  IInv'
<1>1. /\ resolves' = resolves /\ routing_' = routing_ /\ pc' = pc /\ calls' = calls
      /\ root' = root /\ pc = "idle" /\ source' = None
      /\ threw' = FALSE /\ lost' = FALSE /\ exact' = TRUE
      /\ tree' = t /\ back' = None /\ rejected' = FALSE /\ faults' = faults
  BY DEF ParseXml
<1>2. TypeOK'
  BY <1>1, RoutingAssumption DEF IInv, TypeOK, Optional
<1>3. PhaseInv' /\ DoneInv' /\ OutcomeInv' /\ ReturnInv'
  BY <1>1 DEF IInv, PhaseInv, DoneInv, OutcomeInv, ReturnInv
<1>4. QED
  BY <1>2, <1>3 DEF IInv

\* Between two calls of serialize.
LEMMA SerializingFacts ==
  ASSUME IInv, pc = "serializing"
  PROVE  /\ source \in Routing /\ back = None /\ ~threw /\ IsRoutingTree(root)
         /\ AllRouting(RoutingCalls(source)) /\ Len(RoutingCalls(source)) \in Nat
         /\ \E j \in 0..Len(RoutingCalls(source)) : Done(RoutingCalls(source), j)
<1>1. source \in Routing /\ back = None /\ ~threw /\ IsRoutingTree(root)
  BY DEF IInv, TypeOK, PhaseInv
<1>2. AllRouting(RoutingCalls(source))
  BY <1>1, RoutingCallsTyped
<1>3. Len(RoutingCalls(source)) \in Nat
  BY <1>2, SeqFacts DEF AllRouting
<1>4. QED
  BY <1>1, <1>2, <1>3 DEF IInv, DoneInv

LEMMA HeadOfCalls ==
  ASSUME NEW all, Len(all) \in Nat, NEW j \in 0..Len(all), Done(all, j), calls # <<>>
  PROVE  /\ j + 1 \in 1..Len(all) /\ j + 1 \in 0..Len(all) /\ Head(calls) = all[j + 1]
         /\ IsSeq(Tail(calls)) /\ Len(Tail(calls)) = Len(all) - (j + 1)
         /\ \A k \in 1..Len(Tail(calls)) : Tail(calls)[k] = all[j + 1 + k]
<1>1. /\ IsSeq(calls) /\ Len(calls) = Len(all) - j
      /\ \A k \in 1..Len(calls) : calls[k] = all[j + k]
  BY DEF Done
<1>2. /\ calls \in Seq(Range(calls)) /\ Len(calls) \in Nat \ {0}
  BY <1>1, SeqFacts DEF IsSeq
<1>3. j \in Nat /\ j + 1 \in 1..Len(all) /\ j + 1 \in 0..Len(all)
  BY <1>1, <1>2
<1>4. Head(calls) = calls[1] /\ 1 \in 1..Len(calls)
  BY <1>2
<1>5. Head(calls) = all[j + 1]
  BY <1>1, <1>4
<1>6. /\ Len(Tail(calls)) = Len(calls) - 1
      /\ \A k \in 1..(Len(calls) - 1) : Tail(calls)[k] = calls[k + 1]
  BY <1>2
<1>7. IsSeq(Tail(calls))
  BY <1>1, HeadAndTail
<1>8. ASSUME NEW k \in 1..Len(Tail(calls)) PROVE Tail(calls)[k] = all[j + 1 + k]
  <2>1. k + 1 \in 1..Len(calls) /\ j + (k + 1) = j + 1 + k /\ k \in 1..(Len(calls) - 1)
    BY <1>2, <1>3, <1>6
  <2>2. calls[k + 1] = all[j + (k + 1)]
    BY <1>1, <2>1
  <2>3. QED
    BY <1>6, <2>1, <2>2
<1>9. Len(Tail(calls)) = Len(all) - (j + 1)
  BY <1>1, <1>2, <1>3, <1>6
<1>10. QED
  BY <1>3, <1>5, <1>7, <1>8, <1>9

LEMMA NewPathStep ==
  ASSUME IInv, NewPath
  PROVE  IInv'
<1>. DEFINE all == RoutingCalls(source)
            c == Head(calls)
<1>1. /\ pc = "serializing" /\ calls # <<>> /\ ~PathFails(root, c, resolves)
      /\ calls' = Tail(calls) /\ root' = lyd_new_path(root, c)
      /\ resolves' = resolves /\ routing_' = routing_ /\ pc' = pc /\ source' = source
      /\ threw' = threw /\ lost' = lost /\ exact' = exact /\ tree' = tree /\ back' = back
      /\ rejected' = rejected /\ faults' = faults
  BY DEF NewPath
<1>2. /\ source \in Routing /\ back = None /\ ~threw /\ IsRoutingTree(root)
      /\ AllRouting(all) /\ Len(all) \in Nat
  BY <1>1, SerializingFacts
<1>3. PICK j \in 0..Len(all) : Done(all, j)
  BY <1>1, SerializingFacts
<1>. HIDE DEF all
<1>4. /\ j + 1 \in 1..Len(all) /\ j + 1 \in 0..Len(all) /\ c = all[j + 1]
      /\ IsSeq(Tail(calls)) /\ Len(Tail(calls)) = Len(all) - (j + 1)
      /\ \A k \in 1..Len(Tail(calls)) : Tail(calls)[k] = all[j + 1 + k]
  BY <1>1, <1>2, <1>3, HeadOfCalls
<1>5. IsRoutingCall(c) /\ Range(Tail(calls)) \subseteq Range(calls)
  <2>1. c \in Range(all)
    BY <1>2, <1>4, SeqFacts DEF AllRouting
  <2>2. IsSeq(calls)
    BY <1>3 DEF Done
  <2>3. QED
    BY <1>1, <1>2, <2>1, <2>2, HeadAndTail DEF AllRouting
<1>. HIDE DEF c
<1>6. IsRoutingTree(root')
  BY <1>1, <1>2, <1>5, NewPathOfRouting
<1>7. TypeOK'
  BY <1>1, <1>5, <1>6 DEF IInv, TypeOK
<1>8. PhaseInv'
  BY <1>1, <1>2 DEF IInv, PhaseInv
<1>9. Done(all, j + 1)'
  <2>1. ~Rejects(c, resolves) /\ c.path \notin TreePaths(root)
    BY <1>1, PathsInTree DEF PathFails
  <2>2. /\ Built(root, all, j) /\ \A b \in 1..j : Accepted(all, b)
        /\ TreePaths(root) = UNION {PathsOf(all[a]) : a \in 1..j}
    BY <1>3 DEF Done, Built
  <2>3. j \in Nat /\ j + 1 - 1 = j /\ 1..(j + 1) = (1..j) \union {j + 1}
    BY <1>3
  <2>4. Accepted(all, j + 1)
    <3>1. \A a \in 1..j : c.path \notin PathsOf(all[a])
      BY <2>1, <2>2
    <3>2. /\ ~Rejects(all[j + 1], resolves)
          /\ \A a \in 1..((j + 1) - 1) : all[j + 1].path \notin PathsOf(all[a])
      <4>1. c = all[j + 1]
        BY <1>4
      <4>2. QED
        BY <2>1, <2>3, <3>1, <4>1
    <3>3. QED
      BY <3>2 DEF Accepted
  <2>5. \A b \in 1..(j + 1) : Accepted(all, b)
    BY <2>2, <2>3, <2>4
  <2>6. Built(root', all, j + 1)
    BY <1>1, <1>2, <1>4, <2>2, <2>3, BuiltStep
  <2>7. \A b \in 1..(j + 1) : Accepted(all, b)'
    BY <1>1, <1>2, <2>5 DEF Accepted, all
  <2>8. QED
    BY <1>1, <1>4, <2>6, <2>7 DEF Done, all
<1>10. DoneInv'
  BY <1>1, <1>4, <1>9 DEF DoneInv, all
<1>11. OutcomeInv' /\ ReturnInv'
  BY <1>1 DEF OutcomeInv, ReturnInv
<1>12. QED
  BY <1>7, <1>8, <1>10, <1>11 DEF IInv

\* serialize throws with a call that libyang does not take.
LEMMA ThrowStep ==
  ASSUME IInv, pc = "serializing", Throw, faults' \in 0..MaxFaults, exact' \in BOOLEAN,
         exact' => ~Passes(RoutingCalls(source))
  PROVE  IInv'
<1>1. /\ pc' = "idle" /\ calls' = <<>> /\ root' = None /\ threw' = TRUE /\ lost' = TRUE
      /\ resolves' = resolves /\ routing_' = routing_ /\ source' = source /\ tree' = tree
      /\ back' = back /\ rejected' = rejected
  BY DEF Throw
<1>2. TypeOK'
  <2>1. Range(calls') = {}
    BY <1>1, NoElement
  <2>2. QED
    BY <1>1, <2>1 DEF IInv, TypeOK
<1>3. PhaseInv' /\ DoneInv'
  BY <1>1 DEF IInv, PhaseInv, DoneInv
<1>4. OutcomeInv'
  BY <1>1 DEF OutcomeInv, Passes, Taken
<1>5. ReturnInv'
  BY <1>1 DEF IInv, PhaseInv, ReturnInv
<1>6. QED
  BY <1>2, <1>3, <1>4, <1>5 DEF IInv

LEMMA NewPathFailsStep ==
  ASSUME IInv, NewPathFails
  PROVE  IInv'
<1>. DEFINE all == RoutingCalls(source)
            c == Head(calls)
<1>1. /\ pc = "serializing" /\ calls # <<>> /\ PathFails(root, c, resolves)
      /\ Throw /\ exact' = exact /\ faults' = faults
  BY DEF NewPathFails
<1>2. AllRouting(all) /\ Len(all) \in Nat
  BY <1>1, SerializingFacts
<1>3. PICK j \in 0..Len(all) : Done(all, j)
  BY <1>1, SerializingFacts
<1>. HIDE DEF all
<1>4. j + 1 \in 1..Len(all) /\ c = all[j + 1]
  BY <1>1, <1>2, <1>3, HeadOfCalls
<1>5. c \in Range(all) /\ DOMAIN all = 1..Len(all)
  BY <1>2, <1>4, SeqFacts DEF AllRouting
<1>. HIDE DEF c
<1>6. ~Passes(all)
  <2>1. CASE Rejects(c, resolves)
    BY <1>5, <2>1 DEF Passes, Taken
  <2>2. CASE HasNode(root, c.path)
    <3>1. PICK a \in 1..j : c.path \in PathsOf(all[a])
      BY <1>3, <2>2, PathsInTree DEF Done, Built
    <3>2. a \in DOMAIN all /\ j + 1 \in DOMAIN all /\ a < j + 1
      BY <1>3, <1>4, <1>5
    <3>3. QED
      BY <1>4, <3>1, <3>2 DEF Passes, Fresh
  <2>3. QED
    BY <1>1, <2>1, <2>2 DEF PathFails
<1>7. faults' \in 0..MaxFaults /\ exact' \in BOOLEAN
  BY <1>1 DEF IInv, TypeOK
<1>8. QED
  BY <1>1, <1>6, <1>7, ThrowStep DEF all

LEMMA NewPathOutOfMemoryStep ==
  ASSUME IInv, NewPathOutOfMemory
  PROVE  IInv'
<1>1. /\ pc = "serializing" /\ faults < MaxFaults /\ faults' = faults + 1
      /\ exact' = FALSE /\ Throw
  BY DEF NewPathOutOfMemory
<1>2. faults' \in 0..MaxFaults
  BY <1>1, RoutingAssumption DEF IInv, TypeOK
<1>3. QED
  BY <1>1, <1>2, ThrowStep

LEMMA ReturnRootStep ==
  ASSUME IInv, ReturnRoot
  PROVE  IInv'
<1>. DEFINE all == RoutingCalls(source)
            t == [routing |-> root]
<1>1. /\ pc = "serializing" /\ calls = <<>> /\ pc' = "idle" /\ tree' = t /\ root' = None
      /\ resolves' = resolves /\ routing_' = routing_ /\ calls' = calls /\ source' = source
      /\ threw' = threw /\ lost' = lost /\ exact' = exact /\ back' = back
      /\ rejected' = rejected /\ faults' = faults
  BY DEF ReturnRoot
<1>2. /\ source \in Routing /\ back = None /\ ~threw /\ IsRoutingTree(root)
      /\ AllRouting(all) /\ Len(all) \in Nat
  BY <1>1, SerializingFacts
<1>3. PICK j \in 0..Len(all) : Done(all, j)
  BY <1>1, SerializingFacts
<1>4. IsTree(t)
  <2>1. DOMAIN t = {"routing"} /\ t.routing = root
    OBVIOUS
  <2>. HIDE DEF t
  <2>2. QED
    BY <1>2, <2>1 DEF IsTree
<1>. HIDE DEF t, all
<1>5. TypeOK'
  BY <1>1, <1>4 DEF IInv, TypeOK
<1>6. PhaseInv' /\ DoneInv'
  BY <1>1, <1>2 DEF PhaseInv, DoneInv
<1>7. Passes(all)
  <2>1. j = Len(all) /\ \A b \in 1..j : Accepted(all, b)
    <3>1. Len(calls) = 0 /\ Len(calls) = Len(all) - j
      BY <1>1, <1>3 DEF Done
    <3>2. QED
      BY <1>2, <1>3, <3>1 DEF Done
  <2>2. IsSeq(all) /\ DOMAIN all = 1..j /\ Range(all) = {all[b] : b \in 1..j}
    BY <1>2, <2>1, SeqFacts DEF AllRouting
  <2>3. Taken(all)
    BY <2>1, <2>2 DEF Taken, Accepted
  <2>4. Fresh(all)
    <3>1. ASSUME NEW a \in DOMAIN all, NEW b \in DOMAIN all, a < b
          PROVE  all[b].path \notin PathsOf(all[a])
      <4>1. a \in 1..(b - 1)
        BY <1>2, <2>1, <2>2, <3>1
      <4>2. QED
        BY <2>1, <2>2, <4>1 DEF Accepted
    <3>2. QED
      BY <3>1 DEF Fresh
  <2>5. QED
    BY <2>3, <2>4 DEF Passes
<1>8. OutcomeInv'
  BY <1>1, <1>2, <1>7 DEF OutcomeInv, Passes, Taken, all
<1>9. ReturnInv'
  <2>1. j = Len(all) /\ Built(root, all, j)
    <3>1. Len(calls) = 0 /\ Len(calls) = Len(all) - j
      BY <1>1, <1>3 DEF Done
    <3>2. QED
      BY <1>2, <1>3, <3>1 DEF Done
  <2>2. DOMAIN t = {"routing"} /\ t.routing = root
    BY DEF t
  <2>3. Returned(t, all)
    BY <1>7, <2>1, <2>2 DEF Returned
  <2>4. ~rejected
    BY <1>1 DEF IInv, PhaseInv
  <2>5. tree' = t /\ RoutingCalls(source') = all
    BY <1>1 DEF all
  <2>6. Returned(tree, RoutingCalls(source))'
    BY <1>1, <2>3, <2>5 DEF Returned, Passes, Taken
  <2>7. QED
    BY <1>1, <1>2, <2>4, <2>6 DEF ReturnInv
<1>10. QED
  BY <1>5, <1>6, <1>8, <1>9 DEF IInv

LEMMA DeserializeStep ==
  ASSUME IInv, Deserialize
  PROVE  IInv'
<1>1. /\ pc = "idle" /\ tree # NoTree
      /\ IF Readable(tree) THEN back' = ReadRouting(tree) /\ rejected' = FALSE
                           ELSE back' = None /\ rejected' = TRUE
      /\ resolves' = resolves /\ routing_' = routing_ /\ pc' = pc /\ calls' = calls
      /\ root' = root /\ source' = source /\ threw' = threw /\ lost' = lost
      /\ exact' = exact /\ tree' = tree /\ faults' = faults
  BY DEF Deserialize
<1>2. back' = None \/ back' \in Routing
  <2>1. CASE Readable(tree)
    <3>1. IsTree(tree) /\ "routing" \in DOMAIN tree
      BY <1>1, <2>1 DEF IInv, TypeOK, Readable
    <3>2. QED
      BY <1>1, <2>1, <3>1, ReadRoutingNames
  <2>2. QED
    BY <1>1, <2>1
<1>3. TypeOK'
  BY <1>1, <1>2 DEF IInv, TypeOK
<1>4. PhaseInv'
  BY <1>1 DEF IInv, PhaseInv
<1>5. DoneInv' /\ OutcomeInv'
  BY <1>1 DEF IInv, DoneInv, OutcomeInv, Passes, Taken
<1>6. ReturnInv'
  <2>1. ASSUME source # None
        PROVE  ~threw /\ Returned(tree, RoutingCalls(source)) /\ Readable(tree)
    <3>1. ~threw /\ Returned(tree, RoutingCalls(source))
      BY <1>1, <2>1 DEF IInv, ReturnInv
    <3>2. QED
      BY <3>1 DEF Returned, Readable
  <2>2. ASSUME source # None PROVE ~rejected' /\ ~threw' /\ Returned(tree, RoutingCalls(source))'
    BY <1>1, <2>1, <2>2 DEF Returned, Passes, Taken
  <2>3. QED
    BY <1>1, <2>2 DEF ReturnInv
<1>7. QED
  BY <1>3, <1>4, <1>5, <1>6 DEF IInv

LEMMA Invariant == Spec => []IInv
<1>1. ASSUME IInv, Next PROVE IInv'
  BY <1>1, mutableRoutingStep, ParseXmlStep, AdoptStep, SerializeRootStep, RootFailsStep,
     NewPathStep, NewPathFailsStep, NewPathOutOfMemoryStep, ReturnRootStep,
     DeserializeStep DEF Next
<1>2. ASSUME IInv, UNCHANGED vars PROVE IInv'
  <2>1. UNCHANGED <<resolves, pc, calls, root, source, threw, lost, exact, tree, back,
                    rejected, faults>> /\ routing_' = routing_
    BY <1>2 DEF vars
  <2>2. routing_' \in Routing
    BY <1>2, <2>1 DEF IInv, TypeOK
  <2>3. QED
    BY <1>2, <2>1, <2>2, ModelStep
<1>3. QED
  BY <1>1, <1>2, InitIInv, PTL DEF Spec

-----------------------------------------------------------------------------
(* What the calls of a model look like to libyang *)

\* No call of t is for a node that one of s has made.
NoClash(s, t) == \A c \in Range(s), d \in Range(t) : d.path \notin PathsOf(c)

LEMMA FreshConcat ==
  ASSUME NEW s, IsSeq(s), NEW t, IsSeq(t)
  PROVE  Fresh(s \o t) <=> Fresh(s) /\ Fresh(t) /\ NoClash(s, t)
<1>. DEFINE u == s \o t
            p == Len(s)
            q == Len(t)
<1>1. /\ p \in Nat /\ q \in Nat /\ DOMAIN s = 1..p /\ DOMAIN t = 1..q
      /\ Range(s) = {s[k] : k \in 1..p} /\ Range(t) = {t[k] : k \in 1..q}
  BY SeqFacts
<1>2. /\ IsSeq(u) /\ Len(u) = p + q /\ DOMAIN u = 1..(p + q)
      /\ \A k \in 1..p : u[k] = s[k]
      /\ \A k \in 1..q : u[p + k] = t[k]
      /\ \A k \in 1..(p + q) : k > p => k - p \in 1..q /\ u[k] = t[k - p]
  <2>1. /\ IsSeq(u) /\ Len(u) = Len(s) + Len(t)
        /\ \A k \in 1..Len(s) : u[k] = s[k]
        /\ \A k \in 1..Len(t) : u[Len(s) + k] = t[k]
        /\ \A k \in 1..Len(u) : k > Len(s) => k - Len(s) \in 1..Len(t) /\ u[k] = t[k - Len(s)]
    BY Concatenation
  <2>2. DOMAIN u = 1..Len(u)
    BY <2>1, SeqFacts
  <2>3. QED
    BY <2>1, <2>2
<1>. HIDE DEF u, p, q
<1>3. \A k \in 1..p : k \in 1..(p + q)
  BY <1>1
<1>4. \A k \in 1..q : p + k \in 1..(p + q)
  BY <1>1
<1>5. ASSUME Fresh(u) PROVE Fresh(s) /\ Fresh(t) /\ NoClash(s, t)
  <2>1. \A a, b \in 1..(p + q) : a < b => u[b].path \notin PathsOf(u[a])
    BY <1>2, <1>5 DEF Fresh
  <2>2. Fresh(s)
    <3>1. ASSUME NEW a \in 1..p, NEW b \in 1..p, a < b PROVE s[b].path \notin PathsOf(s[a])
      BY <1>2, <1>3, <2>1, <3>1
    <3>2. QED
      BY <1>1, <3>1 DEF Fresh
  <2>3. Fresh(t)
    <3>1. ASSUME NEW a \in 1..q, NEW b \in 1..q, a < b PROVE t[b].path \notin PathsOf(t[a])
      <4>1. p + a < p + b
        BY <1>1, <3>1
      <4>2. u[p + b].path \notin PathsOf(u[p + a])
        BY <1>4, <2>1, <4>1
      <4>3. QED
        BY <1>2, <4>2
    <3>2. QED
      BY <1>1, <3>1 DEF Fresh
  <2>4. NoClash(s, t)
    <3>1. ASSUME NEW a \in 1..p, NEW b \in 1..q PROVE t[b].path \notin PathsOf(s[a])
      <4>1. a < p + b
        BY <1>1
      <4>2. u[p + b].path \notin PathsOf(u[a])
        BY <1>3, <1>4, <2>1, <4>1
      <4>3. QED
        BY <1>2, <4>2
    <3>2. QED
      BY <1>1, <3>1 DEF NoClash
  <2>5. QED
    BY <2>2, <2>3, <2>4
<1>6. ASSUME Fresh(s), Fresh(t), NoClash(s, t) PROVE Fresh(u)
  <2>1. ASSUME NEW a \in 1..(p + q), NEW b \in 1..(p + q), a < b
        PROVE  u[b].path \notin PathsOf(u[a])
    <3>1. CASE b <= p
      <4>1. a \in 1..p /\ b \in 1..p
        BY <1>1, <2>1, <3>1
      <4>2. s[b].path \notin PathsOf(s[a])
        BY <1>1, <1>6, <2>1, <4>1 DEF Fresh
      <4>3. QED
        BY <1>2, <4>1, <4>2
    <3>2. CASE a > p
      <4>1. b > p
        BY <1>1, <2>1, <3>2
      <4>2. /\ a - p \in 1..q /\ u[a] = t[a - p] /\ b - p \in 1..q /\ u[b] = t[b - p]
        BY <1>2, <3>2, <4>1
      <4>3. a - p < b - p
        BY <1>1, <2>1
      <4>4. QED
        BY <1>1, <1>6, <4>2, <4>3 DEF Fresh
    <3>3. CASE a <= p /\ b > p
      <4>1. a \in 1..p /\ u[b] = t[b - p] /\ b - p \in 1..q
        BY <1>1, <1>2, <2>1, <3>3
      <4>2. u[a] = s[a]
        BY <1>2, <4>1
      <4>3. s[a] \in Range(s) /\ t[b - p] \in Range(t)
        BY <1>1, <4>1
      <4>4. QED
        BY <1>6, <4>1, <4>2, <4>3 DEF NoClash
    <3>4. QED
      BY <1>1, <2>1, <3>1, <3>2, <3>3
  <2>2. QED
    BY <1>2, <2>1 DEF Fresh
<1>7. QED
  BY <1>5, <1>6 DEF u

LEMMA PassesConcat ==
  ASSUME NEW s, IsSeq(s), NEW t, IsSeq(t)
  PROVE  Passes(s \o t) <=> Passes(s) /\ Passes(t) /\ NoClash(s, t)
<1>1. Taken(s \o t) <=> Taken(s) /\ Taken(t)
  BY Concatenation DEF Taken
<1>2. QED
  BY <1>1, FreshConcat DEF Passes

LEMMA PassesNone == Passes(<<>>)
BY NoElement DEF Passes, Taken, Fresh

LEMMA PassesOne ==
  ASSUME NEW c
  PROVE  Passes(<<c>>) <=> ~Rejects(c, resolves)
<1>1. Range(<<c>>) = {c}
  BY OneElement
<1>2. Fresh(<<c>>)
  <2>1. IsSeq(<<c>>) /\ Len(<<c>>) = 1
    BY OneElement
  <2>2. DOMAIN <<c>> = 1..1
    BY <2>1, SeqFacts
  <2>3. QED
    BY <2>2 DEF Fresh
<1>3. QED
  BY <1>1, <1>2 DEF Passes, Taken

LEMMA PassesIf ==
  ASSUME NEW condition \in BOOLEAN, NEW c
  PROVE  Passes(If(condition, <<c>>)) <=> (condition => ~Rejects(c, resolves))
BY PassesOne, PassesNone DEF If

\* libyang takes each of the first m parts, and none clashes with an earlier one.
AllPass(ss, m) ==
  /\ \A k \in 1..m : Passes(ss[k])
  /\ \A j, k \in 1..m : j < k => NoClash(ss[j], ss[k])

LEMMA PassesFlat ==
  ASSUME NEW n \in Nat, NEW ss, DOMAIN ss = 1..n, ss = [k \in 1..n |-> ss[k]],
         \A k \in 1..n : IsSeq(ss[k])
  PROVE  /\ IsSeq(FlattenSeq(ss))
         /\ Range(FlattenSeq(ss)) = UNION {Range(ss[k]) : k \in 1..n}
         /\ Passes(FlattenSeq(ss)) <=> AllPass(ss, n)
<1>1. IsSeq(ss) /\ Len(ss) = n
  BY FunctionIsSeq
<1>2. IsSeq(FlattenSeq(ss)) /\ Range(FlattenSeq(ss)) = UNION {Range(ss[k]) : k \in 1..n}
  BY <1>1, Flattened
<1>3. CASE n = 0
  <2>1. Range(FlattenSeq(ss)) = {}
    BY <1>2, <1>3
  <2>2. DOMAIN FlattenSeq(ss) = {}
    <3>1. /\ DOMAIN FlattenSeq(ss) = 1..Len(FlattenSeq(ss))
          /\ \A k \in 1..Len(FlattenSeq(ss)) : FlattenSeq(ss)[k] \in Range(FlattenSeq(ss))
      BY <1>2, SeqFacts
    <3>2. QED
      BY <2>1, <3>1
  <2>3. Passes(FlattenSeq(ss))
    BY <2>1, <2>2 DEF Passes, Taken, Fresh
  <2>4. \A k \in 1..n : FALSE
    BY <1>3
  <2>5. AllPass(ss, n)
    BY <2>4 DEF AllPass
  <2>6. Passes(FlattenSeq(ss)) <=> AllPass(ss, n)
    BY <2>3, <2>5
  <2>7. QED
    BY <1>2, <2>6
<1>4. CASE n # 0
  <2>1. ss # <<>>
    BY <1>1, <1>4, SeqFacts
  <2>2. PICK f : /\ FlattenSeq(ss) = f[n]
                 /\ f[1] = ss[1]
                 /\ \A k \in 2..n : f[k] = f[k - 1] \o ss[k]
    <3>1. \A k \in DOMAIN ss : IsSeq(ss[k])
      OBVIOUS
    <3>2. \E f : /\ FlattenSeq(ss) = f[Len(ss)]
                 /\ f[1] = ss[1]
                 /\ \A k \in 2..Len(ss) : f[k] = f[k - 1] \o ss[k]
      BY <1>1, <2>1, <3>1, FlattenSteps
    <3>3. QED
      BY <1>1, <3>2
  <2>. DEFINE Is(m) == /\ IsSeq(f[m]) /\ Range(f[m]) = UNION {Range(ss[k]) : k \in 1..m}
                       /\ Passes(f[m]) <=> AllPass(ss, m)
              T == {m \in 0..n : m = 0 \/ Is(m)}
  <2>3. 0 \in T
    <3>. HIDE DEF Is
    <3>1. QED
      OBVIOUS
  <2>4. ASSUME NEW m \in 0..(n - 1), m \in T PROVE m + 1 \in T
    <3>0. m \in Nat /\ m + 1 \in 0..n /\ m + 1 \in 1..n /\ IsSeq(ss[m + 1])
      OBVIOUS
    <3>1. CASE m = 0
      <4>1. 1..(m + 1) = {1} /\ f[m + 1] = ss[1] /\ IsSeq(ss[1])
        BY <2>2, <3>0, <3>1
      <4>2. UNION {Range(ss[k]) : k \in 1..(m + 1)} = Range(ss[1])
        BY <4>1
      <4>3. AllPass(ss, m + 1) <=> Passes(ss[1])
        <5>1. ~(1 < 1)
          OBVIOUS
        <5>2. QED
          BY <4>1, <5>1 DEF AllPass
      <4>4. Is(m + 1)
        BY <4>1, <4>2, <4>3
      <4>. HIDE DEF Is
      <4>5. QED
        BY <3>0, <4>4
    <3>2. CASE m # 0
      <4>. DEFINE old == f[m]
                  s == ss[m + 1]
      <4>1. IsSeq(old) /\ Range(old) = UNION {Range(ss[k]) : k \in 1..m}
            /\ (Passes(old) <=> AllPass(ss, m))
        BY <2>4, <3>2
      <4>2. PICK l \in 2..n : l = m + 1 /\ l - 1 = m
        BY <3>0, <3>2
      <4>3. f[m + 1] = old \o s
        BY <2>2, <4>2
      <4>4. IsSeq(s)
        BY <3>0
      <4>5. 1..(m + 1) = (1..m) \union {m + 1}
        BY <3>0
      <4>6. UNION {Range(ss[k]) : k \in 1..(m + 1)} = Range(old) \union Range(s)
        <5>1. UNION {Range(ss[k]) : k \in 1..(m + 1)}
                = (UNION {Range(ss[k]) : k \in 1..m}) \union Range(ss[m + 1])
          <6>. HIDE DEF old, s
          <6>1. QED
            BY <4>5
        <5>2. QED
          BY <4>1, <5>1
      <4>7. AllPass(ss, m + 1) <=>
              AllPass(ss, m) /\ Passes(s) /\ \A j \in 1..m : NoClash(ss[j], s)
        <5>1. \A j \in 1..m : j < m + 1 /\ ~(m + 1 < j)
          BY <3>0
        <5>2. ~(m + 1 < m + 1)
          BY <3>0
        <5>3. \A k : k \in 1..(m + 1) <=> k \in 1..m \/ k = m + 1
          BY <4>5
        <5>. DEFINE last == m + 1
        <5>4. s = ss[last]
          OBVIOUS
        <5>. HIDE DEF last, s
        <5>5. (\A k \in 1..last : Passes(ss[k]))
                <=> (\A k \in 1..m : Passes(ss[k])) /\ Passes(s)
          BY <5>3, <5>4 DEF last
        <5>6. (\A j, k \in 1..last : j < k => NoClash(ss[j], ss[k]))
                <=> /\ \A j, k \in 1..m : j < k => NoClash(ss[j], ss[k])
                    /\ \A j \in 1..m : NoClash(ss[j], s)
          <6>1. \A k : k \in 1..last <=> k \in 1..m \/ k = last
            BY <5>3 DEF last
          <6>2. (\A j \in 1..m : j < last /\ ~(last < j)) /\ ~(last < last)
            BY <5>1, <5>2 DEF last
          <6>3. QED
            BY <5>4, <6>1, <6>2
        <5>7. QED
          BY <5>5, <5>6 DEF AllPass, last
      <4>8. NoClash(old, s) <=> \A j \in 1..m : NoClash(ss[j], s)
        BY <4>1 DEF NoClash
      <4>. HIDE DEF old, s
      <4>9. Passes(old \o s) <=> Passes(old) /\ Passes(s) /\ NoClash(old, s)
        BY <4>1, <4>4, PassesConcat
      <4>10. IsSeq(old \o s) /\ Range(old \o s) = Range(old) \union Range(s)
        BY <4>1, <4>4, Concatenation
      <4>11. Is(m + 1)
        BY <4>1, <4>3, <4>6, <4>7, <4>8, <4>9, <4>10
      <4>. HIDE DEF Is
      <4>12. QED
        BY <3>0, <4>11
    <3>3. QED
      BY <3>1, <3>2
  <2>5. n \in T
    <3>. HIDE DEF T
    <3>1. 0..n \subseteq T
      BY <2>3, <2>4, UpTo
    <3>2. QED
      BY <3>1
  <2>6. QED
    BY <1>2, <1>4, <2>2, <2>5
<1>5. QED
  BY <1>3, <1>4

\* All paths that a call sees to begin as its own.
LEMMA FirstSegment ==
  ASSUME NEW c, IsPath(c.path), NEW p \in PathsOf(c)
  PROVE  p[1] = c.path[1]
<1>1. PICK i \in DOMAIN c.path :
        \/ p = Above(c, i)
        \/ \E key \in Range(KeyLeaves(c.path[i])) : p = Append(Above(c, i), Segment(key[1]))
  BY PathsOfCall
<1>2. IsSeq(c.path) /\ i \in 1..Len(c.path) /\ 1 \in 1..i
  BY SeqFacts DEF IsPath
<1>3. IsSeq(Above(c, i)) /\ Len(Above(c, i)) = i /\ Above(c, i)[1] = c.path[1]
  BY <1>2, Prefix DEF Above
<1>. DEFINE above == Above(c, i)
<1>. HIDE DEF above
<1>4. \A s : Append(above, s)[1] = above[1]
  BY <1>2, <1>3, Appended DEF above
<1>5. ASSUME NEW s, p = Append(above, s) PROVE p[1] = c.path[1]
  BY <1>3, <1>4, <1>5 DEF above
<1>6. ASSUME p = above PROVE p[1] = c.path[1]
  BY <1>3, <1>6 DEF above
<1>7. QED
  BY <1>1, <1>5, <1>6 DEF above

LEMMA OtherFirst ==
  ASSUME NEW s, NEW t, NEW first,
         \A c \in Range(s) : IsPath(c.path) /\ c.path[1] # first,
         \A d \in Range(t) : d.path[1] = first
  PROVE  NoClash(s, t)
BY FirstSegment DEF NoClash

\* What a path with one more segment adds to the paths that a call sees to.
LEMMA LongerPaths ==
  ASSUME NEW path, IsSeq(path), \A s \in Range(path) : IsSegment(s),
         NEW segment, IsSegment(segment), NEW value, NEW needs,
         NEW p \in PathsOf(PathCall(Append(path, segment), value, needs))
  PROVE  \/ p \in PathsOf(PathCall(path, None, {}))
         \/ p = Append(path, segment)
         \/ \E key \in Range(KeyLeaves(segment)) :
              p = Append(Append(path, segment), Segment(key[1]))
<1>. DEFINE longer == Append(path, segment)
<1>1. PICK n \in NodesOf(PathCall(longer, value, needs)) : p = n.path
  BY DEF PathsOf
<1>2. n \in NodesOf(PathCall(path, None, {})) \/ n \in Range(NewNode(longer, value))
  BY <1>1, NodesOfLonger
<1>3. IsSeq(longer) /\ longer # <<>> /\ Last(longer) = segment
  BY Appended
<1>. HIDE DEF longer
<1>4. Range(NewNode(longer, value))
        = {[path |-> longer, value |-> Stored(<<Last(longer)[1], value>>)]}
          \union {KeyLeafNode(longer, key) : key \in Range(KeyLeaves(Last(longer)))}
  BY <1>3, NewNodes
<1>5. CASE n \in NodesOf(PathCall(path, None, {}))
  BY <1>1, <1>5 DEF PathsOf
<1>6. CASE n = [path |-> longer, value |-> Stored(<<Last(longer)[1], value>>)]
  BY <1>1, <1>6 DEF longer
<1>7. CASE \E key \in Range(KeyLeaves(segment)) : n = KeyLeafNode(longer, key)
  BY <1>1, <1>7 DEF KeyLeafNode, longer
<1>8. QED
  BY <1>2, <1>3, <1>4, <1>5, <1>6, <1>7

LEMMA NoPaths == PathsOf(PathCall(<<>>, None, {})) = {}
BY NodesOfNoPath DEF PathsOf

-----------------------------------------------------------------------------
(* The calls for a rib *)

RibName(r) == Append(RibBox(r), Segment("name"))

\* The path of the list entry of r or of a container in it: it has the key of r
\* and no other, and a call for it makes nodes of containers and the key leaf.
IsRibPath(path, r) ==
  /\ IsSeq(path) /\ \A s \in Range(path) : IsSegment(s)
  /\ Len(path) > 1 /\ path[1] = Segment("ribs") /\ path[2] = Entry("rib", <<r.name>>)
  /\ \A s \in Range(path) : \A key \in Range(KeyLeaves(s)) : key = <<"name", r.name>>
  /\ \A p \in PathsOf(PathCall(path, None, {})) : Last(p)[1] \in Containers \/ p = RibName(r)

\* A call for a leaf below such a path.
IsRibCall(c, r) ==
  /\ IsPath(c.path)
  /\ c.path[1] = Segment("ribs") /\ c.path[2] = Entry("rib", <<r.name>>)
  /\ Last(c.path)[1] \notin Containers
  /\ \A p \in PathsOf(c) : Last(p)[1] \in Containers \/ p = RibName(r) \/ p = c.path

LEMMA RibPathOfBox ==
  ASSUME NEW r \in Rib
  PROVE  IsRibPath(RibBox(r), r)
<1>. DEFINE e == Entry("rib", <<r.name>>)
            one == <<Segment("ribs")>>
            none == <<>>
            box == RibBox(r)
<1>1. IsSegment(e) /\ Range(KeyLeaves(e)) = {<<"name", r.name>>} /\ e[1] = "rib"
  <2>1. r.name \in Labels
    BY DEF Rib
  <2>2. QED
    BY <2>1, RibSegment DEF IsContainer, Entry
<1>2. /\ IsSegment(Segment("ribs")) /\ Range(KeyLeaves(Segment("ribs"))) = {}
      /\ Segment("ribs")[1] = "ribs"
  BY InterfaceSegments DEF Segment
<1>3. /\ IsSeq(one) /\ Len(one) = 1 /\ one[1] = Segment("ribs")
      /\ Range(one) = {Segment("ribs")}
  BY OneElement
<1>4. one = Append(none, Segment("ribs")) /\ IsSeq(none) /\ Range(none) = {}
  BY NoElement
<1>5. box = Append(one, e)
  BY TwoElements DEF RibBox
<1>. HIDE DEF e, one, box
<1>6. /\ IsSeq(box) /\ Len(box) = 2 /\ box[1] = Segment("ribs") /\ box[2] = e
      /\ Range(box) = {Segment("ribs"), e} /\ Last(box) = e
  <2>1. /\ IsSeq(box) /\ Len(box) = Len(one) + 1 /\ Last(box) = e
        /\ Range(box) = Range(one) \union {e}
    BY <1>3, <1>5, Appended
  <2>2. box[1] = Segment("ribs") /\ box[2] = e
    BY <1>3, <1>5, AppendToOne
  <2>3. Len(box) = 2
    BY <1>3, <2>1
  <2>4. Range(box) = {Segment("ribs"), e}
    BY <1>3, <2>1
  <2>5. QED
    BY <2>1, <2>2, <2>3, <2>4
<1>7. ASSUME NEW p \in PathsOf(PathCall(one, None, {}))
      PROVE  p = one
  <2>. HIDE DEF none
  <2>1. \/ p \in PathsOf(PathCall(none, None, {}))
        \/ p = Append(none, Segment("ribs"))
        \/ \E key \in Range(KeyLeaves(Segment("ribs"))) :
             p = Append(Append(none, Segment("ribs")), Segment(key[1]))
    BY <1>2, <1>4, LongerPaths
  <2>2. PathsOf(PathCall(none, None, {})) = {}
    BY NoPaths DEF none
  <2>3. QED
    BY <1>2, <1>4, <2>1, <2>2
<1>8. ASSUME NEW p \in PathsOf(PathCall(box, None, {}))
      PROVE  Last(p)[1] \in Containers \/ p = RibName(r)
  <2>1. \/ p \in PathsOf(PathCall(one, None, {}))
        \/ p = box
        \/ \E key \in Range(KeyLeaves(e)) : p = Append(box, Segment(key[1]))
    BY <1>1, <1>2, <1>3, <1>5, LongerPaths
  <2>2. Last(one) = Segment("ribs")
    BY <1>4, Appended
  <2>3. CASE p \in PathsOf(PathCall(one, None, {}))
    BY <1>2, <1>7, <2>2, <2>3 DEF Containers
  <2>4. CASE p = box
    BY <1>1, <1>6, <2>4 DEF Containers
  <2>5. CASE \E key \in Range(KeyLeaves(e)) : p = Append(box, Segment(key[1]))
    BY <1>1, <2>5 DEF RibName, box
  <2>6. QED
    BY <2>1, <2>3, <2>4, <2>5
<1>9. IsRibPath(box, r)
  BY <1>1, <1>2, <1>6, <1>8 DEF IsRibPath, e
<1>10. QED
  BY <1>9 DEF box

LEMMA KeyLeafOfRib ==
  ASSUME NEW r \in Rib
  PROVE  /\ Last(RibName(r))[1] = "name"
         /\ RibName(r)[2] = Entry("rib", <<r.name>>)
<1>1. IsSeq(RibBox(r)) /\ 2 \in 1..Len(RibBox(r)) /\ RibBox(r)[2] = Entry("rib", <<r.name>>)
  BY RibPathOfBox, SeqFacts DEF IsRibPath
<1>2. Last(RibName(r)) = Segment("name") /\ RibName(r)[2] = RibBox(r)[2]
  BY <1>1, Appended DEF RibName
<1>3. QED
  BY <1>1, <1>2 DEF Segment

LEMMA RibPathLonger ==
  ASSUME NEW r, NEW path, IsRibPath(path, r),
         NEW segment, IsSegment(segment), Range(KeyLeaves(segment)) = {},
         segment[1] \in Containers
  PROVE  IsRibPath(Append(path, segment), r)
<1>. DEFINE longer == Append(path, segment)
<1>1. /\ IsSeq(longer) /\ Len(longer) = Len(path) + 1 /\ Last(longer) = segment
      /\ Range(longer) = Range(path) \union {segment}
      /\ \A k \in 1..Len(path) : longer[k] = path[k]
  BY Appended DEF IsRibPath
<1>2. Len(path) \in Nat /\ 1 \in 1..Len(path) /\ 2 \in 1..Len(path)
  BY SeqFacts DEF IsRibPath
<1>3. ASSUME NEW p \in PathsOf(PathCall(longer, None, {}))
      PROVE  Last(p)[1] \in Containers \/ p = RibName(r)
  <2>1. p \in PathsOf(PathCall(path, None, {})) \/ p = longer
    BY <1>3, LongerPaths DEF IsRibPath
  <2>2. QED
    BY <1>1, <2>1 DEF IsRibPath
<1>. HIDE DEF longer
<1>4. IsRibPath(longer, r)
  BY <1>1, <1>2, <1>3 DEF IsRibPath
<1>5. QED
  BY <1>4 DEF longer

LEMMA RibCall ==
  ASSUME NEW r \in Rib, NEW path, IsRibPath(path, r),
         NEW leaf, leaf \notin Containers, NEW value,
         NEW c, c = PathCall(Append(path, Segment(leaf)), value, {})
  PROVE  /\ IsRibCall(c, r)
         /\ Last(c.path) = Segment(leaf) /\ Last(c.path)[1] = leaf /\ Front(c.path) = path
         /\ Rejects(c, resolves) <=> r.name \in Unquotable \/ <<leaf, value>> \in Refused
<1>. DEFINE s == Segment(leaf)
            longer == Append(path, s)
<1>1. IsSegment(s) /\ Range(KeyLeaves(s)) = {} /\ s[1] = leaf
  BY InterfaceSegments DEF Segment
<1>2. /\ IsSeq(longer) /\ longer # <<>> /\ Len(longer) = Len(path) + 1
      /\ Last(longer) = s /\ Front(longer) = path
      /\ Range(longer) = Range(path) \union {s}
      /\ \A k \in 1..Len(path) : longer[k] = path[k]
  BY Appended DEF IsRibPath
<1>3. Len(path) \in Nat /\ 1 \in 1..Len(path) /\ 2 \in 1..Len(path)
  BY SeqFacts DEF IsRibPath
<1>4. c.path = longer /\ c.value = value /\ c.needs = {}
  BY DEF PathCall
<1>5. ASSUME NEW p \in PathsOf(c)
      PROVE  Last(p)[1] \in Containers \/ p = RibName(r) \/ p = c.path
  <2>1. \/ p \in PathsOf(PathCall(path, None, {}))
        \/ p = longer
        \/ \E key \in Range(KeyLeaves(s)) : p = Append(longer, Segment(key[1]))
    BY <1>1, <1>5, LongerPaths DEF IsRibPath
  <2>2. QED
    BY <1>1, <1>4, <2>1 DEF IsRibPath
<1>. HIDE DEF s, longer
<1>6. IsPath(c.path) /\ c.path[1] = path[1] /\ c.path[2] = path[2] /\ Last(c.path) = s
  BY <1>1, <1>2, <1>3, <1>4 DEF IsPath, IsRibPath
<1>7. IsRibCall(c, r)
  BY <1>1, <1>5, <1>6 DEF IsRibCall, IsRibPath
<1>8. Rejects(c, resolves) <=> r.name \in Unquotable \/ <<leaf, value>> \in Refused
  <2>. DEFINE e == Entry("rib", <<r.name>>)
  <2>1. r.name \in Labels
    BY DEF Rib
  <2>2. Range(KeyLeaves(e)) = {<<"name", r.name>>}
    BY <2>1, RibSegment
  <2>3. e \in Range(c.path)
    BY <1>2, <1>3, <1>4, SeqFacts DEF IsRibPath
  <2>4. <<"name", r.name>> \notin Refused
    BY <2>1, RoutingSchemaAssumption
  <2>5. \A x \in Range(c.path) : \A key \in Range(KeyLeaves(x)) : key = <<"name", r.name>>
    BY <1>1, <1>2, <1>4 DEF IsRibPath
  <2>. HIDE DEF e
  <2>6. (\E x \in Range(c.path) : \E key \in Range(KeyLeaves(x)) :
           key[2] \in Unquotable \/ key \in Refused) <=> r.name \in Unquotable
    <3>. DEFINE name == <<"name", r.name>>
    <3>1. name[2] = r.name
      OBVIOUS
    <3>. HIDE DEF name
    <3>2. QED
      BY <2>2, <2>3, <2>4, <2>5, <3>1 DEF name
  <2>7. c.needs \subseteq resolves
    BY <1>4
  <2>8. <<Last(c.path)[1], c.value>> = <<leaf, value>>
    BY <1>1, <1>4, <1>6
  <2>9. QED
    BY <2>6, <2>7, <2>8 DEF Rejects
<1>9. QED
  BY <1>1, <1>2, <1>4, <1>6, <1>7, <1>8 DEF s

\* The calls of s are for leaves below the entry of r.
IsRibPart(s, r) == IsSeq(s) /\ \A c \in Range(s) : IsRibCall(c, r)

LEMMA RibParts ==
  ASSUME NEW r, NEW s, IsRibPart(s, r), NEW t, IsRibPart(t, r)
  PROVE  IsRibPart(s \o t, r) /\ Range(s \o t) = Range(s) \union Range(t)
BY Concatenation DEF IsRibPart

\* Only calls for the same leaf clash, or one for the key leaf.
LEMMA OtherLeaves ==
  ASSUME NEW r \in Rib, NEW s, IsRibPart(s, r), NEW t, IsRibPart(t, r),
         \A c \in Range(s), d \in Range(t) :
           Last(d.path)[1] # "name" /\ Last(d.path)[1] # Last(c.path)[1]
  PROVE  NoClash(s, t)
<1>1. ASSUME NEW c \in Range(s), NEW d \in Range(t)
      PROVE  d.path \notin PathsOf(c)
  <2>1. \A p \in PathsOf(c) : Last(p)[1] \in Containers \/ p = RibName(r) \/ p = c.path
    BY DEF IsRibPart, IsRibCall
  <2>2. Last(d.path)[1] \notin Containers
    BY DEF IsRibPart, IsRibCall
  <2>3. QED
    BY <2>1, <2>2, KeyLeafOfRib
<1>2. QED
  BY <1>1 DEF NoClash

LEMMA RibLeafCall ==
  ASSUME NEW r \in Rib, NEW leaf, leaf \notin Containers, NEW value,
         NEW s, s = Call(RibBox(r), leaf, value)
  PROVE  /\ IsRibPart(s, r) /\ \A c \in Range(s) : Last(c.path)[1] = leaf
         /\ Passes(s) <=> r.name \notin Unquotable /\ <<leaf, value>> \notin Refused
<1>. DEFINE c == PathCall(Append(RibBox(r), Segment(leaf)), value, {})
<1>1. s = <<c>>
  BY DEF Call
<1>2. /\ IsRibCall(c, r) /\ Last(c.path)[1] = leaf
      /\ Rejects(c, resolves) <=> r.name \in Unquotable \/ <<leaf, value>> \in Refused
  BY RibCall, RibPathOfBox
<1>. HIDE DEF c
<1>3. IsSeq(s) /\ Range(s) = {c}
  BY <1>1, OneElement
<1>4. Passes(s) <=> ~Rejects(c, resolves)
  BY <1>1, PassesOne
<1>5. QED
  BY <1>2, <1>3, <1>4 DEF IsRibPart

\* Calls for routes of different numbers do not clash.
LEMMA RibRouteCalls ==
  ASSUME NEW r \in Rib, NEW s, s = RouteCalls(RibBox(r), "routes", r.routes, {})
  PROVE  /\ IsRibPart(s, r) /\ \A c \in Range(s) : Last(c.path)[1] = "route-preference"
         /\ r.name \notin Unquotable => Passes(s)
<1>. DEFINE box == RibBox(r)
            routes == r.routes
            n == Len(routes)
            Path(k) == RoutePath(box, "routes", k)
            C(k) == PathCall(Append(Path(k), Segment("route-preference")), routes[k], {})
            ss == [k \in 1..n |-> If(routes[k] # None, <<C(k)>>)]
<1>1. n \in Nat /\ DOMAIN routes = 1..n /\ \A k \in 1..n : routes[k] \in Optional(Prefs)
  BY DEF Rib
<1>2. s = FlattenSeq(ss)
  BY <1>1 DEF RouteCalls
<1>3. \A k \in 1..n : ss[k] = If(routes[k] # None, <<C(k)>>)
  OBVIOUS
<1>4. DOMAIN ss = 1..n /\ ss = [k \in 1..n |-> ss[k]]
  OBVIOUS
<1>. HIDE DEF ss, n
<1>5. ASSUME NEW k
      PROVE  IsRibPath(Path(k), r) /\ Last(Path(k)) = Instance("route", k)
  <2>. DEFINE list == Append(box, Segment("routes"))
              route == Instance("route", k)
  <2>1. IsRibPath(box, r)
    BY RibPathOfBox
  <2>2. /\ IsSegment(Segment("routes")) /\ Range(KeyLeaves(Segment("routes"))) = {}
        /\ Segment("routes")[1] \in Containers
    BY InterfaceSegments DEF Segment, Containers
  <2>3. IsRibPath(list, r)
    BY <2>1, <2>2, RibPathLonger
  <2>4. IsSegment(route) /\ Range(KeyLeaves(route)) = {} /\ route[1] \in Containers
    BY PlainContainer DEF Instance, Containers
  <2>. HIDE DEF list, route
  <2>5. IsRibPath(Append(list, route), r)
    BY <2>3, <2>4, RibPathLonger
  <2>6. Last(Append(list, route)) = route
    BY <2>3, Appended DEF IsRibPath
  <2>7. Path(k) = Append(list, route)
    BY DEF RoutePath, list, route
  <2>8. QED
    BY <2>5, <2>6, <2>7 DEF route
<1>. HIDE DEF Path
<1>6. ASSUME NEW k
      PROVE  /\ IsRibCall(C(k), r)
             /\ Last(C(k).path) = Segment("route-preference")
             /\ Last(C(k).path)[1] = "route-preference" /\ Front(C(k).path) = Path(k)
             /\ Rejects(C(k), resolves) <=>
                  r.name \in Unquotable \/ <<"route-preference", routes[k]>> \in Refused
  <2>1. "route-preference" \notin Containers
    BY DEF Containers
  <2>2. QED
    BY <1>5, <2>1, RibCall
<1>. HIDE DEF C
<1>7. ASSUME NEW k \in 1..n
      PROVE  /\ IsRibPart(ss[k], r)
             /\ \A c \in Range(ss[k]) : c = C(k)
             /\ r.name \notin Unquotable => Passes(ss[k])
  <2>1. IsSeq(<<C(k)>>) /\ Range(<<C(k)>>) = {C(k)} /\ IsSeq(<<>>) /\ Range(<<>>) = {}
    BY OneElement, NoElement
  <2>2. CASE routes[k] = None
    BY <1>3, <2>1, <2>2, PassesNone DEF If, IsRibPart
  <2>3. CASE routes[k] # None
    <3>1. routes[k] \in Prefs
      BY <1>1, <2>3 DEF Optional
    <3>2. <<"route-preference", routes[k]>> \notin Refused
      BY <3>1, RoutingSchemaAssumption
    <3>3. ss[k] = <<C(k)>>
      BY <1>3, <2>3 DEF If
    <3>4. Passes(<<C(k)>>) <=> ~Rejects(C(k), resolves)
      BY PassesOne
    <3>5. r.name \notin Unquotable => Passes(ss[k])
      BY <1>6, <3>2, <3>3, <3>4
    <3>6. IsRibPart(ss[k], r) /\ \A c \in Range(ss[k]) : c = C(k)
      <4>1. IsSeq(ss[k]) /\ Range(ss[k]) = {C(k)}
        BY <2>1, <3>3
      <4>2. IsRibCall(C(k), r)
        BY <1>6
      <4>3. QED
        BY <4>1, <4>2 DEF IsRibPart
    <3>7. QED
      BY <3>5, <3>6
  <2>4. QED
    BY <2>2, <2>3
<1>8. ASSUME NEW j \in 1..n, NEW k \in 1..n, j < k
      PROVE  NoClash(ss[j], ss[k])
  <2>1. C(k).path \notin PathsOf(C(j))
    <3>1. SUFFICES ASSUME C(k).path \in PathsOf(C(j)) PROVE FALSE
      OBVIOUS
    <3>2. "route-preference" \notin Containers /\ Last(RibName(r))[1] = "name"
      BY KeyLeafOfRib DEF Containers
    <3>3. \/ Last(C(k).path)[1] \in Containers \/ C(k).path = RibName(r)
          \/ C(k).path = C(j).path
      BY <1>6, <3>1 DEF IsRibCall
    <3>4. C(k).path = C(j).path
      BY <1>6, <3>2, <3>3
    <3>5. Instance("route", k) = Instance("route", j)
      BY <1>5, <1>6, <3>4
    <3>6. k = j
      BY <3>5 DEF Instance
    <3>7. QED
      BY <1>1, <1>8, <3>6
  <2>2. QED
    BY <1>7, <2>1 DEF NoClash
<1>9. /\ IsSeq(s) /\ Range(s) = UNION {Range(ss[k]) : k \in 1..n}
      /\ Passes(s) <=> AllPass(ss, n)
  <2>1. \A k \in 1..n : IsSeq(ss[k])
    BY <1>7 DEF IsRibPart
  <2>2. QED
    BY <1>1, <1>2, <1>4, <2>1, PassesFlat
<1>10. ASSUME NEW c \in Range(s)
       PROVE  IsRibCall(c, r) /\ Last(c.path)[1] = "route-preference"
  <2>1. PICK k \in 1..n : c \in Range(ss[k])
    BY <1>9
  <2>2. c = C(k)
    BY <1>7, <2>1
  <2>3. QED
    BY <1>6, <2>2
<1>11. ASSUME r.name \notin Unquotable PROVE Passes(s)
  BY <1>7, <1>8, <1>9, <1>11 DEF AllPass
<1>12. QED
  BY <1>9, <1>10, <1>11 DEF IsRibPart

\* libyang takes the calls for a rib by themselves if it can quote the name and
\* has the identity.
LEMMA RibPasses ==
  ASSUME NEW r \in Rib
  PROVE  /\ IsRibPart(RibCalls(r), r)
         /\ Passes(RibCalls(r)) <=>
              r.name \notin Unquotable /\ <<"address-family", r.address_family>> \notin Refused
<1>. DEFINE s0 == Call(RibBox(r), "name", r.name)
            s1 == Call(RibBox(r), "address-family", r.address_family)
            about == Call(RibBox(r), "description", r.description)
            s2 == If(r.description # None, about)
            s3 == RouteCalls(RibBox(r), "routes", r.routes, {})
            quotable == r.name \notin Unquotable
            known == <<"address-family", r.address_family>> \notin Refused
<1>1. RibCalls(r) = s0 \o (s1 \o s2 \o s3)
  BY DEF RibCalls, RibLeaves
<1>2. r.name \in Labels /\ r.description \in Optional(Texts)
  BY DEF Rib
<1>3. IsRibPart(s0, r) /\ (\A c \in Range(s0) : Last(c.path)[1] = "name")
      /\ (Passes(s0) <=> quotable)
  <2>1. <<"name", r.name>> \notin Refused
    BY <1>2, RoutingSchemaAssumption
  <2>2. QED
    BY <2>1, RibLeafCall DEF Containers
<1>4. IsRibPart(s1, r) /\ (\A c \in Range(s1) : Last(c.path)[1] = "address-family")
      /\ (Passes(s1) <=> quotable /\ known)
  BY RibLeafCall DEF Containers
<1>5. IsRibPart(s2, r) /\ (\A c \in Range(s2) : Last(c.path)[1] = "description")
      /\ (quotable => Passes(s2))
  <2>1. CASE r.description = None
    <3>1. s2 = <<>>
      BY <2>1 DEF If
    <3>2. QED
      BY <3>1, NoElement, PassesNone DEF IsRibPart
  <2>2. CASE r.description # None
    <3>1. s2 = about
      BY <2>2 DEF If
    <3>2. <<"description", r.description>> \notin Refused
      BY <1>2, <2>2, RoutingSchemaAssumption DEF Optional
    <3>3. QED
      BY <3>1, <3>2, RibLeafCall DEF Containers
  <2>3. QED
    BY <2>1, <2>2
<1>6. IsRibPart(s3, r) /\ (\A c \in Range(s3) : Last(c.path)[1] = "route-preference")
      /\ (quotable => Passes(s3))
  BY RibRouteCalls
<1>. HIDE DEF s0, s1, s2, s3, quotable, known
<1>7. /\ IsRibPart(s1 \o s2, r) /\ Range(s1 \o s2) = Range(s1) \union Range(s2)
      /\ Passes(s1 \o s2) <=> quotable /\ known
  <2>1. NoClash(s1, s2)
    BY <1>4, <1>5, OtherLeaves
  <2>2. Passes(s1 \o s2) <=> Passes(s1) /\ Passes(s2) /\ NoClash(s1, s2)
    BY <1>4, <1>5, PassesConcat DEF IsRibPart
  <2>3. QED
    BY <1>4, <1>5, <2>1, <2>2, RibParts
<1>8. /\ IsRibPart(s1 \o s2 \o s3, r)
      /\ Range(s1 \o s2 \o s3) = Range(s1) \union Range(s2) \union Range(s3)
      /\ Passes(s1 \o s2 \o s3) <=> quotable /\ known
  <2>1. \A c \in Range(s1 \o s2), d \in Range(s3) :
          Last(d.path)[1] # "name" /\ Last(d.path)[1] # Last(c.path)[1]
    BY <1>4, <1>5, <1>6, <1>7
  <2>2. NoClash(s1 \o s2, s3)
    BY <1>6, <1>7, <2>1, OtherLeaves
  <2>3. Passes(s1 \o s2 \o s3) <=> Passes(s1 \o s2) /\ Passes(s3) /\ NoClash(s1 \o s2, s3)
    BY <1>6, <1>7, PassesConcat DEF IsRibPart
  <2>4. QED
    BY <1>6, <1>7, <2>2, <2>3, RibParts
<1>9. /\ IsRibPart(s0 \o (s1 \o s2 \o s3), r)
      /\ Passes(s0 \o (s1 \o s2 \o s3)) <=> quotable /\ known
  <2>1. \A c \in Range(s0), d \in Range(s1 \o s2 \o s3) :
          Last(d.path)[1] # "name" /\ Last(d.path)[1] # Last(c.path)[1]
    BY <1>3, <1>4, <1>5, <1>6, <1>8
  <2>2. NoClash(s0, s1 \o s2 \o s3)
    BY <1>3, <1>8, <2>1, OtherLeaves
  <2>3. Passes(s0 \o (s1 \o s2 \o s3))
          <=> Passes(s0) /\ Passes(s1 \o s2 \o s3) /\ NoClash(s0, s1 \o s2 \o s3)
    BY <1>3, <1>8, PassesConcat DEF IsRibPart
  <2>4. QED
    BY <1>3, <1>8, <2>2, <2>3, RibParts
<1>10. QED
  BY <1>1, <1>9 DEF quotable, known

\* The calls for two ribs clash if they have the same name: both make its entry.
LEMMA RibsClash ==
  ASSUME NEW r \in Rib, NEW q \in Rib
  PROVE  NoClash(RibCalls(r), RibCalls(q)) <=> r.name # q.name
<1>1. ASSUME r.name = q.name PROVE ~NoClash(RibCalls(r), RibCalls(q))
  <2>. DEFINE c == PathCall(RibName(r), r.name, {})
  <2>1. RibBox(r) = RibBox(q)
    BY <1>1 DEF RibBox
  <2>2. ASSUME NEW p \in Rib
        PROVE  PathCall(RibName(p), p.name, {}) \in Range(RibCalls(p))
    <3>. DEFINE s0 == Call(RibBox(p), "name", p.name)
                rest == RibLeaves(p)
                d == PathCall(RibName(p), p.name, {})
    <3>1. s0 = <<d>>
      BY DEF Call, RibName
    <3>2. IsSeq(s0) /\ Range(s0) = {d}
      BY <3>1, OneElement
    <3>3. IsSeq(rest)
      <4>. DEFINE s1 == Call(RibBox(p), "address-family", p.address_family)
                  about == Call(RibBox(p), "description", p.description)
                  s2 == If(p.description # None, about)
                  s3 == RouteCalls(RibBox(p), "routes", p.routes, {})
      <4>1. rest = s1 \o s2 \o s3
        BY DEF RibLeaves
      <4>2. IsSeq(s1) /\ IsSeq(about) /\ IsSeq(s3)
        BY OneElement, RibRouteCalls DEF Call, IsRibPart
      <4>. HIDE DEF s1, about, s3
      <4>3. IsSeq(s2)
        BY <4>2, IfFacts
      <4>. HIDE DEF s2
      <4>4. IsSeq(s1 \o s2)
        BY <4>2, <4>3, Concatenation
      <4>5. QED
        BY <4>1, <4>2, <4>4, Concatenation
    <3>4. RibCalls(p) = s0 \o rest
      BY DEF RibCalls
    <3>. HIDE DEF s0, rest, d
    <3>5. Range(s0 \o rest) = Range(s0) \union Range(rest)
      BY <3>2, <3>3, Concatenation
    <3>6. QED
      BY <3>2, <3>4, <3>5 DEF d
  <2>3. c \in Range(RibCalls(r)) /\ c \in Range(RibCalls(q))
    BY <1>1, <2>1, <2>2 DEF RibName
  <2>4. c.path \in PathsOf(c)
    BY <2>3, RibPasses, PathsOfCall DEF IsRibPart, IsRibCall
  <2>5. QED
    BY <2>3, <2>4 DEF NoClash
<1>2. ASSUME r.name # q.name PROVE NoClash(RibCalls(r), RibCalls(q))
  <2>1. ASSUME NEW c \in Range(RibCalls(r)), NEW d \in Range(RibCalls(q)),
               d.path \in PathsOf(c)
        PROVE  FALSE
    <3>1. IsRibCall(c, r) /\ IsRibCall(d, q)
      BY RibPasses DEF IsRibPart
    <3>2. d.path = RibName(r) \/ d.path = c.path
      BY <2>1, <3>1 DEF IsRibCall
    <3>3. d.path[2] = Entry("rib", <<r.name>>)
      BY <3>1, <3>2, KeyLeafOfRib DEF IsRibCall
    <3>4. Entry("rib", <<q.name>>) = Entry("rib", <<r.name>>)
      BY <3>1, <3>3 DEF IsRibCall
    <3>5. QED
      BY <1>2, <3>4, SamePath
  <2>2. QED
    BY <2>1 DEF NoClash
<1>3. QED
  BY <1>1, <1>2

LEMMA RibsPass ==
  ASSUME NEW ribs \in Seq(Rib),
         NEW s, s = FlattenSeq([k \in DOMAIN ribs |-> RibCalls(ribs[k])])
  PROVE  /\ IsSeq(s) /\ \A c \in Range(s) : IsPath(c.path) /\ c.path[1] = Segment("ribs")
         /\ Passes(s) <=>
              /\ IsInjective([k \in DOMAIN ribs |-> ribs[k].name])
              /\ \A r \in Range(ribs) : /\ r.name \notin Unquotable
                                        /\ <<"address-family", r.address_family>> \notin Refused
<1>. DEFINE n == Len(ribs)
            rr == [k \in 1..n |-> RibCalls(ribs[k])]
            Good(r) == /\ r.name \notin Unquotable
                       /\ <<"address-family", r.address_family>> \notin Refused
<1>1. n \in Nat /\ DOMAIN ribs = 1..n /\ \A k \in 1..n : ribs[k] \in Rib
  OBVIOUS
<1>2. Range(ribs) = {ribs[k] : k \in 1..n}
  BY <1>1 DEF Range
<1>3. s = FlattenSeq(rr)
  BY <1>1
<1>4. DOMAIN rr = 1..n /\ rr = [k \in 1..n |-> rr[k]] /\ \A k \in 1..n : rr[k] = RibCalls(ribs[k])
  OBVIOUS
<1>. HIDE DEF rr, n
<1>5. ASSUME NEW k \in 1..n
      PROVE  IsRibPart(rr[k], ribs[k]) /\ (Passes(rr[k]) <=> Good(ribs[k]))
  BY <1>1, <1>4, RibPasses
<1>. HIDE DEF Good
<1>6. /\ IsSeq(s) /\ Range(s) = UNION {Range(rr[k]) : k \in 1..n}
      /\ Passes(s) <=> AllPass(rr, n)
  <2>1. \A k \in 1..n : IsSeq(rr[k])
    BY <1>5 DEF IsRibPart
  <2>2. QED
    BY <1>1, <1>3, <1>4, <2>1, PassesFlat
<1>7. ASSUME NEW c \in Range(s)
      PROVE  IsPath(c.path) /\ c.path[1] = Segment("ribs")
  <2>1. PICK k \in 1..n : c \in Range(rr[k])
    BY <1>6
  <2>2. QED
    BY <1>5, <2>1 DEF IsRibPart, IsRibCall
<1>8. (\A k \in 1..n : Passes(rr[k])) <=> \A r \in Range(ribs) : Good(r)
  BY <1>2, <1>5
<1>9. (\A j, k \in 1..n : j < k => NoClash(rr[j], rr[k]))
        <=> IsInjective([k \in DOMAIN ribs |-> ribs[k].name])
  <2>. DEFINE names == [k \in 1..n |-> ribs[k].name]
  <2>1. [k \in DOMAIN ribs |-> ribs[k].name] = names
    BY <1>1
  <2>2. DOMAIN names = 1..n /\ \A k \in 1..n : names[k] = ribs[k].name
    OBVIOUS
  <2>. HIDE DEF names
  <2>3. \A j, k \in 1..n : NoClash(rr[j], rr[k]) <=> names[j] # names[k]
    BY <1>1, <1>4, <2>2, RibsClash
  <2>4. (\A j, k \in 1..n : j < k => names[j] # names[k])
          <=> \A j, k \in 1..n : names[j] = names[k] => j = k
    <3>1. \A j, k \in 1..n : j = k \/ j < k \/ k < j
      BY <1>1
    <3>2. \A j, k \in 1..n : j < k => j # k
      BY <1>1
    <3>3. QED
      BY <3>1, <3>2
  <2>5. IsInjective(names) <=> \A j, k \in 1..n : names[j] = names[k] => j = k
    BY <2>2 DEF IsInjective
  <2>6. QED
    BY <2>1, <2>3, <2>4, <2>5
<1>10. QED
  BY <1>6, <1>7, <1>8, <1>9 DEF AllPass, Good

-----------------------------------------------------------------------------
(* The other calls *)

\* The call for a control-plane-protocol makes both of its keys, so libyang does
\* not take the second one, which is for the name.
LEMMA CppClash ==
  ASSUME NEW p \in Cpp
  PROVE  IsSeq(CppCalls(p)) /\ ~Passes(CppCalls(p))
<1>. DEFINE e == Entry("control-plane-protocol", <<p.type, p.name>>)
            box == << Segment("control-plane-protocols"), e >>
            c == PathCall(Append(box, Segment("type")), p.type, {})
            d == PathCall(Append(box, Segment("name")), p.name, {})
            s1 == Call(box, "type", p.type)
            s2 == Call(box, "name", p.name)
            about == Call(box, "description", p.description)
            s3 == If(p.description # None, about)
            s4 == RouteCalls(box, "static-routes", p.static_routes, {"static-routes/route"})
<1>1. CppCalls(p) = s1 \o s2 \o s3 \o s4 /\ s1 = <<c>> /\ s2 = <<d>>
  BY DEF CppCalls, Call
<1>2. AllRouting(s4) /\ AllRouting(s3)
  <2>1. /\ p.type \in CppTypes /\ p.name \in Labels /\ p.description \in Optional(Texts)
        /\ p.static_routes \in Seq(Optional(Prefs))
    BY DEF Cpp
  <2>2. IsBox(box)
    BY <2>1, CppSegment, TwoSegments DEF Containers
  <2>. HIDE DEF box
  <2>3. QED
    BY <2>1, <2>2, RouteCallsTyped, DescriptionTyped
<1>3. IsSegment(e) /\ <<"name", p.name>> \in Range(KeyLeaves(e))
  BY CppSegment DEF Cpp, IsContainer
<1>4. /\ IsSeq(box) /\ Len(box) = 2 /\ box[2] = e /\ Range(box) = {Segment("control-plane-protocols"), e}
  <2>. DEFINE one == <<Segment("control-plane-protocols")>>
  <2>1. box = Append(one, e)
    BY TwoElements
  <2>2. IsSeq(one) /\ Len(one) = 1 /\ Range(one) = {Segment("control-plane-protocols")}
    BY OneElement
  <2>. HIDE DEF e, one, box
  <2>3. box[2] = e
    BY <2>1, <2>2, AppendToOne
  <2>4. IsSeq(box) /\ Len(box) = Len(one) + 1 /\ Range(box) = Range(one) \union {e}
    BY <2>1, <2>2, Appended
  <2>5. Len(box) = 2
    BY <2>2, <2>4
  <2>6. QED
    BY <2>2, <2>3, <2>4, <2>5
<1>. HIDE DEF e, box, s1, s2, s3, s4
<1>5. d.path \in PathsOf(c)
  <2>. DEFINE path == Append(box, Segment("type"))
  <2>1. c.path = path /\ d.path = Append(box, Segment("name"))
    BY DEF PathCall
  <2>2. /\ IsSegment(Segment("type")) /\ IsSegment(Segment("control-plane-protocols"))
    BY InterfaceSegments
  <2>3. /\ IsSeq(path) /\ path # <<>> /\ Len(path) = 3 /\ Front(path) = box /\ path[2] = e
        /\ Range(path) = Range(box) \union {Segment("type")}
    <3>1. /\ IsSeq(path) /\ path # <<>> /\ Len(path) = Len(box) + 1 /\ Front(path) = box
          /\ \A k \in 1..Len(box) : path[k] = box[k]
          /\ Range(path) = Range(box) \union {Segment("type")}
      BY <1>4, Appended
    <3>2. Len(path) = 3 /\ 2 \in 1..Len(box)
      BY <1>4, <3>1
    <3>3. QED
      BY <1>4, <3>1, <3>2
  <2>. HIDE DEF path, c, d
  <2>4. IsPath(c.path) /\ DOMAIN c.path = 1..3 /\ 2 \in DOMAIN c.path
    BY <1>3, <1>4, <2>1, <2>2, <2>3, SeqFacts DEF IsPath
  <2>5. Above(c, 2) = box
    <3>1. PICK i \in 1..Len(path) : i = Len(path) /\ i - 1 = 2
      BY <2>3
    <3>2. SubSeq(path, 1, i) = path /\ Front(SubSeq(path, 1, i)) = SubSeq(path, 1, i - 1)
      BY <2>3, <3>1, Prefix
    <3>3. SubSeq(path, 1, 2) = box
      BY <2>3, <3>1, <3>2
    <3>4. QED
      BY <2>1, <3>3 DEF Above
  <2>6. Append(Above(c, 2), Segment("name")) \in PathsOf(c)
    <3>. DEFINE key == <<"name", p.name>>
    <3>1. key \in Range(KeyLeaves(c.path[2])) /\ key[1] = "name"
      BY <1>3, <2>1, <2>3
    <3>. HIDE DEF key
    <3>2. Append(Above(c, 2), Segment(key[1])) \in PathsOf(c)
      BY <2>4, <3>1, PathsOfCall
    <3>3. QED
      BY <3>1, <3>2
  <2>7. QED
    BY <2>1, <2>5, <2>6
<1>. HIDE DEF c, d
<1>6. IsSeq(s1) /\ IsSeq(s2) /\ Range(s1) = {c} /\ Range(s2) = {d}
  BY <1>1, OneElement
<1>7. ~NoClash(s1, s2)
  BY <1>5, <1>6 DEF NoClash
<1>8. IsSeq(s1 \o s2) /\ ~Passes(s1 \o s2)
  BY <1>6, <1>7, PassesConcat, Concatenation
<1>. DEFINE first == s1 \o s2
<1>. HIDE DEF first
<1>9. IsSeq(s3) /\ IsSeq(s4) /\ IsSeq(first) /\ ~Passes(first)
  BY <1>2, <1>8 DEF AllRouting, first
<1>10. IsSeq(first \o s3) /\ ~Passes(first \o s3)
  BY <1>9, PassesConcat, Concatenation
<1>11. IsSeq((first \o s3) \o s4) /\ ~Passes((first \o s3) \o s4)
  BY <1>9, <1>10, PassesConcat, Concatenation
<1>12. QED
  BY <1>1, <1>11 DEF first

\* Every name of the leaf-list is taken: the instances have different numbers.
LEMMA NameCallsPass ==
  ASSUME NEW names \in Seq(Names),
         NEW s, s = [k \in DOMAIN names |->
                       PathCall(<<Segment("interfaces"), Instance("interface", k)>>, names[k], {})]
  PROVE  /\ IsSeq(s) /\ Passes(s)
         /\ \A c \in Range(s) : IsPath(c.path) /\ c.path[1] = Segment("interfaces")
<1>. DEFINE n == Len(names)
            top == Segment("interfaces")
            one == <<top>>
            none == <<>>
            Path(k) == Append(one, Instance("interface", k))
            C(k) == PathCall(Path(k), names[k], {})
<1>1. n \in Nat /\ DOMAIN names = 1..n /\ \A k \in 1..n : names[k] \in Names
  OBVIOUS
<1>2. \A k : <<top, Instance("interface", k)>> = Path(k)
  BY TwoElements
<1>3. s = [k \in 1..n |-> C(k)]
  BY <1>1, <1>2
<1>4. DOMAIN s = 1..n /\ s = [k \in 1..n |-> s[k]] /\ \A k \in 1..n : s[k] = C(k)
  BY <1>3
<1>5. IsSeq(s) /\ Len(s) = n
  BY <1>1, <1>4, FunctionIsSeq
<1>6. IsSegment(top) /\ Range(KeyLeaves(top)) = {}
  BY InterfaceSegments
<1>7. /\ IsSeq(one) /\ Len(one) = 1 /\ one[1] = top /\ Range(one) = {top}
      /\ one = Append(none, top) /\ IsSeq(none) /\ Range(none) = {}
  BY OneElement, NoElement
<1>. HIDE DEF none
<1>8. ASSUME NEW p \in PathsOf(PathCall(one, None, {}))
      PROVE  p = one
  <2>1. p \in PathsOf(PathCall(none, None, {})) \/ p = Append(none, top)
    BY <1>6, <1>7, LongerPaths
  <2>2. PathsOf(PathCall(none, None, {})) = {}
    BY NoPaths DEF none
  <2>3. QED
    BY <1>7, <2>1, <2>2
<1>. HIDE DEF one, top, n
<1>9. ASSUME NEW k
      PROVE  /\ C(k).path = Path(k) /\ C(k).value = names[k] /\ C(k).needs = {}
             /\ IsPath(Path(k)) /\ Path(k)[1] = top /\ Len(Path(k)) = 2
             /\ Last(Path(k)) = Instance("interface", k)
             /\ Range(Path(k)) = {top, Instance("interface", k)}
             /\ \A p \in PathsOf(C(k)) : p = one \/ p = Path(k)
  <2>. DEFINE i == Instance("interface", k)
              path == Append(one, i)
  <2>1. C(k).path = Path(k) /\ C(k).value = names[k] /\ C(k).needs = {}
    BY DEF PathCall
  <2>2. IsSegment(i) /\ Range(KeyLeaves(i)) = {}
    BY PlainContainer
  <2>. HIDE DEF i
  <2>3. \A p \in PathsOf(PathCall(path, names[k], {})) : p = one \/ p = path
    BY <1>6, <1>7, <1>8, <2>2, LongerPaths
  <2>4. /\ IsSeq(path) /\ path # <<>> /\ Len(path) = Len(one) + 1 /\ Last(path) = i
        /\ Range(path) = Range(one) \union {i}
    BY <1>7, Appended
  <2>5. path[1] = top
    BY <1>7, AppendToOne
  <2>. HIDE DEF path
  <2>6. Range(path) = {top, i} /\ Len(path) = 2
    BY <1>7, <2>4
  <2>7. IsPath(path)
    BY <1>6, <2>2, <2>4, <2>6 DEF IsPath
  <2>8. QED
    BY <2>1, <2>3, <2>4, <2>5, <2>6, <2>7 DEF path, i
<1>. HIDE DEF C, Path
<1>10. ASSUME NEW k \in 1..n PROVE ~Rejects(C(k), resolves)
  <2>. DEFINE i == Instance("interface", k)
  <2>1. i[1] = "interface" /\ Range(KeyLeaves(i)) = {}
    BY PlainContainer DEF Instance
  <2>2. <<"interface", names[k]>> \notin Refused
    BY <1>1, RoutingSchemaAssumption
  <2>. HIDE DEF i
  <2>3. Range(C(k).path) = {top, i} /\ Last(C(k).path) = i /\ C(k).value = names[k] /\ C(k).needs = {}
    BY <1>9 DEF i
  <2>4. QED
    BY <1>6, <2>1, <2>2, <2>3 DEF Rejects
<1>11. ASSUME NEW j \in 1..n, NEW k \in 1..n, j < k PROVE C(k).path \notin PathsOf(C(j))
  <2>1. j # k
    BY <1>1, <1>11
  <2>2. Path(k) # one
    BY <1>7, <1>9
  <2>3. Path(k) # Path(j)
    <3>1. Instance("interface", k) # Instance("interface", j)
      BY <2>1 DEF Instance
    <3>2. QED
      BY <1>9, <3>1
  <2>4. QED
    BY <1>9, <2>2, <2>3
<1>12. Range(s) = {s[k] : k \in 1..n}
  BY <1>4 DEF Range
<1>13. Passes(s)
  <2>1. Taken(s)
    BY <1>4, <1>10, <1>12 DEF Taken
  <2>2. Fresh(s)
    BY <1>4, <1>11 DEF Fresh
  <2>3. QED
    BY <2>1, <2>2 DEF Passes
<1>14. ASSUME NEW c \in Range(s) PROVE IsPath(c.path) /\ c.path[1] = top
  <2>1. PICK k \in 1..n : c = s[k]
    BY <1>12
  <2>2. c = C(k)
    BY <1>4, <2>1
  <2>3. QED
    BY <1>9, <2>2
<1>15. QED
  BY <1>5, <1>13, <1>14 DEF top

LEMMA RouterIdPasses ==
  ASSUME NEW id,
         NEW s, s = If(id # None, << PathCall(<<Segment("router-id")>>, id, {"router-id"}) >>)
  PROVE  /\ IsSeq(s)
         /\ \A c \in Range(s) : IsPath(c.path) /\ c.path[1] = Segment("router-id")
         /\ Passes(s) <=>
              (id # None => "router-id" \in resolves /\ <<"router-id", id>> \notin Refused)
<1>. DEFINE top == Segment("router-id")
            one == <<top>>
            c == PathCall(one, id, {"router-id"})
<1>1. c.path = one /\ c.value = id /\ c.needs = {"router-id"}
  BY DEF PathCall
<1>2. IsSegment(top) /\ Range(KeyLeaves(top)) = {} /\ top[1] = "router-id"
  BY InterfaceSegments DEF Segment
<1>3. IsSeq(one) /\ Range(one) = {top} /\ one[1] = top /\ Len(one) = 1 /\ one # <<>>
  BY OneElement
<1>4. Last(one) = top
  BY <1>3, FrontAndLast
<1>5. s = If(id # None, <<c>>)
  OBVIOUS
<1>. HIDE DEF top, one, c
<1>6. Rejects(c, resolves) <=> "router-id" \notin resolves \/ <<"router-id", id>> \in Refused
  BY <1>1, <1>2, <1>3, <1>4 DEF Rejects
<1>7. Passes(s) <=> (id # None => ~Rejects(c, resolves))
  BY <1>5, PassesIf
<1>8. IsPath(c.path) /\ c.path[1] = top
  BY <1>1, <1>2, <1>3 DEF IsPath
<1>9. IsSeq(s) /\ Range(s) \subseteq {c}
  <2>1. IsSeq(<<c>>) /\ Range(<<c>>) = {c}
    BY OneElement
  <2>2. IsSeq(If(id # None, <<c>>)) /\ Range(If(id # None, <<c>>)) \subseteq {c}
    BY <2>1, IfFacts
  <2>3. QED
    BY <1>5, <2>2
<1>10. QED
  BY <1>6, <1>7, <1>8, <1>9 DEF top

\* libyang takes the calls of a model just if it can hold it.
LEMMA PassesWritable ==
  ASSUME NEW m \in Routing
  PROVE  Passes(RoutingCalls(m)) <=> Writable(m)
<1>. DEFINE s1 == If(m.router_id # None,
                     << PathCall(<<Segment("router-id")>>, m.router_id, {"router-id"}) >>)
            s2 == [k \in DOMAIN m.interfaces |->
                     PathCall(<<Segment("interfaces"), Instance("interface", k)>>,
                              m.interfaces[k], {})]
            pp == [k \in DOMAIN m.cpps |-> CppCalls(m.cpps[k])]
            s3 == FlattenSeq(pp)
            s4 == FlattenSeq([k \in DOMAIN m.ribs |-> RibCalls(m.ribs[k])])
            Id == m.router_id # None =>
                    "router-id" \in resolves /\ <<"router-id", m.router_id>> \notin Refused
            Ribs == /\ IsInjective([k \in DOMAIN m.ribs |-> m.ribs[k].name])
                    /\ \A r \in Range(m.ribs) :
                         /\ r.name \notin Unquotable
                         /\ <<"address-family", r.address_family>> \notin Refused
<1>1. m.interfaces \in Seq(Names) /\ m.cpps \in Seq(Cpp) /\ m.ribs \in Seq(Rib)
  BY DEF Routing
<1>2. RoutingCalls(m) = ((s1 \o s2) \o s3) \o s4
  BY DEF RoutingCalls
<1>3. Writable(m) <=> Id /\ m.cpps = <<>> /\ Ribs
  BY DEF Writable
<1>4. /\ IsSeq(s1) /\ \A c \in Range(s1) : IsPath(c.path) /\ c.path[1] = Segment("router-id")
      /\ Passes(s1) <=> Id
  BY RouterIdPasses
<1>5. /\ IsSeq(s2) /\ \A c \in Range(s2) : IsPath(c.path) /\ c.path[1] = Segment("interfaces")
      /\ Passes(s2)
  BY <1>1, NameCallsPass
<1>6. /\ IsSeq(s4) /\ \A c \in Range(s4) : IsPath(c.path) /\ c.path[1] = Segment("ribs")
      /\ Passes(s4) <=> Ribs
  BY <1>1, RibsPass
<1>7. /\ IsSeq(s3)
      /\ m.cpps = <<>> => Passes(s3) /\ Range(s3) = {}
      /\ m.cpps # <<>> => ~Passes(s3)
  <2>. DEFINE n == Len(m.cpps)
  <2>1. n \in Nat /\ DOMAIN m.cpps = 1..n /\ (m.cpps = <<>> <=> n = 0)
        /\ \A k \in 1..n : m.cpps[k] \in Cpp
    BY <1>1
  <2>. HIDE DEF n
  <2>2. DOMAIN pp = 1..n /\ pp = [k \in 1..n |-> pp[k]] /\ \A k \in 1..n : pp[k] = CppCalls(m.cpps[k])
    BY <2>1
  <2>. HIDE DEF pp
  <2>3. \A k \in 1..n : IsSeq(pp[k]) /\ ~Passes(pp[k])
    BY <2>1, <2>2, CppClash
  <2>4. /\ IsSeq(s3) /\ Range(s3) = UNION {Range(pp[k]) : k \in 1..n}
        /\ Passes(s3) <=> AllPass(pp, n)
    BY <2>1, <2>2, <2>3, PassesFlat
  <2>5. ASSUME n = 0 PROVE Passes(s3) /\ Range(s3) = {}
    BY <2>4, <2>5 DEF AllPass
  <2>6. ASSUME n # 0 PROVE ~Passes(s3)
    <3>1. 1 \in 1..n
      BY <2>1, <2>6
    <3>2. QED
      BY <2>3, <2>4, <3>1 DEF AllPass
  <2>7. QED
    BY <2>1, <2>4, <2>5, <2>6
<1>. HIDE DEF s1, s2, s3, s4, Id, Ribs
<1>8. Segment("router-id") # Segment("interfaces") /\ Segment("router-id") # Segment("ribs")
      /\ Segment("interfaces") # Segment("ribs")
  BY SamePath
<1>9. /\ IsSeq(s1 \o s2) /\ Range(s1 \o s2) = Range(s1) \union Range(s2)
      /\ Passes(s1 \o s2) <=> Id
  <2>1. NoClash(s1, s2)
    BY <1>4, <1>5, <1>8, OtherFirst
  <2>2. QED
    BY <1>4, <1>5, <2>1, PassesConcat, Concatenation
<1>. DEFINE first == s1 \o s2
<1>. HIDE DEF first
<1>10. IsSeq(first) /\ Range(first) = Range(s1) \union Range(s2) /\ (Passes(first) <=> Id)
  BY <1>9 DEF first
<1>11. /\ IsSeq(first \o s3) /\ Range(first \o s3) = Range(first) \union Range(s3)
       /\ Passes(first \o s3) <=> Id /\ m.cpps = <<>>
  <2>1. m.cpps = <<>> => NoClash(first, s3)
    BY <1>7 DEF NoClash
  <2>2. Passes(first \o s3) <=> Passes(first) /\ Passes(s3) /\ NoClash(first, s3)
    BY <1>7, <1>10, PassesConcat
  <2>3. QED
    BY <1>7, <1>10, <2>1, <2>2, Concatenation
<1>12. Passes((first \o s3) \o s4) <=> Id /\ m.cpps = <<>> /\ Ribs
  <2>. DEFINE all == first \o s3
  <2>1. IsSeq(all) /\ (Passes(all) <=> Id /\ m.cpps = <<>>)
        /\ (m.cpps = <<>> => Range(all) = Range(s1) \union Range(s2))
    BY <1>7, <1>10, <1>11
  <2>. HIDE DEF all
  <2>2. ASSUME m.cpps = <<>> PROVE NoClash(all, s4)
    <3>1. \A c \in Range(all) : IsPath(c.path) /\ c.path[1] # Segment("ribs")
      BY <1>4, <1>5, <1>8, <2>1, <2>2
    <3>2. QED
      BY <1>6, <3>1, OtherFirst
  <2>3. Passes(all \o s4) <=> Passes(all) /\ Passes(s4) /\ NoClash(all, s4)
    BY <1>6, <2>1, PassesConcat
  <2>4. Passes(all \o s4) <=> Id /\ m.cpps = <<>> /\ Ribs
    BY <1>6, <2>1, <2>2, <2>3
  <2>5. QED
    BY <2>4 DEF all
<1>13. QED
  BY <1>2, <1>3, <1>12 DEF first

-----------------------------------------------------------------------------
(* What is in the tree of a model *)

RibsPath == <<Segment("ribs")>>
RouteBox(r) == Append(RibBox(r), Segment("routes"))
RouteOf(r, k) == RoutePath(RibBox(r), "routes", k)
NamesPath == <<Segment("interfaces")>>
NamePath(k) == Append(NamesPath, Instance("interface", k))

LEMMA OneMore ==
  ASSUME NEW path, IsSeq(path), NEW n \in Nat, Len(path) = n, NEW s
  PROVE  /\ IsSeq(Append(path, s)) /\ Len(Append(path, s)) = n + 1 /\ Append(path, s) # <<>>
         /\ Front(Append(path, s)) = path /\ Last(Append(path, s)) = s
         /\ (\A x \in Range(path) : IsSegment(x)) /\ IsSegment(s) =>
              \A x \in Range(Append(path, s)) : IsSegment(x)
<1>. DEFINE longer == Append(path, s)
<1>1. /\ IsSeq(longer) /\ Len(longer) = Len(path) + 1 /\ longer # <<>>
      /\ Front(longer) = path /\ Last(longer) = s
      /\ Range(longer) = Range(path) \union {s}
  BY Appended
<1>. HIDE DEF longer
<1>2. /\ IsSeq(longer) /\ Len(longer) = n + 1 /\ longer # <<>>
      /\ Front(longer) = path /\ Last(longer) = s
  BY <1>1
<1>3. (\A x \in Range(path) : IsSegment(x)) /\ IsSegment(s) =>
        \A x \in Range(longer) : IsSegment(x)
  BY <1>1
<1>4. QED
  BY <1>2, <1>3 DEF longer

LEMMA TopPaths ==
  \A node :
    /\ IsSeq(<<Segment(node)>>) /\ Len(<<Segment(node)>>) = 1
    /\ \A s \in Range(<<Segment(node)>>) : IsSegment(s)
    /\ <<Segment(node)>> = Append(<<>>, Segment(node))
    /\ Last(<<Segment(node)>>) = Segment(node)
    /\ IsPath(<<Segment(node)>>)
<1>1. ASSUME NEW s, IsSegment(s)
      PROVE  /\ IsSeq(<<s>>) /\ Len(<<s>>) = 1 /\ Range(<<s>>) = {s} /\ <<s>> = Append(<<>>, s)
             /\ Last(<<s>>) = s
  <2>1. <<s>> = Append(<<>>, s) /\ IsSeq(<<>>)
    BY NoElement
  <2>2. IsSeq(<<s>>) /\ Len(<<s>>) = 1 /\ Range(<<s>>) = {s}
    BY OneElement
  <2>3. Last(Append(<<>>, s)) = s
    BY <2>1, Appended
  <2>4. QED
    BY <2>1, <2>2, <2>3
<1>2. ASSUME NEW node PROVE IsSegment(Segment(node))
  BY InterfaceSegments
<1>. DEFINE top(node) == <<Segment(node)>>
<1>3. ASSUME NEW node
      PROVE  /\ IsSeq(top(node)) /\ Len(top(node)) = 1 /\ Range(top(node)) = {Segment(node)}
             /\ top(node) = Append(<<>>, Segment(node))
             /\ Last(top(node)) = Segment(node)
  BY <1>1, <1>2
<1>. HIDE DEF top
<1>4. ASSUME NEW node
      PROVE  (\A s \in Range(top(node)) : IsSegment(s)) /\ IsPath(top(node))
  <2>1. top(node) # <<>>
    BY <1>3, SeqFacts
  <2>2. QED
    BY <1>2, <1>3, <2>1 DEF IsPath
<1>5. QED
  BY <1>3, <1>4 DEF top

LEMMA RibShapes ==
  ASSUME NEW r \in Rib
  PROVE  /\ IsSeq(RibBox(r)) /\ Len(RibBox(r)) = 2
         /\ Front(RibBox(r)) = RibsPath /\ Last(RibBox(r)) = Entry("rib", <<r.name>>)
         /\ RibBox(r) = Append(RibsPath, Entry("rib", <<r.name>>))
         /\ \A s \in Range(RibBox(r)) : IsSegment(s)
         /\ \A s : /\ IsSeq(Append(RibBox(r), s)) /\ Len(Append(RibBox(r), s)) = 3
                   /\ Front(Append(RibBox(r), s)) = RibBox(r) /\ Last(Append(RibBox(r), s)) = s
         /\ IsSeq(RouteBox(r)) /\ Len(RouteBox(r)) = 3
         /\ Front(RouteBox(r)) = RibBox(r) /\ Last(RouteBox(r)) = Segment("routes")
         /\ \A s \in Range(RouteBox(r)) : IsSegment(s)
<1>. DEFINE box == RibBox(r)
            e == Entry("rib", <<r.name>>)
            list == RouteBox(r)
<1>1. box = Append(RibsPath, e)
  BY TwoElements DEF RibBox, RibsPath
<1>2. IsSeq(RibsPath) /\ Len(RibsPath) = 1 /\ \A s \in Range(RibsPath) : IsSegment(s)
  BY TopPaths DEF RibsPath
<1>3. IsSegment(e)
  BY RibSegment DEF IsContainer, Rib
<1>4. list = Append(box, Segment("routes")) /\ IsSegment(Segment("routes"))
  BY InterfaceSegments DEF RouteBox
<1>. HIDE DEF box, e, list
<1>0. 1 \in Nat /\ 1 + 1 = 2 /\ 2 \in Nat /\ 2 + 1 = 3
  OBVIOUS
<1>5. /\ IsSeq(box) /\ Len(box) = 2 /\ Front(box) = RibsPath /\ Last(box) = e
      /\ \A s \in Range(box) : IsSegment(s)
  BY <1>0, <1>1, <1>2, <1>3, OneMore
<1>6. ASSUME NEW s
      PROVE  /\ IsSeq(Append(box, s)) /\ Len(Append(box, s)) = 3
             /\ Front(Append(box, s)) = box /\ Last(Append(box, s)) = s
             /\ IsSegment(s) => \A x \in Range(Append(box, s)) : IsSegment(x)
  BY <1>0, <1>5, OneMore
<1>7. QED
  BY <1>1, <1>4, <1>5, <1>6 DEF box, e, list

LEMMA RouteShapes ==
  ASSUME NEW r \in Rib, NEW k
  PROVE  /\ RouteOf(r, k) = Append(RouteBox(r), Instance("route", k))
         /\ IsSeq(RouteOf(r, k)) /\ Len(RouteOf(r, k)) = 4
         /\ Front(RouteOf(r, k)) = RouteBox(r) /\ Last(RouteOf(r, k)) = Instance("route", k)
         /\ \A s \in Range(RouteOf(r, k)) : IsSegment(s)
         /\ \A s : /\ Len(Append(RouteOf(r, k), s)) = 5
                   /\ Front(Append(RouteOf(r, k), s)) = RouteOf(r, k)
                   /\ Last(Append(RouteOf(r, k), s)) = s
<1>. DEFINE list == RouteBox(r)
            i == Instance("route", k)
            path == RouteOf(r, k)
<1>1. path = Append(list, i)
  BY DEF RouteOf, RoutePath, RouteBox
<1>2. IsSeq(list) /\ Len(list) = 3 /\ \A s \in Range(list) : IsSegment(s)
  BY RibShapes
<1>3. IsSegment(i)
  BY PlainContainer
<1>. HIDE DEF list, i, path
<1>0. 3 \in Nat /\ 3 + 1 = 4 /\ 4 \in Nat /\ 4 + 1 = 5
  OBVIOUS
<1>4. /\ IsSeq(path) /\ Len(path) = 4 /\ Front(path) = list /\ Last(path) = i
      /\ \A s \in Range(path) : IsSegment(s)
  BY <1>0, <1>1, <1>2, <1>3, OneMore
<1>5. ASSUME NEW s
      PROVE  /\ Len(Append(path, s)) = 5
             /\ Front(Append(path, s)) = path /\ Last(Append(path, s)) = s
  BY <1>0, <1>4, OneMore
<1>6. QED
  BY <1>1, <1>4, <1>5 DEF list, i, path

LEMMA NameShapes ==
  ASSUME NEW k
  PROVE  /\ NamePath(k) = <<Segment("interfaces"), Instance("interface", k)>>
         /\ IsPath(NamePath(k)) /\ Len(NamePath(k)) = 2
         /\ Front(NamePath(k)) = NamesPath /\ Last(NamePath(k)) = Instance("interface", k)
<1>1. NamePath(k) = <<Segment("interfaces"), Instance("interface", k)>>
  BY TwoElements DEF NamePath, NamesPath
<1>2. IsSeq(NamesPath) /\ Len(NamesPath) = 1 /\ \A s \in Range(NamesPath) : IsSegment(s)
  BY TopPaths DEF NamesPath
<1>3. IsSegment(Instance("interface", k))
  BY PlainContainer
<1>. DEFINE i == Instance("interface", k)
            path == Append(NamesPath, i)
<1>0. 1 \in Nat /\ 1 + 1 = 2 /\ IsSegment(i)
  BY <1>3
<1>. HIDE DEF i
<1>4. /\ IsSeq(path) /\ path # <<>> /\ Len(path) = 2 /\ Front(path) = NamesPath /\ Last(path) = i
      /\ \A s \in Range(path) : IsSegment(s)
  BY <1>0, <1>2, OneMore
<1>5. QED
  BY <1>1, <1>4 DEF IsPath, NamePath, i

\* The nodes of a call for an entry of a list without keys.
LEMMA InstanceNode ==
  ASSUME NEW path, IsSeq(path), \A s \in Range(path) : IsSegment(s),
         NEW node, NEW k, NEW value, NEW needs,
         NEW n \in NodesOf(PathCall(Append(path, Instance(node, k)), value, needs))
  PROVE  \/ n \in NodesOf(PathCall(path, None, {}))
         \/ /\ n.path = Append(path, Instance(node, k))
            /\ n.value = Stored(<<node, value>>)
<1>. DEFINE i == Instance(node, k)
            longer == Append(path, i)
            new == [path |-> longer, value |-> Stored(<<node, value>>)]
<1>1. IsSegment(i) /\ Range(KeyLeaves(i)) = {} /\ i[1] = node
  BY PlainContainer DEF Instance
<1>. HIDE DEF i
<1>2. IsSeq(longer) /\ longer # <<>> /\ Last(longer) = i
  BY Appended
<1>3. n \in NodesOf(PathCall(path, None, {})) \/ n \in Range(NewNode(longer, value))
  BY <1>1, NodesOfLonger DEF i
<1>. HIDE DEF longer
<1>4. Range(NewNode(longer, value))
        = {[path |-> longer, value |-> Stored(<<Last(longer)[1], value>>)]}
          \union {KeyLeafNode(longer, key) : key \in Range(KeyLeaves(Last(longer)))}
  BY <1>1, <1>2, NewNodes
<1>5. Range(NewNode(longer, value)) = {new}
  BY <1>1, <1>2, <1>4
<1>6. QED
  BY <1>3, <1>5 DEF longer, i

-----------------------------------------------------------------------------
(* The calls for a rib, and the nodes they make *)

LeafCallOf(r, leaf, value) == PathCall(Append(RibBox(r), Segment(leaf)), value, {})
RouteCallOf(r, k) ==
  PathCall(Append(RouteOf(r, k), Segment("route-preference")), r.routes[k], {})

HasRoute(r, k) == k \in DOMAIN r.routes /\ r.routes[k] # None

IsCallOf(c, r) ==
  \/ c = LeafCallOf(r, "name", r.name)
  \/ c = LeafCallOf(r, "address-family", r.address_family)
  \/ r.description # None /\ c = LeafCallOf(r, "description", r.description)
  \/ \E k : HasRoute(r, k) /\ c = RouteCallOf(r, k)

LEMMA TheRouteCalls ==
  ASSUME NEW r \in Rib
  PROVE  LET ss == [k \in DOMAIN r.routes |-> If(r.routes[k] # None, <<RouteCallOf(r, k)>>)]
             s == RouteCalls(RibBox(r), "routes", r.routes, {}) IN
         /\ s = FlattenSeq(ss)
         /\ Len(r.routes) \in Nat /\ DOMAIN r.routes = 1..Len(r.routes)
         /\ DOMAIN ss = 1..Len(r.routes) /\ ss = [k \in 1..Len(r.routes) |-> ss[k]]
         /\ \A k \in 1..Len(r.routes) :
              /\ IsSeq(ss[k])
              /\ ss[k] = IF r.routes[k] # None THEN <<RouteCallOf(r, k)>> ELSE <<>>
              /\ \A c : c \in Range(ss[k]) <=> HasRoute(r, k) /\ c = RouteCallOf(r, k)
         /\ IsSeq(s) /\ \A c : c \in Range(s) <=> \E k : HasRoute(r, k) /\ c = RouteCallOf(r, k)
<1>. DEFINE routes == r.routes
            n == Len(routes)
            C(k) == RouteCallOf(r, k)
            ss == [k \in DOMAIN routes |-> If(routes[k] # None, <<C(k)>>)]
            s == RouteCalls(RibBox(r), "routes", routes, {})
<1>1. n \in Nat /\ DOMAIN routes = 1..n
  BY DEF Rib
<1>2. s = FlattenSeq(ss)
  BY DEF RouteCalls, RouteCallOf, RouteOf
<1>3. \A k \in 1..n : ss[k] = IF routes[k] # None THEN <<C(k)>> ELSE <<>>
  BY <1>1 DEF If
<1>4. DOMAIN ss = 1..n /\ ss = [k \in 1..n |-> ss[k]]
  BY <1>1
<1>. HIDE DEF ss, C, s
<1>5. ASSUME NEW k \in 1..n
      PROVE  IsSeq(ss[k]) /\ Range(ss[k]) = IF routes[k] # None THEN {C(k)} ELSE {}
  BY <1>3, OneElement, NoElement
<1>6. IsSeq(s) /\ Range(s) = UNION {Range(ss[k]) : k \in 1..n}
  <2>1. IsSeq(ss) /\ \A k \in DOMAIN ss : IsSeq(ss[k])
    BY <1>1, <1>4, <1>5, FunctionIsSeq
  <2>2. QED
    BY <1>2, <1>4, <2>1, Flattened
<1>7. ASSUME NEW k \in 1..n, NEW c
      PROVE  c \in Range(ss[k]) <=> HasRoute(r, k) /\ c = C(k)
  <2>1. HasRoute(r, k) <=> routes[k] # None
    BY <1>1 DEF HasRoute
  <2>2. CASE routes[k] # None
    <3>1. Range(ss[k]) = {C(k)}
      BY <1>5, <2>2
    <3>2. QED
      BY <2>1, <2>2, <3>1
  <2>3. CASE routes[k] = None
    <3>1. Range(ss[k]) = {}
      BY <1>5, <2>3
    <3>2. QED
      BY <2>1, <2>3, <3>1
  <2>4. QED
    BY <2>2, <2>3
<1>8. ASSUME NEW c PROVE c \in Range(s) <=> \E k : HasRoute(r, k) /\ c = C(k)
  <2>1. ASSUME NEW k, HasRoute(r, k) PROVE k \in 1..n
    BY <1>1, <2>1 DEF HasRoute
  <2>2. c \in Range(s) <=> \E k \in 1..n : c \in Range(ss[k])
    BY <1>6
  <2>3. QED
    BY <1>7, <2>1, <2>2
<1>9. QED
  BY <1>1, <1>2, <1>3, <1>4, <1>5, <1>6, <1>7, <1>8 DEF ss, C, s
LEMMA TheRibCalls ==
  ASSUME NEW r \in Rib
  PROVE  LET s0 == <<LeafCallOf(r, "name", r.name)>>
             s1 == <<LeafCallOf(r, "address-family", r.address_family)>>
             s2 == If(r.description # None, <<LeafCallOf(r, "description", r.description)>>)
             s3 == RouteCalls(RibBox(r), "routes", r.routes, {}) IN
         /\ RibCalls(r) = s0 \o (s1 \o s2 \o s3)
         /\ IsSeq(s0) /\ IsSeq(s1 \o s2) /\ IsSeq(s3) /\ IsSeq(s1 \o s2 \o s3)
         /\ Range(s0) = {LeafCallOf(r, "name", r.name)}
         /\ \A c : c \in Range(s1 \o s2) <=>
              \/ c = LeafCallOf(r, "address-family", r.address_family)
              \/ r.description # None /\ c = LeafCallOf(r, "description", r.description)
         /\ IsSeq(RibCalls(r)) /\ \A c : c \in Range(RibCalls(r)) <=> IsCallOf(c, r)
<1>. DEFINE c0 == LeafCallOf(r, "name", r.name)
            c1 == LeafCallOf(r, "address-family", r.address_family)
            c2 == LeafCallOf(r, "description", r.description)
            s0 == <<c0>>
            s1 == <<c1>>
            s2 == If(r.description # None, <<c2>>)
            s3 == RouteCalls(RibBox(r), "routes", r.routes, {})
<1>1. RibCalls(r) = s0 \o (s1 \o s2 \o s3)
  BY DEF RibCalls, RibLeaves, Call, LeafCallOf
<1>2. IsSeq(s3) /\ \A c : c \in Range(s3) <=> \E k : HasRoute(r, k) /\ c = RouteCallOf(r, k)
  BY TheRouteCalls
<1>3. IsSeq(s0) /\ Range(s0) = {c0} /\ IsSeq(s1) /\ Range(s1) = {c1}
  BY OneElement
<1>4. IsSeq(s2) /\ \A c : c \in Range(s2) <=> r.description # None /\ c = c2
  <2>1. IsSeq(<<c2>>) /\ Range(<<c2>>) = {c2} /\ IsSeq(<<>>) /\ Range(<<>>) = {}
    BY OneElement, NoElement
  <2>2. CASE r.description = None
    <3>1. s2 = <<>>
      BY <2>2 DEF If
    <3>2. QED
      BY <2>1, <2>2, <3>1
  <2>3. CASE r.description # None
    <3>1. s2 = <<c2>>
      BY <2>3 DEF If
    <3>2. QED
      BY <2>1, <2>3, <3>1
  <2>4. QED
    BY <2>2, <2>3
<1>. HIDE DEF s0, s1, s2, s3, c0, c1, c2
<1>5. IsSeq(s1 \o s2) /\ Range(s1 \o s2) = Range(s1) \union Range(s2)
  BY <1>3, <1>4, Concatenation
<1>6. IsSeq(s1 \o s2 \o s3) /\ Range(s1 \o s2 \o s3) = Range(s1 \o s2) \union Range(s3)
  BY <1>2, <1>5, Concatenation
<1>7. /\ IsSeq(s0 \o (s1 \o s2 \o s3))
      /\ Range(s0 \o (s1 \o s2 \o s3)) = Range(s0) \union Range(s1 \o s2 \o s3)
  BY <1>3, <1>6, Concatenation
<1>8. ASSUME NEW c
      PROVE  c \in Range(s1 \o s2) <=> c = c1 \/ (r.description # None /\ c = c2)
  <2>1. c \in Range(s1 \o s2) <=> c \in Range(s1) \/ c \in Range(s2)
    BY <1>5
  <2>2. c \in Range(s1) <=> c = c1
    BY <1>3
  <2>3. QED
    BY <1>4, <2>1, <2>2
<1>9. ASSUME NEW c PROVE c \in Range(RibCalls(r)) <=> IsCallOf(c, r)
  <2>1. c \in Range(RibCalls(r)) <=> c \in Range(s0) \/ c \in Range(s1 \o s2) \/ c \in Range(s3)
    BY <1>1, <1>6, <1>7
  <2>2. c \in Range(s0) <=> c = c0
    BY <1>3
  <2>3. c \in Range(s3) <=> \E k : HasRoute(r, k) /\ c = RouteCallOf(r, k)
    BY <1>2
  <2>4. QED
    BY <1>8, <2>1, <2>2, <2>3 DEF IsCallOf, c0, c1, c2
<1>10. QED
  BY <1>1, <1>2, <1>3, <1>5, <1>6, <1>7, <1>8, <1>9 DEF s0, s1, s2, s3, c0, c1, c2

\* The nodes that belong to a rib.
MadeRoute(n, r) ==
  \E k : HasRoute(r, k) /\
    \/ n.path = RouteOf(r, k)
    \/ IsLeaf(n, RouteOf(r, k), "route-preference", r.routes[k])

MadeRib(n, r) ==
  \/ n.path = RibBox(r)
  \/ IsLeaf(n, RibBox(r), "name", r.name)
  \/ IsLeaf(n, RibBox(r), "address-family", Stored(<<"address-family", r.address_family>>))
  \/ r.description # None /\ IsLeaf(n, RibBox(r), "description", r.description)
  \/ n.path = RouteBox(r)
  \/ MadeRoute(n, r)

LEMMA StoredInRouting ==
  /\ \A name \in Labels : Stored(<<"name", name>>) = name
  /\ \A text \in Texts : Stored(<<"description", text>>) = text
  /\ \A name \in Names : Stored(<<"interface", name>>) = name
  /\ \A id \in RouterIds : Stored(<<"router-id", id>>) = id
  /\ \A pref \in Prefs : Stored(<<"route-preference", pref>>) = pref
<1>1. ASSUME NEW leaf, leaf \notin DOMAIN Canonical PROVE Stored(leaf) = leaf[2]
  BY <1>1 DEF Stored
<1>2. ASSUME NEW name \in Labels PROVE Stored(<<"name", name>>) = name
  BY <1>1, RoutingSchemaAssumption
<1>3. ASSUME NEW text \in Texts PROVE Stored(<<"description", text>>) = text
  BY <1>1, RoutingSchemaAssumption
<1>4. ASSUME NEW name \in Names PROVE Stored(<<"interface", name>>) = name
  BY <1>1, RoutingSchemaAssumption
<1>5. ASSUME NEW id \in RouterIds PROVE Stored(<<"router-id", id>>) = id
  BY <1>1, RoutingSchemaAssumption
<1>6. ASSUME NEW pref \in Prefs PROVE Stored(<<"route-preference", pref>>) = pref
  BY <1>1, RoutingSchemaAssumption
<1>7. QED
  BY <1>2, <1>3, <1>4, <1>5, <1>6

LEMMA RibFields ==
  ASSUME NEW r \in Rib
  PROVE  /\ r.name \in Labels /\ r.address_family \in Families
         /\ r.description \in Optional(Texts) /\ r.routes \in Seq(Optional(Prefs))
         /\ \A k : HasRoute(r, k) => r.routes[k] \in Prefs
         /\ r.description # None => r.description \in Texts
<1>1. /\ r.name \in Labels /\ r.address_family \in Families
      /\ r.description \in Optional(Texts) /\ r.routes \in Seq(Optional(Prefs))
  BY DEF Rib
<1>2. \A k \in DOMAIN r.routes : r.routes[k] \in Optional(Prefs)
  BY <1>1
<1>3. QED
  BY <1>1, <1>2 DEF HasRoute, Optional

\* What the calls for a path without keys and for the entry of a rib make.
LEMMA NodesOfTop ==
  ASSUME NEW node, NEW n \in NodesOf(PathCall(<<Segment(node)>>, None, {}))
  PROVE  n.path = <<Segment(node)>>
<1>. DEFINE none == <<>>
            top == <<Segment(node)>>
<1>1. top = Append(none, Segment(node))
  OBVIOUS
<1>2. IsSeq(none) /\ Range(none) = {} /\ NodesOf(PathCall(none, None, {})) = {}
  BY NoElement, NodesOfNoPath
<1>. HIDE DEF none, top
<1>3. n \in NodesOf(PathCall(Append(none, Segment(node)), None, {}))
  BY <1>1 DEF top
<1>4. \A s \in Range(none) : IsSegment(s)
  BY <1>2
<1>5. \/ n \in NodesOf(PathCall(none, None, {}))
      \/ IsLeaf(n, none, node, Stored(<<node, None>>))
  BY <1>2, <1>3, <1>4, LeafNode
<1>6. n.path = Append(none, Segment(node))
  BY <1>2, <1>5 DEF IsLeaf
<1>7. QED
  BY <1>1, <1>6 DEF top

LEMMA NodesOfRibBox ==
  ASSUME NEW r \in Rib, NEW n \in NodesOf(PathCall(RibBox(r), None, {}))
  PROVE  n.path = RibsPath \/ n.path = RibBox(r) \/ IsLeaf(n, RibBox(r), "name", r.name)
<1>1. r.name \in Labels
  BY RibFields
<1>2. KeyOf["rib"] = <<"name">> /\ <<r.name>> # None
  BY <1>1, RoutingSchemaAssumption
<1>3. Stored(<<"name", r.name>>) = r.name
  BY <1>1, StoredInRouting
<1>4. IsSeq(RibsPath) /\ \A s \in Range(RibsPath) : IsSegment(s)
  BY TopPaths DEF RibsPath
<1>5. RibBox(r) = Append(RibsPath, Entry("rib", <<r.name>>))
  BY RibShapes
<1>6. \/ n \in NodesOf(PathCall(RibsPath, None, {}))
      \/ n.path = Append(RibsPath, Entry("rib", <<r.name>>))
      \/ IsLeaf(n, Append(RibsPath, Entry("rib", <<r.name>>)), "name", r.name)
  BY <1>2, <1>3, <1>4, <1>5, EntryNodes
<1>7. QED
  BY <1>5, <1>6, NodesOfTop DEF RibsPath

LEMMA NodesOfRoute ==
  ASSUME NEW r \in Rib, NEW k, NEW n \in NodesOf(PathCall(RouteOf(r, k), None, {}))
  PROVE  \/ n.path = RibsPath \/ n.path = RibBox(r) \/ IsLeaf(n, RibBox(r), "name", r.name)
         \/ n.path = RouteBox(r) \/ n.path = RouteOf(r, k)
<1>1. /\ IsSeq(RouteBox(r)) /\ \A s \in Range(RouteBox(r)) : IsSegment(s)
      /\ IsSeq(RibBox(r)) /\ \A s \in Range(RibBox(r)) : IsSegment(s)
  BY RibShapes
<1>2. /\ RouteOf(r, k) = Append(RouteBox(r), Instance("route", k))
      /\ RouteBox(r) = Append(RibBox(r), Segment("routes"))
  BY RouteShapes DEF RouteBox
<1>. DEFINE list == RouteBox(r)
            box == RibBox(r)
<1>. HIDE DEF list, box
<1>3. \/ n \in NodesOf(PathCall(list, None, {}))
      \/ /\ n.path = Append(list, Instance("route", k)) /\ n.value = Stored(<<"route", None>>)
  <2>1. n \in NodesOf(PathCall(Append(list, Instance("route", k)), None, {}))
    BY <1>2 DEF list
  <2>2. IsSeq(list) /\ \A s \in Range(list) : IsSegment(s)
    BY <1>1 DEF list
  <2>3. QED
    BY <2>1, <2>2, InstanceNode
<1>4. ASSUME n \in NodesOf(PathCall(list, None, {}))
      PROVE  \/ n \in NodesOf(PathCall(box, None, {}))
             \/ IsLeaf(n, box, "routes", Stored(<<"routes", None>>))
  BY <1>1, <1>2, <1>4, LeafNode DEF list, box
<1>5. QED
  BY <1>2, <1>3, <1>4, NodesOfRibBox DEF IsLeaf, list, box

LEMMA RibCallNodes ==
  ASSUME NEW r \in Rib, NEW c, IsCallOf(c, r), NEW n \in NodesOf(c)
  PROVE  n.path = RibsPath \/ MadeRib(n, r)
<1>1. ASSUME NEW leaf, NEW value, c = LeafCallOf(r, leaf, value)
      PROVE  n.path = RibsPath \/ MadeRib(n, r) \/ IsLeaf(n, RibBox(r), leaf, Stored(<<leaf, value>>))
  <2>1. IsSeq(RibBox(r)) /\ \A s \in Range(RibBox(r)) : IsSegment(s)
    BY RibShapes
  <2>2. \/ n \in NodesOf(PathCall(RibBox(r), None, {}))
        \/ IsLeaf(n, RibBox(r), leaf, Stored(<<leaf, value>>))
    BY <1>1, <2>1, LeafNode DEF LeafCallOf
  <2>3. QED
    BY <2>2, NodesOfRibBox DEF MadeRib
<1>2. CASE c = LeafCallOf(r, "name", r.name)
  <2>1. Stored(<<"name", r.name>>) = r.name
    BY RibFields, StoredInRouting
  <2>2. QED
    BY <1>1, <1>2, <2>1 DEF MadeRib
<1>3. CASE c = LeafCallOf(r, "address-family", r.address_family)
  BY <1>1, <1>3 DEF MadeRib
<1>4. CASE r.description # None /\ c = LeafCallOf(r, "description", r.description)
  <2>1. Stored(<<"description", r.description>>) = r.description
    BY <1>4, RibFields, StoredInRouting
  <2>2. QED
    BY <1>1, <1>4, <2>1 DEF MadeRib
<1>5. CASE \E k : HasRoute(r, k) /\ c = RouteCallOf(r, k)
  <2>1. PICK k : HasRoute(r, k) /\ c = RouteCallOf(r, k)
    BY <1>5
  <2>2. Stored(<<"route-preference", r.routes[k]>>) = r.routes[k]
    BY <2>1, RibFields, StoredInRouting
  <2>3. IsSeq(RouteOf(r, k)) /\ \A s \in Range(RouteOf(r, k)) : IsSegment(s)
    BY RouteShapes
  <2>4. \/ n \in NodesOf(PathCall(RouteOf(r, k), None, {}))
        \/ IsLeaf(n, RouteOf(r, k), "route-preference", r.routes[k])
    BY <2>1, <2>2, <2>3, LeafNode DEF RouteCallOf
  <2>5. QED
    BY <2>1, <2>4, NodesOfRoute DEF MadeRib, MadeRoute
<1>6. QED
  BY <1>2, <1>3, <1>4, <1>5 DEF IsCallOf

\* The nodes that belong to a model without control-plane-protocols.
MadeName(n, m) ==
  \E k \in DOMAIN m.interfaces : n.path = NamePath(k) /\ n.value = m.interfaces[k]

MadeRouting(n, m) ==
  \/ m.router_id # None /\ n.path = <<Segment("router-id")>> /\ n.value = m.router_id
  \/ n.path = NamesPath
  \/ MadeName(n, m)
  \/ n.path = RibsPath
  \/ \E k \in DOMAIN m.ribs : MadeRib(n, m.ribs[k])

RouterIdCall(m) == PathCall(<<Segment("router-id")>>, m.router_id, {"router-id"})
NameCall(m, k) == PathCall(NamePath(k), m.interfaces[k], {})

LEMMA RouterIdNodes ==
  ASSUME NEW m \in Routing, m.router_id # None, NEW n \in NodesOf(RouterIdCall(m))
  PROVE  n.path = <<Segment("router-id")>> /\ n.value = m.router_id
<1>. DEFINE none == <<>>
<1>1. Stored(<<"router-id", m.router_id>>) = m.router_id
  <2>1. m.router_id \in RouterIds
    BY DEF Routing, Optional
  <2>2. QED
    BY <2>1, StoredInRouting
<1>2. <<Segment("router-id")>> = Append(none, Segment("router-id"))
  OBVIOUS
<1>3. IsSeq(none) /\ (\A s \in Range(none) : IsSegment(s)) /\ NodesOf(PathCall(none, None, {})) = {}
  BY NoElement, NodesOfNoPath
<1>. HIDE DEF none
<1>4. n \in NodesOf(PathCall(Append(none, Segment("router-id")), m.router_id, {"router-id"}))
  BY <1>2 DEF RouterIdCall
<1>5. \/ n \in NodesOf(PathCall(none, None, {}))
      \/ IsLeaf(n, none, "router-id", Stored(<<"router-id", m.router_id>>))
  BY <1>3, <1>4, LeafNode
<1>6. QED
  BY <1>1, <1>2, <1>3, <1>5 DEF IsLeaf

LEMMA NameCallNodes ==
  ASSUME NEW m \in Routing, NEW k \in DOMAIN m.interfaces, NEW n \in NodesOf(NameCall(m, k))
  PROVE  n.path = NamesPath \/ (n.path = NamePath(k) /\ n.value = m.interfaces[k])
<1>1. Stored(<<"interface", m.interfaces[k]>>) = m.interfaces[k]
  <2>1. m.interfaces[k] \in Names
    BY DEF Routing
  <2>2. QED
    BY <2>1, StoredInRouting
<1>2. IsSeq(NamesPath) /\ \A s \in Range(NamesPath) : IsSegment(s)
  BY TopPaths DEF NamesPath
<1>3. n \in NodesOf(PathCall(Append(NamesPath, Instance("interface", k)), m.interfaces[k], {}))
  BY DEF NameCall, NamePath
<1>4. \/ n \in NodesOf(PathCall(NamesPath, None, {}))
      \/ /\ n.path = Append(NamesPath, Instance("interface", k))
         /\ n.value = Stored(<<"interface", m.interfaces[k]>>)
  BY <1>2, <1>3, InstanceNode
<1>5. QED
  BY <1>1, <1>4, NodesOfTop DEF NamesPath, NamePath

\* The calls for a model without control-plane-protocols.
LEMMA TheRoutingCalls ==
  ASSUME NEW m \in Routing, m.cpps = <<>>
  PROVE  LET s1 == If(m.router_id # None, <<RouterIdCall(m)>>)
             s2 == [k \in DOMAIN m.interfaces |-> NameCall(m, k)]
             rr == [k \in DOMAIN m.ribs |-> RibCalls(m.ribs[k])]
             I == Len(m.interfaces)
             R == Len(m.ribs) IN
         /\ RoutingCalls(m) = ((s1 \o s2) \o <<>>) \o FlattenSeq(rr)
         /\ I \in Nat /\ DOMAIN m.interfaces = 1..I /\ R \in Nat /\ DOMAIN m.ribs = 1..R
         /\ \A k \in 1..R : m.ribs[k] \in Rib
         /\ IsSeq(s1) /\ Range(s1) = IF m.router_id # None THEN {RouterIdCall(m)} ELSE {}
         /\ IsSeq(s2) /\ Len(s2) = I /\ \A k \in 1..I : s2[k] = NameCall(m, k)
         /\ IsSeq(FlattenSeq(rr)) /\ DOMAIN rr = 1..R /\ rr = [k \in 1..R |-> rr[k]]
         /\ \A k \in 1..R : IsSeq(rr[k]) /\ rr[k] = RibCalls(m.ribs[k])
         /\ IsSeq(RoutingCalls(m))
         /\ \A c : c \in Range(RoutingCalls(m)) <=>
              \/ m.router_id # None /\ c = RouterIdCall(m)
              \/ \E k \in 1..I : c = NameCall(m, k)
              \/ \E k \in 1..R : IsCallOf(c, m.ribs[k])
<1>. DEFINE s1 == If(m.router_id # None, <<RouterIdCall(m)>>)
            s2 == [k \in DOMAIN m.interfaces |-> NameCall(m, k)]
            pp == [k \in DOMAIN m.cpps |-> CppCalls(m.cpps[k])]
            rr == [k \in DOMAIN m.ribs |-> RibCalls(m.ribs[k])]
            I == Len(m.interfaces)
            R == Len(m.ribs)
            s4 == FlattenSeq(rr)
            none == <<>>
<1>1. /\ I \in Nat /\ DOMAIN m.interfaces = 1..I /\ R \in Nat /\ DOMAIN m.ribs = 1..R
      /\ \A k \in 1..R : m.ribs[k] \in Rib
  BY DEF Routing
<1>2. RoutingCalls(m) = ((s1 \o s2) \o none) \o s4
  <2>1. FlattenSeq(pp) = none
    <3>1. pp = <<>>
      OBVIOUS
    <3>. HIDE DEF pp
    <3>2. QED
      BY <3>1 DEF FlattenSeq
  <2>2. s2 = [k \in DOMAIN m.interfaces |->
                PathCall(<<Segment("interfaces"), Instance("interface", k)>>,
                         m.interfaces[k], {})]
    BY NameShapes DEF NameCall
  <2>3. RoutingCalls(m) = ((s1 \o s2) \o FlattenSeq(pp)) \o s4
    BY <2>2 DEF RoutingCalls, RouterIdCall
  <2>4. QED
    BY <2>1, <2>3
<1>3. IsSeq(s1) /\ Range(s1) = IF m.router_id # None THEN {RouterIdCall(m)} ELSE {}
  BY OneElement, NoElement DEF If
<1>4. IsSeq(s2) /\ Len(s2) = I /\ \A k \in 1..I : s2[k] = NameCall(m, k)
  <2>1. DOMAIN s2 = 1..I /\ s2 = [k \in 1..I |-> s2[k]] /\ \A k \in 1..I : s2[k] = NameCall(m, k)
    BY <1>1
  <2>. HIDE DEF s2
  <2>2. QED
    BY <1>1, <2>1, FunctionIsSeq
<1>5. /\ DOMAIN rr = 1..R /\ rr = [k \in 1..R |-> rr[k]]
      /\ \A k \in 1..R : rr[k] = RibCalls(m.ribs[k])
  BY <1>1
<1>. HIDE DEF rr, s1, s2
<1>6. ASSUME NEW k \in 1..R
      PROVE  IsSeq(rr[k]) /\ \A c : c \in Range(rr[k]) <=> IsCallOf(c, m.ribs[k])
  <2>1. ASSUME NEW r \in Rib
        PROVE  IsSeq(RibCalls(r)) /\ \A c : c \in Range(RibCalls(r)) <=> IsCallOf(c, r)
    BY TheRibCalls
  <2>2. m.ribs[k] \in Rib /\ rr[k] = RibCalls(m.ribs[k])
    BY <1>1, <1>5
  <2>3. QED
    BY <2>1, <2>2
<1>7. IsSeq(s4) /\ Range(s4) = UNION {Range(rr[k]) : k \in 1..R}
  <2>1. IsSeq(rr) /\ \A k \in DOMAIN rr : IsSeq(rr[k])
    BY <1>1, <1>5, <1>6, FunctionIsSeq
  <2>2. QED
    BY <1>5, <2>1, Flattened
<1>8. IsSeq(none) /\ Range(none) = {}
  BY NoElement
<1>. HIDE DEF s4, none
<1>9. IsSeq(s1 \o s2) /\ Range(s1 \o s2) = Range(s1) \union Range(s2)
  BY <1>3, <1>4, Concatenation
<1>10. /\ IsSeq((s1 \o s2) \o none)
       /\ Range((s1 \o s2) \o none) = Range(s1 \o s2) \union Range(none)
  BY <1>8, <1>9, Concatenation
<1>11. /\ IsSeq(((s1 \o s2) \o none) \o s4)
       /\ Range(((s1 \o s2) \o none) \o s4) = Range((s1 \o s2) \o none) \union Range(s4)
  BY <1>7, <1>10, Concatenation
<1>12. ASSUME NEW c
       PROVE  c \in Range(RoutingCalls(m)) <=>
                \/ m.router_id # None /\ c = RouterIdCall(m)
                \/ \E k \in 1..I : c = NameCall(m, k)
                \/ \E k \in 1..R : IsCallOf(c, m.ribs[k])
  <2>1. c \in Range(RoutingCalls(m)) <=> c \in Range(s1) \/ c \in Range(s2) \/ c \in Range(s4)
    BY <1>2, <1>8, <1>9, <1>10, <1>11
  <2>2. c \in Range(s1) <=> m.router_id # None /\ c = RouterIdCall(m)
    BY <1>3
  <2>3. c \in Range(s2) <=> \E k \in 1..I : c = NameCall(m, k)
    <3>1. Range(s2) = {s2[k] : k \in 1..I}
      BY <1>4, SeqFacts
    <3>2. QED
      BY <1>4, <3>1
  <2>4. c \in Range(s4) <=> \E k \in 1..R : IsCallOf(c, m.ribs[k])
    BY <1>6, <1>7
  <2>5. QED
    BY <2>1, <2>2, <2>3, <2>4
<1>13. QED
  BY <1>1, <1>2, <1>3, <1>4, <1>5, <1>6, <1>7, <1>11, <1>12 DEF s1, s2, rr, s4, none

\* What the tree of a model has.
LEMMA RoutingNodes ==
  ASSUME NEW m \in Routing, m.cpps = <<>>, NEW nodes,
         Built(nodes, RoutingCalls(m), Len(RoutingCalls(m))), NEW n \in Range(nodes)
  PROVE  MadeRouting(n, m)
<1>. DEFINE cs == RoutingCalls(m)
<1>1. /\ IsSeq(cs)
      /\ DOMAIN m.interfaces = 1..Len(m.interfaces) /\ DOMAIN m.ribs = 1..Len(m.ribs)
      /\ \A k \in 1..Len(m.ribs) : m.ribs[k] \in Rib
      /\ \A c \in Range(cs) :
           \/ m.router_id # None /\ c = RouterIdCall(m)
           \/ \E k \in 1..Len(m.interfaces) : c = NameCall(m, k)
           \/ \E k \in 1..Len(m.ribs) : IsCallOf(c, m.ribs[k])
  BY TheRoutingCalls
<1>2. PICK a \in 1..Len(cs) : n \in NodesOf(cs[a])
  BY DEF Built
<1>3. cs[a] \in Range(cs)
  BY <1>1, SeqFacts
<1>. HIDE DEF cs
<1>4. CASE m.router_id # None /\ cs[a] = RouterIdCall(m)
  BY <1>2, <1>4, RouterIdNodes DEF MadeRouting
<1>5. CASE \E k \in 1..Len(m.interfaces) : cs[a] = NameCall(m, k)
  BY <1>1, <1>2, <1>5, NameCallNodes DEF MadeRouting, MadeName
<1>6. CASE \E k \in 1..Len(m.ribs) : IsCallOf(cs[a], m.ribs[k])
  BY <1>1, <1>2, <1>6, RibCallNodes DEF MadeRouting
<1>7. QED
  BY <1>1, <1>3, <1>4, <1>5, <1>6

-----------------------------------------------------------------------------
(* Which node has which path *)

LEMMA SameRib ==
  ASSUME NEW q \in Rib, NEW r \in Rib
  PROVE  /\ RibBox(q) = RibBox(r) => q.name = r.name
         /\ \A s, t : Append(RibBox(q), s) = Append(RibBox(r), t) => q.name = r.name /\ s = t
         /\ RouteBox(q) = RouteBox(r) => q.name = r.name
         /\ \A j, k : RouteOf(q, j) = RouteOf(r, k) => q.name = r.name /\ j = k
<1>1. ASSUME RibBox(q) = RibBox(r) PROVE q.name = r.name
  <2>1. Entry("rib", <<q.name>>) = Entry("rib", <<r.name>>)
    BY <1>1, RibShapes
  <2>2. QED
    BY <2>1, SamePath
<1>2. ASSUME NEW s, NEW t, Append(RibBox(q), s) = Append(RibBox(r), t)
      PROVE  q.name = r.name /\ s = t
  <2>. DEFINE a == RibBox(q)
              b == RibBox(r)
  <2>1. /\ Front(Append(a, s)) = a /\ Last(Append(a, s)) = s
        /\ Front(Append(b, t)) = b /\ Last(Append(b, t)) = t
    BY RibShapes
  <2>2. Append(a, s) = Append(b, t)
    BY <1>2
  <2>. HIDE DEF a, b
  <2>3. a = b /\ s = t
    BY <2>1, <2>2
  <2>4. QED
    BY <1>1, <2>3 DEF a, b
<1>3. ASSUME RouteBox(q) = RouteBox(r) PROVE q.name = r.name
  BY <1>1, <1>3, RibShapes
<1>4. ASSUME NEW j, NEW k, RouteOf(q, j) = RouteOf(r, k) PROVE q.name = r.name /\ j = k
  <2>1. RouteBox(q) = RouteBox(r) /\ Instance("route", j) = Instance("route", k)
    BY <1>4, RouteShapes
  <2>2. QED
    BY <1>3, <2>1 DEF Instance
<1>5. QED
  BY <1>1, <1>2, <1>3, <1>4

LEMMA SameRibLeaf ==
  ASSUME NEW q \in Rib, NEW r \in Rib, NEW s, NEW t,
         Append(RibBox(q), s) = Append(RibBox(r), t)
  PROVE  q.name = r.name
BY SameRib

RibLeaf(n, r) ==
  \/ IsLeaf(n, RibBox(r), "name", r.name)
  \/ IsLeaf(n, RibBox(r), "address-family", Stored(<<"address-family", r.address_family>>))
  \/ r.description # None /\ IsLeaf(n, RibBox(r), "description", r.description)

\* One level of the tree after the other.
LEMMA RoutingLevels ==
  ASSUME NEW m \in Routing, NEW n, MadeRouting(n, m)
  PROVE  /\ Len(n.path) = 1 =>
              \/ m.router_id # None /\ n.path = <<Segment("router-id")>> /\ n.value = m.router_id
              \/ n.path = NamesPath \/ n.path = RibsPath
         /\ Len(n.path) = 2 =>
              \/ MadeName(n, m)
              \/ \E k \in DOMAIN m.ribs : m.ribs[k] \in Rib /\ n.path = RibBox(m.ribs[k])
         /\ Len(n.path) = 3 =>
              \E k \in DOMAIN m.ribs :
                /\ m.ribs[k] \in Rib
                /\ RibLeaf(n, m.ribs[k]) \/ n.path = RouteBox(m.ribs[k])
         /\ Len(n.path) = 4 =>
              \E k \in DOMAIN m.ribs :
                /\ m.ribs[k] \in Rib
                /\ \E j : HasRoute(m.ribs[k], j) /\ n.path = RouteOf(m.ribs[k], j)
         /\ Len(n.path) = 5 =>
              \E k \in DOMAIN m.ribs :
                /\ m.ribs[k] \in Rib
                /\ \E j : /\ HasRoute(m.ribs[k], j)
                          /\ IsLeaf(n, RouteOf(m.ribs[k], j), "route-preference",
                                    m.ribs[k].routes[j])
<1>1. CASE m.router_id # None /\ n.path = <<Segment("router-id")>> /\ n.value = m.router_id
  <2>1. Len(n.path) = 1
    BY <1>1, TopPaths
  <2>2. QED
    BY <1>1, <2>1
<1>2. CASE n.path = NamesPath \/ n.path = RibsPath
  <2>1. Len(n.path) = 1
    BY <1>2, TopPaths DEF NamesPath, RibsPath
  <2>2. QED
    BY <1>2, <2>1
<1>3. CASE MadeName(n, m)
  <2>1. Len(n.path) = 2
    BY <1>3, NameShapes DEF MadeName
  <2>2. QED
    BY <1>3, <2>1
<1>4. CASE \E k \in DOMAIN m.ribs : MadeRib(n, m.ribs[k])
  <2>1. PICK k \in DOMAIN m.ribs : MadeRib(n, m.ribs[k])
    BY <1>4
  <2>2. m.ribs[k] \in Rib
    BY DEF Routing
  <2>. DEFINE r == m.ribs[k]
  <2>. HIDE DEF r
  <2>3. r \in Rib /\ MadeRib(n, r)
    BY <2>1, <2>2 DEF r
  <2>4. CASE n.path = RibBox(r)
    <3>1. Len(n.path) = 2
      BY <2>3, <2>4, RibShapes
    <3>2. QED
      BY <2>2, <2>4, <3>1 DEF r
  <2>5. CASE RibLeaf(n, r) \/ n.path = RouteBox(r)
    <3>1. Len(n.path) = 3
      BY <2>3, <2>5, RibShapes DEF RibLeaf, IsLeaf
    <3>2. QED
      BY <2>2, <2>5, <3>1 DEF r
  <2>6. CASE MadeRoute(n, r)
    <3>1. PICK j : HasRoute(r, j) /\
            (n.path = RouteOf(r, j) \/ IsLeaf(n, RouteOf(r, j), "route-preference", r.routes[j]))
      BY <2>6 DEF MadeRoute
    <3>2. CASE n.path = RouteOf(r, j)
      <4>1. Len(n.path) = 4
        BY <2>3, <3>2, RouteShapes
      <4>2. QED
        BY <2>2, <3>1, <3>2, <4>1 DEF r
    <3>3. CASE IsLeaf(n, RouteOf(r, j), "route-preference", r.routes[j])
      <4>1. Len(n.path) = 5
        BY <2>3, <3>3, RouteShapes DEF IsLeaf
      <4>2. QED
        BY <2>2, <3>1, <3>3, <4>1 DEF r
    <3>4. QED
      BY <3>1, <3>2, <3>3
  <2>7. QED
    BY <2>3, <2>4, <2>5, <2>6 DEF MadeRib, RibLeaf
<1>5. QED
  BY <1>1, <1>2, <1>3, <1>4 DEF MadeRouting

\* A model that libyang can hold, as far as the shape of its tree goes.
Held(m) ==
  /\ m \in Routing /\ m.cpps = <<>>
  /\ \A j, k \in DOMAIN m.ribs : m.ribs[j].name = m.ribs[k].name => j = k

RibIn(m, r) == \E l \in DOMAIN m.ribs : r = m.ribs[l]

LEMMA RibNodeOf ==
  ASSUME NEW m, Held(m), NEW n, MadeRouting(n, m), NEW r, RibIn(m, r)
  PROVE  /\ r \in Rib
         /\ \A leaf : n.path = Append(RibBox(r), Segment(leaf)) =>
              \/ leaf = "name" /\ n.value = r.name
              \/ leaf = "address-family"
                 /\ n.value = Stored(<<"address-family", r.address_family>>)
              \/ leaf = "description" /\ r.description # None /\ n.value = r.description
              \/ leaf = "routes"
<1>1. m \in Routing /\ r \in Rib
  BY DEF Held, Routing, RibIn
<1>2. \A k \in DOMAIN m.ribs : m.ribs[k].name = r.name => m.ribs[k] = r
  BY DEF Held, RibIn
<1>3. ASSUME NEW leaf, n.path = Append(RibBox(r), Segment(leaf))
      PROVE  \/ leaf = "name" /\ n.value = r.name
             \/ leaf = "address-family"
                /\ n.value = Stored(<<"address-family", r.address_family>>)
             \/ leaf = "description" /\ r.description # None /\ n.value = r.description
             \/ leaf = "routes"
  <2>1. Len(n.path) = 3
    BY <1>1, <1>3, RibShapes
  <2>2. PICK k \in DOMAIN m.ribs :
          m.ribs[k] \in Rib /\ (RibLeaf(n, m.ribs[k]) \/ n.path = RouteBox(m.ribs[k]))
    BY <1>1, <2>1, RoutingLevels
  <2>. DEFINE q == m.ribs[k]
  <2>3. q \in Rib /\ (RibLeaf(n, q) \/ n.path = RouteBox(q))
    BY <2>2
  <2>4. \E other : n.path = Append(RibBox(q), Segment(other))
    BY <2>3 DEF RibLeaf, IsLeaf, RouteBox
  <2>5. q.name = r.name
    <3>1. PICK other : n.path = Append(RibBox(q), Segment(other))
      BY <2>4
    <3>. HIDE DEF q
    <3>2. Append(RibBox(q), Segment(other)) = Append(RibBox(r), Segment(leaf))
      BY <1>3, <3>1
    <3>3. QED
      BY <1>1, <2>3, <3>2, SameRibLeaf
  <2>6. RibLeaf(n, r) \/ n.path = RouteBox(r)
    BY <1>2, <2>3, <2>5
  <2>7. ASSUME NEW other, n.path = Append(RibBox(r), Segment(other)) PROVE leaf = other
    <3>1. Append(RibBox(r), Segment(other)) = Append(RibBox(r), Segment(leaf))
      BY <1>3, <2>7
    <3>2. Segment(other) = Segment(leaf)
      BY <1>1, <3>1, SameRib
    <3>3. QED
      BY <3>2, SamePath
  <2>8. QED
    BY <2>6, <2>7 DEF RibLeaf, IsLeaf, RouteBox
<1>4. QED
  BY <1>1, <1>3

LEMMA RouteNodeOf ==
  ASSUME NEW m, Held(m), NEW n, MadeRouting(n, m), NEW r, RibIn(m, r),
         Len(n.path) = 4, Front(n.path) = RouteBox(r)
  PROVE  \E j : HasRoute(r, j) /\ n.path = RouteOf(r, j)
<1>1. m \in Routing /\ r \in Rib
  BY DEF Held, Routing, RibIn
<1>2. \A k \in DOMAIN m.ribs : m.ribs[k].name = r.name => m.ribs[k] = r
  BY DEF Held, RibIn
<1>3. PICK k \in DOMAIN m.ribs :
        m.ribs[k] \in Rib /\ \E j : HasRoute(m.ribs[k], j) /\ n.path = RouteOf(m.ribs[k], j)
  BY <1>1, RoutingLevels
<1>4. m.ribs[k].name = r.name
  BY <1>1, <1>3, RouteShapes, SameRib
<1>5. QED
  BY <1>2, <1>3, <1>4

LEMMA PreferenceNodeOf ==
  ASSUME NEW m, Held(m), NEW n, MadeRouting(n, m), NEW r, RibIn(m, r), NEW j,
         n.path = Append(RouteOf(r, j), Segment("route-preference"))
  PROVE  HasRoute(r, j) /\ n.value = r.routes[j]
<1>1. m \in Routing /\ r \in Rib
  BY DEF Held, Routing, RibIn
<1>2. \A k \in DOMAIN m.ribs : m.ribs[k].name = r.name => m.ribs[k] = r
  BY DEF Held, RibIn
<1>3. Len(n.path) = 5
  BY <1>1, RouteShapes
<1>4. PICK k \in DOMAIN m.ribs : m.ribs[k] \in Rib /\
        \E i : /\ HasRoute(m.ribs[k], i)
               /\ IsLeaf(n, RouteOf(m.ribs[k], i), "route-preference", m.ribs[k].routes[i])
  BY <1>1, <1>3, RoutingLevels
<1>5. PICK i : /\ HasRoute(m.ribs[k], i)
               /\ IsLeaf(n, RouteOf(m.ribs[k], i), "route-preference", m.ribs[k].routes[i])
  BY <1>4
<1>6. m.ribs[k].name = r.name /\ i = j
  <2>. DEFINE q == m.ribs[k]
  <2>. HIDE DEF q
  <2>1. Append(RouteOf(q, i), Segment("route-preference"))
          = Append(RouteOf(r, j), Segment("route-preference"))
    BY <1>5 DEF IsLeaf, q
  <2>2. q \in Rib
    BY <1>4 DEF q
  <2>3. RouteOf(q, i) = RouteOf(r, j)
    <3>1. Front(Append(RouteOf(q, i), Segment("route-preference"))) = RouteOf(q, i)
      BY <2>2, RouteShapes
    <3>2. Front(Append(RouteOf(r, j), Segment("route-preference"))) = RouteOf(r, j)
      BY <1>1, RouteShapes
    <3>3. QED
      BY <2>1, <3>1, <3>2
  <2>4. q.name = r.name /\ i = j
    BY <1>1, <2>2, <2>3, SameRib
  <2>5. QED
    BY <2>4 DEF q
<1>7. m.ribs[k] = r
  BY <1>2, <1>6
<1>8. QED
  BY <1>5, <1>6, <1>7 DEF IsLeaf

\* Below the top there are the entries of the two lists.
LEMMA EntryNodeOf ==
  ASSUME NEW m, Held(m), NEW n, MadeRouting(n, m), Len(n.path) = 2
  PROVE  \/ Front(n.path) = NamesPath /\ Last(n.path)[1] = "interface" /\ MadeName(n, m)
         \/ /\ Front(n.path) = RibsPath /\ Last(n.path)[1] = "rib"
            /\ \E k \in DOMAIN m.ribs : n.path = RibBox(m.ribs[k])
<1>1. m \in Routing
  BY DEF Held
<1>2. \/ MadeName(n, m)
      \/ \E k \in DOMAIN m.ribs : m.ribs[k] \in Rib /\ n.path = RibBox(m.ribs[k])
  BY <1>1, RoutingLevels
<1>3. CASE MadeName(n, m)
  BY <1>3, NameShapes DEF MadeName, Instance
<1>4. CASE \E k \in DOMAIN m.ribs : m.ribs[k] \in Rib /\ n.path = RibBox(m.ribs[k])
  BY <1>4, RibShapes DEF Entry
<1>5. QED
  BY <1>2, <1>3, <1>4

LEMMA TopNodeOf ==
  ASSUME NEW m, Held(m), NEW n, MadeRouting(n, m), n.path = <<Segment("router-id")>>
  PROVE  m.router_id # None /\ n.value = m.router_id
<1>1. Len(n.path) = 1 /\ Last(n.path) = Segment("router-id")
  BY TopPaths
<1>2. /\ Last(NamesPath) = Segment("interfaces") /\ Last(RibsPath) = Segment("ribs")
      /\ m \in Routing
  BY TopPaths DEF NamesPath, RibsPath, Held
<1>3. \/ m.router_id # None /\ n.value = m.router_id
      \/ n.path = NamesPath \/ n.path = RibsPath
  BY <1>1, <1>2, RoutingLevels
<1>4. Segment("router-id") # Segment("interfaces") /\ Segment("router-id") # Segment("ribs")
  BY SamePath
<1>5. QED
  BY <1>1, <1>2, <1>3, <1>4

-----------------------------------------------------------------------------
(* The tree of a model *)

\* The tree has the nodes of all calls.
Whole(nodes, m) ==
  Held(m) /\ Built(nodes, RoutingCalls(m), Len(RoutingCalls(m)))

LEMMA WholeFacts ==
  ASSUME NEW m, NEW nodes, Whole(nodes, m)
  PROVE  /\ Held(m) /\ m \in Routing /\ m.cpps = <<>>
         /\ IsRoutingTree(nodes) /\ IsSeq(nodes) /\ DistinctPaths(nodes)
         /\ IsSeq(RoutingCalls(m)) /\ InOrder(nodes, RoutingCalls(m), Len(RoutingCalls(m)))
         /\ \A n \in Range(nodes) : MadeRouting(n, m) /\ IsSeq(n.path) /\ n.path # <<>>
         /\ \A c \in Range(RoutingCalls(m)) : \A p \in PathsOf(c) :
              \E n \in Range(nodes) : n.path = p
<1>1. Held(m) /\ m \in Routing /\ m.cpps = <<>>
  BY DEF Whole, Held
<1>2. /\ IsRoutingTree(nodes) /\ InOrder(nodes, RoutingCalls(m), Len(RoutingCalls(m)))
      /\ TreePaths(nodes) = UNION {PathsOf(RoutingCalls(m)[a]) : a \in 1..Len(RoutingCalls(m))}
      /\ Built(nodes, RoutingCalls(m), Len(RoutingCalls(m)))
  BY DEF Whole, Built
<1>3. IsSeq(nodes) /\ DistinctPaths(nodes) /\ \A n \in Range(nodes) : n.path # <<>> /\ IsSeq(n.path)
  BY <1>2, WellFormedFacts DEF IsRoutingTree
<1>4. IsSeq(RoutingCalls(m))
  BY <1>1, TheRoutingCalls
<1>5. \A n \in Range(nodes) : MadeRouting(n, m)
  BY <1>1, <1>2, RoutingNodes
<1>6. ASSUME NEW c \in Range(RoutingCalls(m)), NEW p \in PathsOf(c)
      PROVE  \E n \in Range(nodes) : n.path = p
  <2>. DEFINE cs == RoutingCalls(m)
  <2>. HIDE DEF cs
  <2>1. PICK a \in 1..Len(cs) : c = cs[a]
    BY <1>4, <1>6, SeqFacts DEF cs
  <2>2. p \in TreePaths(nodes)
    BY <1>2, <1>6, <2>1 DEF cs
  <2>3. QED
    BY <2>2 DEF TreePaths
<1>7. QED
  BY <1>1, <1>2, <1>3, <1>4, <1>5, <1>6

\* A call makes the node at its path and the one above.
LEMMA PathAndAbove ==
  ASSUME NEW c, IsPath(c.path)
  PROVE  /\ c.path \in PathsOf(c)
         /\ Len(c.path) > 1 => Front(c.path) \in PathsOf(c)
         /\ Len(c.path) > 2 => Front(Front(c.path)) \in PathsOf(c)
<1>. DEFINE n == Len(c.path)
<1>1. /\ n \in Nat /\ DOMAIN c.path = 1..n /\ n > 0 /\ c.path \in PathsOf(c)
      /\ \A i \in DOMAIN c.path : Above(c, i) \in PathsOf(c)
  BY SeqFacts, PathsOfCall DEF IsPath
<1>2. Above(c, n) = c.path
  <2>1. IsSeq(c.path) /\ n \in 1..Len(c.path)
    BY <1>1 DEF IsPath
  <2>2. SubSeq(c.path, 1, n) = c.path
    BY <2>1, Prefix
  <2>3. QED
    BY <2>2 DEF Above
<1>3. ASSUME n > 1 PROVE Front(c.path) = Above(c, n - 1) /\ n - 1 \in DOMAIN c.path
  <2>1. n \in DOMAIN c.path
    BY <1>1
  <2>2. Front(Above(c, n)) = Above(c, n - 1) /\ n - 1 \in DOMAIN c.path
    BY <1>3, <2>1, PathPrefix
  <2>3. QED
    BY <1>2, <2>2
<1>4. ASSUME n > 2 PROVE Front(Above(c, n - 1)) = Above(c, n - 2) /\ n - 2 \in DOMAIN c.path
  <2>1. n - 1 \in DOMAIN c.path /\ n - 1 > 1 /\ n - 1 - 1 = n - 2
    BY <1>1, <1>4
  <2>2. QED
    BY <2>1, PathPrefix
<1>5. QED
  BY <1>1, <1>3, <1>4

\* What the tree has at the path of a leaf.
LEMMA ValueAtPath ==
  ASSUME NEW m, NEW nodes, Whole(nodes, m), NEW path
  PROVE  /\ \/ NodeValue(nodes, path) = None
            \/ \E n \in Range(nodes) :
                 MadeRouting(n, m) /\ n.path = path /\ NodeValue(nodes, path) = n.value
         /\ \A c \in Range(RoutingCalls(m)) : IsPath(path) /\ c.path = path =>
              \E n \in Range(nodes) :
                MadeRouting(n, m) /\ n.path = path /\ NodeValue(nodes, path) = n.value
<1>1. /\ IsSeq(nodes) /\ DistinctPaths(nodes) /\ \A n \in Range(nodes) : MadeRouting(n, m)
      /\ \A c \in Range(RoutingCalls(m)) : \A p \in PathsOf(c) : \E n \in Range(nodes) : n.path = p
  BY WholeFacts
<1>2. ASSUME NEW c \in Range(RoutingCalls(m)), IsPath(path), c.path = path
      PROVE  \E n \in Range(nodes) :
               MadeRouting(n, m) /\ n.path = path /\ NodeValue(nodes, path) = n.value
  <2>1. c.path \in PathsOf(c)
    BY <1>2, PathsOfCall
  <2>2. PICK n \in Range(nodes) : n.path = path
    BY <1>1, <1>2, <2>1
  <2>3. QED
    BY <1>1, <2>2, ValueOfNode
<1>3. QED
  BY <1>1, <1>2, NodeOfValue

LEMMA ReadsRouterId ==
  ASSUME NEW m, NEW nodes, Whole(nodes, m)
  PROVE  NodeValue(nodes, <<Segment("router-id")>>) = m.router_id
<1>. DEFINE path == <<Segment("router-id")>>
<1>1. Held(m) /\ m \in Routing /\ m.cpps = <<>>
  BY WholeFacts
<1>2. \A n : MadeRouting(n, m) /\ n.path = path => m.router_id # None /\ n.value = m.router_id
  BY <1>1, TopNodeOf
<1>3. IsPath(path)
  BY TopPaths
<1>4. m.router_id # None => RouterIdCall(m) \in Range(RoutingCalls(m)) /\ RouterIdCall(m).path = path
  <2>1. m.router_id # None => RouterIdCall(m) \in Range(RoutingCalls(m))
    BY <1>1, TheRoutingCalls
  <2>2. QED
    BY <2>1 DEF RouterIdCall, PathCall
<1>. HIDE DEF path
<1>5. CASE m.router_id = None
  BY <1>2, <1>5, ValueAtPath DEF path
<1>6. CASE m.router_id # None
  <2>1. \E n \in Range(nodes) :
          MadeRouting(n, m) /\ n.path = path /\ NodeValue(nodes, path) = n.value
    BY <1>3, <1>4, <1>6, ValueAtPath
  <2>2. QED
    BY <1>2, <2>1 DEF path
<1>7. QED
  BY <1>5, <1>6

\* The calls for one of the ribs are among those for the model.
LEMMA CallsOfRib ==
  ASSUME NEW m, NEW nodes, Whole(nodes, m), NEW r, RibIn(m, r)
  PROVE  r \in Rib /\ \A c : IsCallOf(c, r) => c \in Range(RoutingCalls(m))
<1>1. m \in Routing /\ m.cpps = <<>>
  BY WholeFacts
<1>2. /\ DOMAIN m.ribs = 1..Len(m.ribs) /\ \A k \in 1..Len(m.ribs) : m.ribs[k] \in Rib
      /\ \A c : (\E k \in 1..Len(m.ribs) : IsCallOf(c, m.ribs[k])) => c \in Range(RoutingCalls(m))
  BY <1>1, TheRoutingCalls
<1>3. QED
  BY <1>2 DEF RibIn

LEMMA ReadsRibLeaves ==
  ASSUME NEW m, NEW nodes, Whole(nodes, m), NEW r, RibIn(m, r)
  PROVE  LET Leaf(leaf) == NodeValue(nodes, Append(RibBox(r), Segment(leaf))) IN
         /\ Leaf("name") = r.name
         /\ Leaf("address-family") = Stored(<<"address-family", r.address_family>>)
         /\ Leaf("description") = r.description
<1>. DEFINE path(leaf) == Append(RibBox(r), Segment(leaf))
<1>1. Held(m) /\ r \in Rib /\ \A c : IsCallOf(c, r) => c \in Range(RoutingCalls(m))
  BY WholeFacts, CallsOfRib
<1>2. ASSUME NEW n, MadeRouting(n, m), NEW leaf, n.path = path(leaf)
      PROVE  \/ leaf = "name" /\ n.value = r.name
             \/ leaf = "address-family"
                /\ n.value = Stored(<<"address-family", r.address_family>>)
             \/ leaf = "description" /\ r.description # None /\ n.value = r.description
             \/ leaf = "routes"
  BY <1>1, <1>2, RibNodeOf
<1>3. ASSUME NEW leaf PROVE IsPath(path(leaf))
  <2>1. IsSeq(RibBox(r)) /\ (\A s \in Range(RibBox(r)) : IsSegment(s)) /\ IsSegment(Segment(leaf))
    BY <1>1, RibShapes, InterfaceSegments
  <2>2. QED
    BY <2>1, LongerPath
<1>. HIDE DEF path
<1>4. ASSUME NEW leaf, NEW value, IsCallOf(LeafCallOf(r, leaf, value), r)
      PROVE  \E n \in Range(nodes) :
               /\ MadeRouting(n, m) /\ n.path = path(leaf)
               /\ NodeValue(nodes, path(leaf)) = n.value
  <2>1. /\ LeafCallOf(r, leaf, value) \in Range(RoutingCalls(m))
        /\ LeafCallOf(r, leaf, value).path = path(leaf)
    BY <1>1, <1>4 DEF LeafCallOf, PathCall, path
  <2>2. QED
    BY <1>3, <2>1, ValueAtPath
<1>5. NodeValue(nodes, path("name")) = r.name
  <2>1. IsCallOf(LeafCallOf(r, "name", r.name), r)
    BY DEF IsCallOf
  <2>2. QED
    BY <1>2, <1>4, <2>1
<1>6. NodeValue(nodes, path("address-family")) = Stored(<<"address-family", r.address_family>>)
  <2>1. IsCallOf(LeafCallOf(r, "address-family", r.address_family), r)
    BY DEF IsCallOf
  <2>2. QED
    BY <1>2, <1>4, <2>1
<1>7. NodeValue(nodes, path("description")) = r.description
  <2>1. CASE r.description # None
    <3>1. IsCallOf(LeafCallOf(r, "description", r.description), r)
      BY <2>1 DEF IsCallOf
    <3>2. QED
      BY <1>2, <1>4, <3>1
  <2>2. CASE r.description = None
    <3>1. \A n : MadeRouting(n, m) => n.path # path("description")
      BY <1>2, <2>2
    <3>2. QED
      BY <2>2, <3>1, ValueAtPath
  <2>3. QED
    BY <2>1, <2>2
<1>8. QED
  BY <1>5, <1>6, <1>7 DEF path

-----------------------------------------------------------------------------
(* The entries of the lists, in their order *)

LEMMA ListEntries ==
  ASSUME NEW m, NEW nodes, Whole(nodes, m), NEW parent, NEW list
  PROVE  \A n : n \in Range(EntriesOf(nodes, parent, list)) <=>
           /\ n \in Range(nodes) /\ MadeRouting(n, m) /\ Len(n.path) = Len(parent) + 1
           /\ Front(n.path) = parent /\ Last(n.path)[1] = list
<1>1. /\ IsSeq(nodes)
      /\ \A n \in Range(nodes) : MadeRouting(n, m) /\ IsSeq(n.path) /\ n.path # <<>>
  BY WholeFacts
<1>2. Range(EntriesOf(nodes, parent, list))
        = {n \in Range(nodes) : Front(n.path) = parent /\ Last(n.path)[1] = list}
  BY <1>1, Entries
<1>3. ASSUME NEW n \in Range(nodes), Front(n.path) = parent PROVE Len(n.path) = Len(parent) + 1
  <2>1. IsSeq(n.path) /\ n.path # <<>>
    BY <1>1
  <2>2. Len(Front(n.path)) = Len(n.path) - 1 /\ Len(n.path) \in Nat
    BY <2>1, FrontAndLast, SeqFacts
  <2>3. QED
    BY <1>3, <2>2
<1>4. QED
  BY <1>1, <1>2, <1>3

LEMMA SameName ==
  ASSUME NEW j, NEW k, NamePath(j) = NamePath(k)
  PROVE  j = k
<1>1. Instance("interface", j) = Instance("interface", k)
  BY NameShapes
<1>2. QED
  BY <1>1 DEF Instance

\* The paths of the calls before those for the ribs.
LEMMA PathsBeforeRibs ==
  ASSUME NEW m \in Routing
  PROVE  /\ m.router_id # None => \A p \in PathsOf(RouterIdCall(m)) : Len(p) = 1
         /\ \A k \in DOMAIN m.interfaces : \A p \in PathsOf(NameCall(m, k)) :
              p = NamesPath \/ p = NamePath(k)
<1>1. ASSUME m.router_id # None, NEW p \in PathsOf(RouterIdCall(m)) PROVE Len(p) = 1
  <2>1. PICK n \in NodesOf(RouterIdCall(m)) : n.path = p
    BY <1>1 DEF PathsOf
  <2>2. p = <<Segment("router-id")>>
    BY <1>1, <2>1, RouterIdNodes
  <2>3. QED
    BY <2>2, TopPaths
<1>2. ASSUME NEW k \in DOMAIN m.interfaces, NEW p \in PathsOf(NameCall(m, k))
      PROVE  p = NamesPath \/ p = NamePath(k)
  <2>1. PICK n \in NodesOf(NameCall(m, k)) : n.path = p
    BY <1>2 DEF PathsOf
  <2>2. QED
    BY <2>1, NameCallNodes
<1>3. QED
  BY <1>1, <1>2

LEMMA NameLeads ==
  ASSUME NEW m \in Routing, m.cpps = <<>>, NEW k \in 1..Len(m.interfaces),
         NEW l \in 1..Len(m.interfaces), k < l, NEW D, D = Makers(RoutingCalls(m), NamePath(l))
  PROVE  Leads(RoutingCalls(m), NameCall(m, k), D)
<1>. DEFINE s1 == If(m.router_id # None, <<RouterIdCall(m)>>)
            s2 == [i \in DOMAIN m.interfaces |-> NameCall(m, i)]
            rr == [i \in DOMAIN m.ribs |-> RibCalls(m.ribs[i])]
            s4 == FlattenSeq(rr)
            none == <<>>
            c == NameCall(m, k)
            I == Len(m.interfaces)
<1>1. /\ RoutingCalls(m) = ((s1 \o s2) \o none) \o s4
      /\ I \in Nat /\ DOMAIN m.interfaces = 1..I
      /\ IsSeq(s1) /\ Range(s1) = IF m.router_id # None THEN {RouterIdCall(m)} ELSE {}
      /\ IsSeq(s2) /\ Len(s2) = I /\ \A i \in 1..I : s2[i] = NameCall(m, i)
      /\ IsSeq(s4)
  BY TheRoutingCalls
<1>2. IsSeq(none)
  BY NoElement
<1>3. Len(NamePath(l)) = 2 /\ NamePath(l) # NamesPath
  <2>1. Len(NamePath(l)) = 2 /\ Len(NamesPath) = 1
    BY NameShapes, TopPaths DEF NamesPath
  <2>2. QED
    BY <2>1
<1>. HIDE DEF s1, s2, s4, none
<1>4. Range(s1) \intersect D = {}
  <2>1. ASSUME m.router_id # None PROVE NamePath(l) \notin PathsOf(RouterIdCall(m))
    <3>1. \A p \in PathsOf(RouterIdCall(m)) : Len(p) = 1
      BY <2>1, PathsBeforeRibs
    <3>2. QED
      BY <1>3, <3>1
  <2>2. QED
    BY <1>1, <2>1 DEF Makers
<1>5. Leads(s2, c, D)
  <2>1. k \in DOMAIN s2 /\ s2[k] = c
    BY <1>1, SeqFacts
  <2>2. ASSUME NEW i \in 1..k PROVE s2[i] \notin D
    <3>1. i \in 1..I /\ i # l
      BY <1>1
    <3>2. NamePath(l) # NamePath(i)
      BY <3>1, SameName
    <3>3. NamePath(l) \notin PathsOf(NameCall(m, i))
      BY <1>1, <1>3, <3>1, <3>2, PathsBeforeRibs
    <3>4. QED
      BY <1>1, <3>1, <3>3 DEF Makers
  <2>3. QED
    BY <2>1, <2>2 DEF Leads
<1>. HIDE DEF c
<1>6. Leads(s1 \o s2, c, D) /\ IsSeq(s1 \o s2)
  BY <1>1, <1>4, <1>5, LeadsBehind, Concatenation
<1>7. Leads((s1 \o s2) \o none, c, D) /\ IsSeq((s1 \o s2) \o none)
  BY <1>2, <1>6, LeadsInFront, Concatenation
<1>8. Leads(((s1 \o s2) \o none) \o s4, c, D)
  BY <1>1, <1>7, LeadsInFront
<1>9. QED
  BY <1>1, <1>8 DEF c

LEMMA ReadsNames ==
  ASSUME NEW m, NEW nodes, Whole(nodes, m)
  PROVE  LET entries == EntriesOf(nodes, NamesPath, "interface") IN
         /\ Len(m.interfaces) \in Nat /\ DOMAIN m.interfaces = 1..Len(m.interfaces)
         /\ DOMAIN entries = 1..Len(m.interfaces)
         /\ \A k \in 1..Len(m.interfaces) : entries[k].value = m.interfaces[k]
<1>. DEFINE entries == EntriesOf(nodes, NamesPath, "interface")
            cs == RoutingCalls(m)
            I == Len(m.interfaces)
            P == [k \in 1..I |-> NamePath(k)]
            e == [i \in 1..I |-> i]
<1>1. /\ Held(m) /\ m \in Routing /\ m.cpps = <<>>
      /\ IsRoutingTree(nodes) /\ IsSeq(cs) /\ InOrder(nodes, cs, Len(cs))
      /\ \A n \in Range(nodes) : MadeRouting(n, m)
      /\ \A c \in Range(cs) : \A p \in PathsOf(c) : \E n \in Range(nodes) : n.path = p
  BY WholeFacts
<1>2. /\ I \in Nat /\ DOMAIN m.interfaces = 1..I
      /\ \A k \in 1..I : NameCall(m, k) \in Range(cs)
  BY <1>1, TheRoutingCalls
<1>3. \A n : n \in Range(entries) <=>
        /\ n \in Range(nodes) /\ MadeRouting(n, m) /\ Len(n.path) = 2
        /\ Front(n.path) = NamesPath /\ Last(n.path)[1] = "interface"
  <2>1. Len(NamesPath) = 1
    BY TopPaths DEF NamesPath
  <2>2. \A n : n \in Range(EntriesOf(nodes, NamesPath, "interface")) <=>
          /\ n \in Range(nodes) /\ MadeRouting(n, m) /\ Len(n.path) = Len(NamesPath) + 1
          /\ Front(n.path) = NamesPath /\ Last(n.path)[1] = "interface"
    BY ListEntries
  <2>. HIDE DEF entries
  <2>3. QED
    BY <2>1, <2>2 DEF entries
<1>4. \A k, l \in 1..I : P[k] = P[l] => k = l
  BY SameName
<1>5. ASSUME NEW n \in Range(entries) PROVE MadeName(n, m)
  BY <1>1, <1>3, EntryNodeOf
<1>6. \A n \in Range(entries) : \E k \in 1..I : n.path = P[k]
  BY <1>2, <1>5 DEF MadeName
<1>7. ASSUME NEW k \in 1..I
      PROVE  NamePath(k) \in PathsOf(NameCall(m, k)) /\ \E n \in Range(entries) : n.path = P[k]
  <2>1. NameCall(m, k).path = NamePath(k) /\ IsPath(NamePath(k))
    BY NameShapes DEF NameCall, PathCall
  <2>2. NamePath(k) \in PathsOf(NameCall(m, k))
    BY <2>1, PathAndAbove
  <2>3. PICK n \in Range(nodes) : n.path = NamePath(k)
    BY <1>1, <1>2, <2>2
  <2>4. /\ Len(n.path) = 2 /\ Front(n.path) = NamesPath /\ Last(n.path)[1] = "interface"
    BY <2>3, NameShapes DEF Instance
  <2>5. n \in Range(entries)
    BY <1>1, <1>3, <2>4
  <2>6. QED
    BY <2>2, <2>3, <2>5
<1>8. ASSUME NEW k \in 1..I, NEW l \in 1..I, k < l
      PROVE  \E c : P[k] \in PathsOf(c) /\ Leads(cs, c, Makers(cs, P[l]))
  <2>1. Leads(cs, NameCall(m, k), Makers(cs, NamePath(l)))
    BY <1>1, <1>8, NameLeads
  <2>2. QED
    BY <1>7, <2>1
<1>9. Enumerates(e, I, 1..I) /\ 1..I \in SUBSET Nat
  BY <1>2, WholeEnumeration
<1>. HIDE DEF entries, cs, e, P
<1>0. Ordered(cs, 1..I, P)
  BY <1>2, <1>8 DEF Ordered
<1>10. /\ DOMAIN entries = 1..I
       /\ \A i \in 1..I : entries[i] \in Range(nodes) /\ entries[i].path = P[e[i]]
  <2>1. ListedBy(entries, 1..I, P)
    BY <1>4, <1>6, <1>7 DEF ListedBy
  <2>2. entries = EntriesOf(nodes, NamesPath, "interface")
    BY DEF entries
  <2>. DEFINE C == 1..I
  <2>3. /\ ListedBy(entries, C, P) /\ Ordered(cs, C, P) /\ Enumerates(e, I, C)
        /\ C \in SUBSET Nat /\ I \in Nat
    BY <1>0, <1>2, <1>9, <2>1
  <2>. HIDE DEF C, I
  <2>4. IsRoutingTree(nodes) /\ IsSeq(cs) /\ InOrder(nodes, cs, Len(cs))
    BY <1>1
  <2>5. Follow(entries, nodes, P, I, e)
    BY <2>2, <2>3, <2>4, EntriesInOrder
  <2>6. QED
    BY <2>5 DEF Follow
<1>11. ASSUME NEW i \in 1..I PROVE entries[i].value = m.interfaces[i]
  <2>. DEFINE n == entries[i]
  <2>1. n \in Range(nodes) /\ n.path = NamePath(i)
    BY <1>10 DEF P, e
  <2>. HIDE DEF n
  <2>2. Len(n.path) = 2 /\ Last(n.path)[1] = "interface"
    BY <2>1, NameShapes DEF Instance
  <2>3. MadeName(n, m)
    BY <1>1, <2>1, <2>2, EntryNodeOf
  <2>4. PICK k \in DOMAIN m.interfaces : n.path = NamePath(k) /\ n.value = m.interfaces[k]
    BY <2>3 DEF MadeName
  <2>5. k = i
    BY <2>1, <2>4, SameName
  <2>6. QED
    BY <2>4, <2>5 DEF n
<1>12. QED
  BY <1>2, <1>10, <1>11 DEF entries

\* No call before those for ribs has such a path, nor has one for an earlier rib.
OnlyInRibs(path) == Len(path) # 1 /\ path # NamesPath /\ \A k : path # NamePath(k)

NotBefore(m, l, path) ==
  \A i \in 1..(l - 1) : \A c : IsCallOf(c, m.ribs[i]) => path \notin PathsOf(c)

LEMMA LeadsInRibs ==
  ASSUME NEW m \in Routing, m.cpps = <<>>, NEW l \in 1..Len(m.ribs),
         NEW path, OnlyInRibs(path), NotBefore(m, l, path),
         NEW D, D = Makers(RoutingCalls(m), path),
         NEW c, Leads(RibCalls(m.ribs[l]), c, D)
  PROVE  Leads(RoutingCalls(m), c, D)
<1>. DEFINE s1 == If(m.router_id # None, <<RouterIdCall(m)>>)
            s2 == [i \in DOMAIN m.interfaces |-> NameCall(m, i)]
            rr == [i \in DOMAIN m.ribs |-> RibCalls(m.ribs[i])]
            s4 == FlattenSeq(rr)
            none == <<>>
            I == Len(m.interfaces)
            R == Len(m.ribs)
<1>1. /\ RoutingCalls(m) = ((s1 \o s2) \o none) \o s4
      /\ I \in Nat /\ DOMAIN m.interfaces = 1..I
      /\ IsSeq(s1) /\ Range(s1) = IF m.router_id # None THEN {RouterIdCall(m)} ELSE {}
      /\ IsSeq(s2) /\ Len(s2) = I /\ \A i \in 1..I : s2[i] = NameCall(m, i)
      /\ IsSeq(s4) /\ DOMAIN rr = 1..R /\ rr = [k \in 1..R |-> rr[k]] /\ R \in Nat
      /\ \A k \in 1..R : m.ribs[k] \in Rib /\ IsSeq(rr[k]) /\ rr[k] = RibCalls(m.ribs[k])
  BY TheRoutingCalls
<1>2. IsSeq(none) /\ Range(none) = {}
  BY NoElement
<1>. HIDE DEF s1, s2, none
<1>3. Range(s1) \intersect D = {}
  <2>1. ASSUME m.router_id # None PROVE path \notin PathsOf(RouterIdCall(m))
    BY <2>1, PathsBeforeRibs DEF OnlyInRibs
  <2>2. QED
    BY <1>1, <2>1 DEF Makers
<1>4. Range(s2) \intersect D = {}
  <2>1. Range(s2) = {s2[k] : k \in 1..I}
    BY <1>1, SeqFacts
  <2>2. \A i \in 1..I : path \notin PathsOf(NameCall(m, i))
    BY <1>1, PathsBeforeRibs DEF OnlyInRibs
  <2>3. QED
    BY <1>1, <2>1, <2>2 DEF Makers
<1>5. IsSeq((s1 \o s2) \o none) /\ Range((s1 \o s2) \o none) \intersect D = {}
  <2>1. IsSeq(s1 \o s2) /\ Range(s1 \o s2) = Range(s1) \union Range(s2)
    BY <1>1, Concatenation
  <2>2. /\ IsSeq((s1 \o s2) \o none)
        /\ Range((s1 \o s2) \o none) = Range(s1 \o s2) \union Range(none)
    BY <1>2, <2>1, Concatenation
  <2>3. QED
    BY <1>2, <1>3, <1>4, <2>1, <2>2
<1>. HIDE DEF rr, R
<1>6. Leads(s4, c, D)
  <2>1. ASSUME NEW i \in 1..(l - 1) PROVE Range(rr[i]) \intersect D = {}
    <3>1. i \in 1..R
      BY <1>1 DEF R
    <3>2. \A d \in Range(rr[i]) : IsCallOf(d, m.ribs[i])
      BY <1>1, <3>1, TheRibCalls
    <3>3. QED
      BY <2>1, <3>2 DEF Makers, NotBefore
  <2>2. Leads(rr[l], c, D) /\ l \in 1..R
    BY <1>1 DEF R
  <2>3. R \in Nat /\ DOMAIN rr = 1..R /\ rr = [k \in 1..R |-> rr[k]] /\ \A k \in 1..R : IsSeq(rr[k])
    BY <1>1
  <2>4. QED
    BY <2>1, <2>2, <2>3, LeadsFlat
<1>. HIDE DEF s4
<1>7. Leads(((s1 \o s2) \o none) \o s4, c, D)
  BY <1>1, <1>5, <1>6, LeadsBehind
<1>8. QED
  BY <1>1, <1>7

\* The paths of the calls for a rib.
LEMMA PathsOfRibCall ==
  ASSUME NEW r \in Rib
  PROVE  /\ \A c : IsCallOf(c, r) => \A p \in PathsOf(c) :
              /\ Len(p) = 2 => p = RibBox(r)
              /\ Len(p) = 4 => \E k : p = RouteOf(r, k)
         /\ \A leaf, value : \A p \in PathsOf(LeafCallOf(r, leaf, value)) : Len(p) # 4
         /\ \A k : \A p \in PathsOf(RouteCallOf(r, k)) : Len(p) = 4 => p = RouteOf(r, k)
<1>a. Len(RibsPath) = 1
  BY TopPaths DEF RibsPath
<1>b. Len(RibBox(r)) = 2
  BY RibShapes
<1>c. Len(RouteBox(r)) = 3
  BY RibShapes
<1>d. ASSUME NEW s PROVE Len(Append(RibBox(r), s)) = 3
  BY RibShapes
<1>e. ASSUME NEW k PROVE Len(RouteOf(r, k)) = 4 /\ \A s : Len(Append(RouteOf(r, k), s)) = 5
  BY RouteShapes
<1>0. ASSUME NEW p, p = RibsPath \/ p = RibBox(r) \/ p = RouteBox(r)
      PROVE  (Len(p) = 1 \/ Len(p) = 2 \/ Len(p) = 3) /\ (Len(p) = 2 => p = RibBox(r))
  <2>1. CASE p = RibsPath
    <3>1. Len(p) = 1
      BY <1>a, <2>1
    <3>2. QED
      BY <3>1
  <2>2. CASE p = RibBox(r)
    <3>1. Len(p) = 2
      BY <1>b, <2>2
    <3>2. QED
      BY <2>2, <3>1
  <2>3. CASE p = RouteBox(r)
    <3>1. Len(p) = 3
      BY <1>c, <2>3
    <3>2. QED
      BY <3>1
  <2>4. QED
    BY <1>0, <2>1, <2>2, <2>3
<1>1. ASSUME NEW c, IsCallOf(c, r), NEW p \in PathsOf(c)
      PROVE  (Len(p) = 2 => p = RibBox(r)) /\ (Len(p) = 4 => \E k : p = RouteOf(r, k))
  <2>1. PICK n \in NodesOf(c) : n.path = p
    BY <1>1 DEF PathsOf
  <2>2. p = RibsPath \/ MadeRib(n, r)
    BY <1>1, <2>1, RibCallNodes
  <2>3. \/ p = RibsPath \/ p = RibBox(r) \/ p = RouteBox(r) \/ (\E s : p = Append(RibBox(r), s))
        \/ (\E k : p = RouteOf(r, k)) \/ \E k, s : p = Append(RouteOf(r, k), s)
    BY <2>1, <2>2 DEF MadeRib, MadeRoute, IsLeaf
  <2>4. CASE p = RibsPath \/ p = RibBox(r) \/ p = RouteBox(r)
    <3>1. (Len(p) = 1 \/ Len(p) = 2 \/ Len(p) = 3) /\ (Len(p) = 2 => p = RibBox(r))
      BY <1>0, <2>4
    <3>2. QED
      BY <3>1
  <2>5. CASE \E s : p = Append(RibBox(r), s)
    <3>1. Len(p) = 3
      BY <1>d, <2>5
    <3>2. QED
      BY <3>1
  <2>6. CASE \E k : p = RouteOf(r, k)
    <3>1. Len(p) = 4
      BY <1>e, <2>6
    <3>2. QED
      BY <2>6, <3>1
  <2>7. CASE \E k, s : p = Append(RouteOf(r, k), s)
    <3>1. Len(p) = 5
      BY <1>e, <2>7
    <3>2. QED
      BY <3>1
  <2>8. QED
    BY <2>3, <2>4, <2>5, <2>6, <2>7
<1>2. ASSUME NEW leaf, NEW value, NEW p \in PathsOf(LeafCallOf(r, leaf, value))
      PROVE  Len(p) # 4
  <2>1. PICK n \in NodesOf(LeafCallOf(r, leaf, value)) : n.path = p
    BY <1>2 DEF PathsOf
  <2>2. IsSeq(RibBox(r)) /\ \A s \in Range(RibBox(r)) : IsSegment(s)
    BY RibShapes
  <2>3. \/ n \in NodesOf(PathCall(RibBox(r), None, {}))
        \/ IsLeaf(n, RibBox(r), leaf, Stored(<<leaf, value>>))
    BY <2>1, <2>2, LeafNode DEF LeafCallOf
  <2>4. \/ p = RibsPath \/ p = RibBox(r) \/ \E s : p = Append(RibBox(r), s)
    BY <2>1, <2>3, NodesOfRibBox DEF IsLeaf
  <2>5. Len(p) = 1 \/ Len(p) = 2 \/ Len(p) = 3
    <3>1. ASSUME NEW s, p = Append(RibBox(r), s) PROVE Len(p) = 3
      BY <1>d, <3>1
    <3>2. ASSUME p = RibsPath \/ p = RibBox(r) PROVE Len(p) = 1 \/ Len(p) = 2 \/ Len(p) = 3
      BY <1>0, <3>2
    <3>3. QED
      BY <2>4, <3>1, <3>2
  <2>6. QED
    BY <2>5
<1>3. ASSUME NEW k, NEW p \in PathsOf(RouteCallOf(r, k)), Len(p) = 4
      PROVE  p = RouteOf(r, k)
  <2>1. PICK n \in NodesOf(RouteCallOf(r, k)) : n.path = p
    BY <1>3 DEF PathsOf
  <2>2. IsSeq(RouteOf(r, k)) /\ \A s \in Range(RouteOf(r, k)) : IsSegment(s)
    BY RouteShapes
  <2>3. \/ n \in NodesOf(PathCall(RouteOf(r, k), None, {}))
        \/ IsLeaf(n, RouteOf(r, k), "route-preference", Stored(<<"route-preference", r.routes[k]>>))
    BY <2>1, <2>2, LeafNode DEF RouteCallOf
  <2>4. \/ p = RibsPath \/ p = RibBox(r) \/ p = RouteBox(r) \/ p = RouteOf(r, k)
        \/ (\E s : p = Append(RibBox(r), s)) \/ (\E s : p = Append(RouteOf(r, k), s))
    BY <2>1, <2>3, NodesOfRoute DEF IsLeaf
  <2>5. p = RibsPath \/ p = RibBox(r) \/ p = RouteBox(r) => Len(p) # 4
    <3>1. ASSUME p = RibsPath \/ p = RibBox(r) \/ p = RouteBox(r)
          PROVE  Len(p) = 1 \/ Len(p) = 2 \/ Len(p) = 3
      BY <1>0, <3>1
    <3>2. QED
      BY <3>1
  <2>6. ASSUME NEW s, p = Append(RibBox(r), s) PROVE Len(p) = 3
    BY <1>d, <2>6
  <2>7. ASSUME NEW s, p = Append(RouteOf(r, k), s) PROVE Len(p) = 5
    BY <1>e, <2>7
  <2>8. 3 # 4 /\ 5 # 4
    OBVIOUS
  <2>9. QED
    BY <1>3, <2>4, <2>5, <2>6, <2>7, <2>8
<1>4. QED
  BY <1>1, <1>2, <1>3

LEMMA RibLeads ==
  ASSUME NEW m, Held(m), NEW k \in 1..Len(m.ribs), NEW l \in 1..Len(m.ribs), k < l,
         NEW path, path = RibBox(m.ribs[l]), NEW D, D = Makers(RoutingCalls(m), path),
         NEW c, IsCallOf(c, m.ribs[k])
  PROVE  Leads(RoutingCalls(m), c, D)
<1>1. m \in Routing /\ m.cpps = <<>>
  BY DEF Held
<1>2. /\ DOMAIN m.ribs = 1..Len(m.ribs) /\ Len(m.ribs) \in Nat
      /\ \A i \in 1..Len(m.ribs) : m.ribs[i] \in Rib
  BY <1>1, TheRoutingCalls
<1>3. /\ Len(path) = 2 /\ Front(path) = RibsPath
  BY <1>2, RibShapes
<1>4. OnlyInRibs(path)
  <2>1. Len(NamesPath) = 1 /\ \A i : Front(NamePath(i)) = NamesPath
    BY TopPaths, NameShapes DEF NamesPath
  <2>2. NamesPath # RibsPath
    BY TopPaths, SamePath DEF NamesPath, RibsPath
  <2>3. \A i : path # NamePath(i)
    BY <1>3, <2>1, <2>2
  <2>4. Len(path) # 1 /\ path # NamesPath
    BY <1>3, <2>1
  <2>5. QED
    BY <2>3, <2>4 DEF OnlyInRibs
<1>5. ASSUME NEW i \in 1..k, NEW d, IsCallOf(d, m.ribs[i]) PROVE path \notin PathsOf(d)
  <2>1. i \in 1..Len(m.ribs) /\ i # l
    BY <1>2
  <2>2. m.ribs[i].name # m.ribs[l].name
    BY <1>2, <2>1 DEF Held
  <2>3. RibBox(m.ribs[i]) # path
    BY <1>2, <2>1, <2>2, SameRib
  <2>4. QED
    BY <1>2, <1>3, <1>5, <2>1, <2>3, PathsOfRibCall
<1>6. Leads(RibCalls(m.ribs[k]), c, D)
  <2>. DEFINE s == RibCalls(m.ribs[k])
  <2>1. IsSeq(s) /\ \A d : d \in Range(s) <=> IsCallOf(d, m.ribs[k])
    BY <1>2, TheRibCalls
  <2>2. k \in 1..k
    BY <1>2
  <2>3. Range(s) \intersect D = {} /\ c \in Range(s)
    BY <1>5, <2>1, <2>2 DEF Makers
  <2>. HIDE DEF s
  <2>4. QED
    BY <2>1, <2>3, LeadsAll DEF s
<1>7. NotBefore(m, k, path)
  <2>1. \A i \in 1..(k - 1) : i \in 1..k
    BY <1>2
  <2>2. QED
    BY <1>5, <2>1 DEF NotBefore
<1>8. QED
  BY <1>1, <1>4, <1>6, <1>7, LeadsInRibs

\* The entries of the list rib: those of the ribs, in their order.
LEMMA ReadsRibEntries ==
  ASSUME NEW m, NEW nodes, Whole(nodes, m)
  PROVE  LET entries == EntriesOf(nodes, RibsPath, "rib") IN
         /\ Len(m.ribs) \in Nat /\ DOMAIN m.ribs = 1..Len(m.ribs)
         /\ DOMAIN entries = 1..Len(m.ribs)
         /\ \A k \in 1..Len(m.ribs) : entries[k].path = RibBox(m.ribs[k])
<1>. DEFINE entries == EntriesOf(nodes, RibsPath, "rib")
            cs == RoutingCalls(m)
            R == Len(m.ribs)
            C == 1..R
            P == [k \in C |-> RibBox(m.ribs[k])]
            e == [i \in 1..R |-> i]
            First(k) == LeafCallOf(m.ribs[k], "name", m.ribs[k].name)
<1>1. /\ Held(m) /\ m \in Routing /\ m.cpps = <<>>
      /\ IsRoutingTree(nodes) /\ IsSeq(cs) /\ InOrder(nodes, cs, Len(cs))
      /\ \A n \in Range(nodes) : MadeRouting(n, m)
      /\ \A c \in Range(cs) : \A p \in PathsOf(c) : \E n \in Range(nodes) : n.path = p
  BY WholeFacts
<1>2. /\ R \in Nat /\ DOMAIN m.ribs = 1..R /\ \A k \in 1..R : m.ribs[k] \in Rib
  BY <1>1, TheRoutingCalls
<1>3. \A n : n \in Range(entries) <=>
        /\ n \in Range(nodes) /\ MadeRouting(n, m) /\ Len(n.path) = 2
        /\ Front(n.path) = RibsPath /\ Last(n.path)[1] = "rib"
  <2>1. Len(RibsPath) = 1
    BY TopPaths DEF RibsPath
  <2>2. \A n : n \in Range(EntriesOf(nodes, RibsPath, "rib")) <=>
          /\ n \in Range(nodes) /\ MadeRouting(n, m) /\ Len(n.path) = Len(RibsPath) + 1
          /\ Front(n.path) = RibsPath /\ Last(n.path)[1] = "rib"
    BY ListEntries
  <2>. HIDE DEF entries
  <2>3. QED
    BY <2>1, <2>2 DEF entries
<1>4. ASSUME NEW k \in C, NEW l \in C, P[k] = P[l] PROVE k = l
  <2>1. m.ribs[k].name = m.ribs[l].name
    BY <1>2, <1>4, SameRib
  <2>2. QED
    BY <1>1, <1>2, <2>1 DEF Held
<1>5. ASSUME NEW n \in Range(entries) PROVE \E k \in C : n.path = P[k]
  <2>1. \E k \in DOMAIN m.ribs : n.path = RibBox(m.ribs[k])
    BY <1>1, <1>3, EntryNodeOf
  <2>2. QED
    BY <1>2, <2>1
<1>6. ASSUME NEW k \in C
      PROVE  RibBox(m.ribs[k]) \in PathsOf(First(k)) /\ \E n \in Range(entries) : n.path = P[k]
  <2>. DEFINE r == m.ribs[k]
              c == First(k)
  <2>1. r \in Rib /\ IsCallOf(c, r) /\ c \in Range(cs)
    <3>1. IsCallOf(c, r)
      BY DEF IsCallOf
    <3>2. QED
      BY <1>2, <3>1, CallsOfRib DEF RibIn
  <2>. HIDE DEF r, c
  <2>2. c.path = Append(RibBox(r), Segment("name"))
    BY DEF LeafCallOf, PathCall, r, c
  <2>3. /\ Front(c.path) = RibBox(r) /\ Len(c.path) = 3 /\ IsPath(c.path)
    <3>1. Front(c.path) = RibBox(r) /\ Len(c.path) = 3
      BY <2>1, <2>2, RibShapes
    <3>2. /\ IsSeq(RibBox(r)) /\ (\A s \in Range(RibBox(r)) : IsSegment(s))
          /\ IsSegment(Segment("name"))
      BY <2>1, RibShapes, InterfaceSegments
    <3>3. IsPath(Append(RibBox(r), Segment("name")))
      BY <3>2, LongerPath
    <3>4. QED
      BY <2>2, <3>1, <3>3
  <2>4. RibBox(r) \in PathsOf(c)
    BY <2>3, PathAndAbove
  <2>5. PICK n \in Range(nodes) : n.path = RibBox(r)
    BY <1>1, <2>1, <2>4
  <2>6. /\ Len(n.path) = 2 /\ Front(n.path) = RibsPath /\ Last(n.path)[1] = "rib"
    BY <2>1, <2>5, RibShapes DEF Entry
  <2>7. n \in Range(entries)
    BY <1>1, <1>3, <2>6
  <2>8. QED
    BY <2>4, <2>5, <2>7 DEF r, c
<1>7. Ordered(cs, C, P)
  <2>1. ASSUME NEW k \in C, NEW l \in C, k < l
        PROVE  \E c : P[k] \in PathsOf(c) /\ Leads(cs, c, Makers(cs, P[l]))
    <3>1. IsCallOf(First(k), m.ribs[k])
      BY DEF IsCallOf
    <3>2. P[l] = RibBox(m.ribs[l])
      OBVIOUS
    <3>. HIDE DEF First
    <3>3. Leads(cs, First(k), Makers(cs, RibBox(m.ribs[l])))
      BY <1>1, <2>1, <3>1, RibLeads
    <3>4. QED
      BY <1>6, <3>2, <3>3
  <2>2. QED
    BY <2>1 DEF Ordered
<1>8. Enumerates(e, R, C) /\ C \in SUBSET Nat
  BY <1>2, WholeEnumeration
<1>9. ListedBy(entries, C, P)
  BY <1>4, <1>5, <1>6 DEF ListedBy
<1>10. entries = EntriesOf(nodes, RibsPath, "rib")
  OBVIOUS
<1>11. /\ IsRoutingTree(nodes) /\ IsSeq(cs) /\ InOrder(nodes, cs, Len(cs)) /\ R \in Nat
  BY <1>1, <1>2
<1>. HIDE DEF entries, cs, e, P, C, R
<1>12. Follow(entries, nodes, P, R, e)
  BY <1>7, <1>8, <1>9, <1>10, <1>11, EntriesInOrder
<1>13. /\ DOMAIN entries = 1..R /\ \A k \in 1..R : entries[k].path = RibBox(m.ribs[k])
  BY <1>12 DEF Follow, P, e, C
<1>14. QED
  BY <1>2, <1>13 DEF entries, R

LEMMA RouteLeads ==
  ASSUME NEW m, Held(m), NEW l \in 1..Len(m.ribs), NEW r, r = m.ribs[l],
         NEW j, HasRoute(r, j), NEW k, HasRoute(r, k), j < k,
         NEW path, path = RouteOf(r, k), NEW D, D = Makers(RoutingCalls(m), path)
  PROVE  Leads(RoutingCalls(m), RouteCallOf(r, j), D)
<1>. DEFINE C(i) == RouteCallOf(r, i)
            s0 == <<LeafCallOf(r, "name", r.name)>>
            s12 == << LeafCallOf(r, "address-family", r.address_family) >>
                   \o If(r.description # None, <<LeafCallOf(r, "description", r.description)>>)
            s3 == RouteCalls(RibBox(r), "routes", r.routes, {})
            ss == [i \in DOMAIN r.routes |-> If(r.routes[i] # None, <<C(i)>>)]
            n == Len(r.routes)
<1>1. m \in Routing /\ m.cpps = <<>>
  BY DEF Held
<1>2. /\ DOMAIN m.ribs = 1..Len(m.ribs) /\ Len(m.ribs) \in Nat
      /\ \A i \in 1..Len(m.ribs) : m.ribs[i] \in Rib
  BY <1>1, TheRoutingCalls
<1>3. r \in Rib
  BY <1>2
<1>4. Len(path) = 4
  BY <1>3, RouteShapes
<1>5. OnlyInRibs(path)
  <2>1. Len(NamesPath) = 1 /\ \A i : Len(NamePath(i)) = 2
    BY TopPaths, NameShapes DEF NamesPath
  <2>2. \A i : path # NamePath(i)
    BY <1>4, <2>1
  <2>3. Len(path) # 1 /\ path # NamesPath
    BY <1>4, <2>1
  <2>4. QED
    BY <2>2, <2>3 DEF OnlyInRibs
<1>6. NotBefore(m, l, path)
  <2>1. ASSUME NEW i \in 1..(l - 1), NEW c, IsCallOf(c, m.ribs[i]), path \in PathsOf(c)
        PROVE  FALSE
    <3>. DEFINE q == m.ribs[i]
    <3>1. i \in 1..Len(m.ribs) /\ i # l
      BY <1>2
    <3>2. q \in Rib /\ q.name # r.name
      BY <1>2, <3>1 DEF Held
    <3>. HIDE DEF q
    <3>3. PICK g : path = RouteOf(q, g)
      BY <1>4, <2>1, <3>2, PathsOfRibCall DEF q
    <3>4. RouteOf(q, g) = RouteOf(r, k)
      BY <3>3
    <3>5. q.name = r.name
      BY <1>3, <3>2, <3>4, SameRib
    <3>6. QED
      BY <3>2, <3>5
  <2>2. QED
    BY <2>1 DEF NotBefore
<1>7. /\ RibCalls(r) = s0 \o (s12 \o s3)
      /\ IsSeq(s0) /\ IsSeq(s12) /\ IsSeq(s3) /\ IsSeq(s12 \o s3)
      /\ Range(s0) = {LeafCallOf(r, "name", r.name)}
      /\ \A c : c \in Range(s12) =>
           \/ c = LeafCallOf(r, "address-family", r.address_family)
           \/ c = LeafCallOf(r, "description", r.description)
  BY <1>3, TheRibCalls
<1>8. /\ s3 = FlattenSeq(ss) /\ n \in Nat /\ DOMAIN r.routes = 1..n
      /\ DOMAIN ss = 1..n /\ ss = [i \in 1..n |-> ss[i]]
      /\ \A i \in 1..n : /\ IsSeq(ss[i])
                         /\ \A c : c \in Range(ss[i]) <=> HasRoute(r, i) /\ c = C(i)
  BY <1>3, TheRouteCalls
<1>9. \A leaf, value : LeafCallOf(r, leaf, value) \notin D
  BY <1>3, <1>4, PathsOfRibCall DEF Makers
<1>10. ASSUME NEW i, i # k PROVE C(i) \notin D
  <2>1. ASSUME path \in PathsOf(C(i)) PROVE FALSE
    <3>1. RouteOf(r, k) = RouteOf(r, i)
      BY <1>3, <1>4, <2>1, PathsOfRibCall
    <3>2. QED
      BY <1>3, <1>10, <3>1, SameRib
  <2>2. QED
    BY <2>1 DEF Makers
<1>. HIDE DEF ss, s0, s12, s3, C
<1>11. Range(s0) \intersect D = {} /\ Range(s12) \intersect D = {}
  BY <1>7, <1>9
<1>12. j \in 1..n /\ k \in 1..n
  BY <1>8 DEF HasRoute
<1>13. \A i \in 1..n : i < k => Range(ss[i]) \intersect D = {}
  <2>1. ASSUME NEW i \in 1..n, i < k PROVE Range(ss[i]) \intersect D = {}
    <3>1. i # k
      BY <1>12, <2>1
    <3>2. QED
      BY <1>8, <1>10, <3>1
  <2>2. QED
    BY <2>1
<1>14. Leads(ss[j], C(j), D)
  <2>1. C(j) \in Range(ss[j])
    BY <1>8, <1>12
  <2>2. IsSeq(ss[j]) /\ Range(ss[j]) \intersect D = {}
    BY <1>8, <1>12, <1>13
  <2>3. QED
    BY <2>1, <2>2, LeadsAll
<1>15. Leads(FlattenSeq(ss), C(j), D)
  <2>1. \A i \in 1..(j - 1) : Range(ss[i]) \intersect D = {}
    <3>1. \A i \in 1..(j - 1) : i \in 1..n /\ i < k
      BY <1>8, <1>12
    <3>2. QED
      BY <1>13, <3>1
  <2>2. DOMAIN ss = 1..n /\ ss = [i \in 1..n |-> ss[i]] /\ n \in Nat /\ \A i \in 1..n : IsSeq(ss[i])
    BY <1>8
  <2>. HIDE DEF n
  <2>3. QED
    BY <1>12, <1>14, <2>1, <2>2, LeadsFlat
<1>16. Leads(s12 \o s3, C(j), D)
  BY <1>7, <1>8, <1>11, <1>15, LeadsBehind
<1>17. Leads(s0 \o (s12 \o s3), C(j), D)
  BY <1>7, <1>11, <1>16, LeadsBehind
<1>18. Leads(RibCalls(m.ribs[l]), C(j), D)
  BY <1>7, <1>17
<1>19. QED
  BY <1>1, <1>5, <1>6, <1>18, LeadsInRibs DEF C

\* The routes of a rib: those that have a preference, with it, in their order.
LEMMA PreferencesPicked ==
  ASSUME NEW routes, IsSeq(routes)
  PROVE  LET C == {j \in 1..Len(routes) : routes[j] # None} IN
         \E n, e : n \in Nat /\ Enumerates(e, n, C) /\ Preferences(routes) = Picked(routes, e, n)
<1>. DEFINE N == Len(routes)
            C == {j \in 1..N : routes[j] # None}
            ss == [k \in DOMAIN routes |-> If(routes[k] # None, <<routes[k]>>)]
<1>1. N \in Nat /\ DOMAIN routes = 1..N
  BY SeqFacts
<1>2. Selects(ss, N, C, routes)
  <2>1. DOMAIN ss = 1..N /\ ss = [k \in 1..N |-> ss[k]]
    BY <1>1
  <2>2. \A k \in 1..N : ss[k] = IF k \in C THEN <<routes[k]>> ELSE <<>>
    BY <1>1 DEF If
  <2>. HIDE DEF ss, C
  <2>3. QED
    BY <2>1, <2>2 DEF Selects
<1>3. Preferences(routes) = FlattenSeq(ss) /\ C \in SUBSET (1..N)
  BY DEF Preferences
<1>. HIDE DEF ss, C, N
<1>4. PICK n, e : n \in Nat /\ Enumerates(e, n, C) /\ FlattenSeq(ss) = Picked(routes, e, n)
  BY <1>1, <1>2, <1>3, Selected
<1>5. QED
  BY <1>3, <1>4 DEF C, N

RouteRead(nodes, r, j) ==
  /\ RouteOf(r, j) \in PathsOf(RouteCallOf(r, j))
  /\ \E n \in Range(EntriesOf(nodes, RouteBox(r), "route")) : n.path = RouteOf(r, j)
  /\ NodeValue(nodes, Append(RouteOf(r, j), Segment("route-preference"))) = r.routes[j]

LEMMA RouteEntry ==
  ASSUME NEW m, NEW nodes, Whole(nodes, m), NEW r, RibIn(m, r), NEW j, HasRoute(r, j)
  PROVE  RouteRead(nodes, r, j)
<1>. DEFINE c == RouteCallOf(r, j)
            leaf == Append(RouteOf(r, j), Segment("route-preference"))
<1>1. /\ Held(m) /\ m \in Routing /\ m.cpps = <<>> /\ IsSeq(nodes)
      /\ \A n \in Range(nodes) : MadeRouting(n, m)
      /\ \A d \in Range(RoutingCalls(m)) : \A p \in PathsOf(d) : \E n \in Range(nodes) : n.path = p
  BY WholeFacts
<1>3. r \in Rib /\ c \in Range(RoutingCalls(m))
  <2>1. IsCallOf(c, r)
    BY DEF IsCallOf
  <2>2. QED
    BY <2>1, CallsOfRib
<1>4. c.path = leaf
  BY DEF RouteCallOf, PathCall
<1>. HIDE DEF c
<1>5. IsPath(leaf)
  <2>1. /\ IsSeq(RouteOf(r, j)) /\ (\A s \in Range(RouteOf(r, j)) : IsSegment(s))
        /\ IsSegment(Segment("route-preference"))
    BY <1>3, RouteShapes, InterfaceSegments
  <2>2. QED
    BY <2>1, LongerPath
<1>6. Len(leaf) = 5 /\ Front(leaf) = RouteOf(r, j)
  BY <1>3, RouteShapes
<1>. HIDE DEF leaf
<1>7. PICK v \in Range(nodes) : MadeRouting(v, m) /\ v.path = leaf /\ NodeValue(nodes, leaf) = v.value
  BY <1>3, <1>4, <1>5, ValueAtPath
<1>8. v.value = r.routes[j]
  <2>1. v.path = Append(RouteOf(r, j), Segment("route-preference"))
    BY <1>7 DEF leaf
  <2>2. Held(m) /\ MadeRouting(v, m)
    BY <1>1, <1>7
  <2>. HIDE DEF leaf
  <2>3. QED
    BY <2>1, <2>2, PreferenceNodeOf
<1>9. RouteOf(r, j) \in PathsOf(c)
  <2>1. IsPath(c.path) /\ Len(c.path) > 1 /\ Front(c.path) = RouteOf(r, j)
    BY <1>4, <1>5, <1>6
  <2>2. QED
    BY <2>1, PathAndAbove
<1>10. PICK n \in Range(nodes) : n.path = RouteOf(r, j)
  BY <1>1, <1>3, <1>9
<1>11. Front(n.path) = RouteBox(r) /\ Last(n.path)[1] = "route"
  BY <1>3, <1>10, RouteShapes DEF Instance
<1>12. n \in Range(EntriesOf(nodes, RouteBox(r), "route"))
  BY <1>1, <1>11, Entries
<1>13. QED
  BY <1>7, <1>8, <1>9, <1>10, <1>12 DEF leaf, c, RouteRead

LEMMA ReadsRoutes ==
  ASSUME NEW m, NEW nodes, Whole(nodes, m), NEW r, RibIn(m, r)
  PROVE  ReadRoutes(nodes, RouteBox(r)) = Preferences(r.routes)
<1>. DEFINE entries == EntriesOf(nodes, RouteBox(r), "route")
            cs == RoutingCalls(m)
            C == {j \in 1..Len(r.routes) : r.routes[j] # None}
            P == [j \in C |-> RouteOf(r, j)]
            Value(path) == NodeValue(nodes, Append(path, Segment("route-preference")))
<1>1. /\ Held(m) /\ m \in Routing /\ m.cpps = <<>>
      /\ IsRoutingTree(nodes) /\ IsSeq(cs) /\ InOrder(nodes, cs, Len(cs))
  BY WholeFacts
<1>2. PICK l \in 1..Len(m.ribs) : r = m.ribs[l]
  BY <1>1, TheRoutingCalls DEF RibIn
<1>3. r \in Rib
  BY CallsOfRib
<1>4. IsSeq(r.routes) /\ Len(r.routes) \in Nat /\ DOMAIN r.routes = 1..Len(r.routes)
  <2>1. r.routes \in Seq(Optional(Prefs))
    BY <1>3, RibFields
  <2>2. QED
    BY <2>1, SequenceOver, SeqFacts
<1>5. \A j : j \in C <=> HasRoute(r, j)
  BY <1>4 DEF HasRoute
<1>6. PICK n, e : n \in Nat /\ Enumerates(e, n, C) /\ Preferences(r.routes) = Picked(r.routes, e, n)
  BY <1>4, PreferencesPicked
<1>7. \A j, k \in C : P[j] = P[k] => j = k
  BY <1>3, SameRib
<1>8. ASSUME NEW q \in Range(entries) PROVE \E j \in C : q.path = P[j]
  <2>1. Len(RouteBox(r)) = 3
    BY <1>3, RibShapes
  <2>2. /\ MadeRouting(q, m) /\ Len(q.path) = Len(RouteBox(r)) + 1 /\ Front(q.path) = RouteBox(r)
    BY ListEntries
  <2>3. Len(q.path) = 4
    BY <2>1, <2>2
  <2>4. PICK j : HasRoute(r, j) /\ q.path = RouteOf(r, j)
    BY <1>1, <2>2, <2>3, RouteNodeOf
  <2>5. QED
    BY <1>5, <2>4
<1>9. ASSUME NEW j \in C
      PROVE  /\ P[j] = RouteOf(r, j) /\ P[j] \in PathsOf(RouteCallOf(r, j))
             /\ (\E q \in Range(entries) : q.path = P[j])
             /\ Value(P[j]) = r.routes[j]
  <2>1. HasRoute(r, j) /\ P[j] = RouteOf(r, j)
    BY <1>5
  <2>2. /\ RouteOf(r, j) \in PathsOf(RouteCallOf(r, j))
        /\ \E q \in Range(EntriesOf(nodes, RouteBox(r), "route")) : q.path = RouteOf(r, j)
        /\ NodeValue(nodes, Append(RouteOf(r, j), Segment("route-preference"))) = r.routes[j]
    BY <2>1, RouteEntry DEF RouteRead
  <2>. HIDE DEF P
  <2>3. QED
    BY <2>1, <2>2
<1>. HIDE DEF C, Value
<1>10. Ordered(cs, C, P)
  <2>1. ASSUME NEW j \in C, NEW k \in C, j < k
        PROVE  \E c : P[j] \in PathsOf(c) /\ Leads(cs, c, Makers(cs, P[k]))
    <3>1. HasRoute(r, j) /\ HasRoute(r, k)
      BY <1>5
    <3>2. Leads(cs, RouteCallOf(r, j), Makers(cs, RouteOf(r, k)))
      BY <1>1, <1>2, <2>1, <3>1, RouteLeads
    <3>3. QED
      BY <1>9, <3>2
  <2>2. QED
    BY <2>1 DEF Ordered
<1>11. ListedBy(entries, C, P)
  BY <1>7, <1>8, <1>9 DEF ListedBy
<1>12. C \in SUBSET Nat
  BY <1>4 DEF C
<1>13. entries = EntriesOf(nodes, RouteBox(r), "route")
  OBVIOUS
<1>. HIDE DEF entries, cs, P
<1>14. Follow(entries, nodes, P, n, e)
  BY <1>1, <1>6, <1>10, <1>11, <1>12, <1>13, EntriesInOrder
<1>15. ReadRoutes(nodes, RouteBox(r)) = [i \in DOMAIN entries |-> Value(entries[i].path)]
  BY DEF ReadRoutes, entries, Value
<1>16. ASSUME NEW i \in 1..n PROVE Value(entries[i].path) = r.routes[e[i]]
  <2>1. e[i] \in C
    BY <1>6 DEF Enumerates
  <2>2. entries[i].path = P[e[i]]
    BY <1>14 DEF Follow
  <2>3. QED
    BY <1>9, <2>1, <2>2
<1>17. DOMAIN entries = 1..n
  BY <1>14 DEF Follow
<1>18. QED
  BY <1>6, <1>15, <1>16, <1>17 DEF Picked

-----------------------------------------------------------------------------
(* What the functions carry *)

\* Adding names one by one gives the first ones.
LEMMA FirstOnesAdded ==
  ASSUME NEW nodes, IsSeq(nodes), NEW s, IsSeq(s), Len(s) = Len(nodes),
         \A k \in 1..Len(nodes) : nodes[k].value = s[k]
  PROVE  AddNames(<<>>, nodes) = FirstOnes(s)
<1>. DEFINE N == Len(nodes)
            none == <<>>
            new(k) == \A j \in 1..(k - 1) : s[j] # s[k]
            ss == [k \in DOMAIN s |-> If(new(k), <<s[k]>>)]
<1>1. /\ N \in Nat /\ DOMAIN s = 1..N /\ \A k \in 1..N : nodes[k].value = s[k]
  BY SeqFacts
<1>2. PICK h : /\ h[0] = none /\ AddNames(none, nodes) = h[N]
               /\ \A k \in 1..N : h[k] = AddName(h[k - 1], nodes[k].value)
  BY AddNamesSteps
<1>3. DOMAIN ss = 1..N /\ ss = [k \in 1..N |-> ss[k]]
  BY <1>1
<1>4. ASSUME NEW k \in 1..N
      PROVE  /\ new(k) => ss[k] = <<s[k]>>
             /\ ~new(k) => ss[k] = none
             /\ IsSeq(ss[k])
  <2>1. /\ new(k) => ss[k] = <<s[k]>>
        /\ ~new(k) => ss[k] = none
    BY <1>1 DEF If
  <2>2. IsSeq(<<s[k]>>) /\ IsSeq(none)
    BY OneElement, NoElement
  <2>. HIDE DEF new, ss, none
  <2>3. QED
    BY <2>1, <2>2
<1>5. FirstOnes(s) = FlattenSeq(ss)
  BY DEF FirstOnes
<1>. HIDE DEF ss, N
<1>6. PICK g : /\ g[0] = none /\ FlattenSeq(ss) = g[N]
               /\ \A m \in 0..(N - 1) : IsSeq(g[m]) => g[m + 1] = g[m] \o ss[m + 1]
  <2>1. N \in Nat /\ \A k \in 1..N : IsSeq(ss[k])
    BY <1>1, <1>4
  <2>2. \E g : Parts(g, ss, N)
    BY <1>3, <2>1, FlattenParts
  <2>3. QED
    BY <2>2 DEF Parts
<1>. DEFINE Same(k) == IsSeq(g[k]) /\ h[k] = g[k] /\ Range(g[k]) = {s[j] : j \in 1..k}
            T == {k \in 0..N : Same(k)}
<1>7. 0 \in T
  <2>1. {s[j] : j \in 1..0} = {}
    OBVIOUS
  <2>2. IsSeq(none) /\ Range(none) = {}
    BY NoElement
  <2>. HIDE DEF none
  <2>3. QED
    BY <1>1, <1>2, <1>6, <2>1, <2>2
<1>8. ASSUME NEW k \in 0..(N - 1), k \in T PROVE k + 1 \in T
  <2>. DEFINE old == g[k]
              x == s[k + 1]
              l == k + 1
  <2>1. k \in Nat /\ l \in 0..N /\ l \in 1..N /\ l - 1 = k
    BY <1>1
  <2>2. IsSeq(old) /\ h[k] = old /\ Range(old) = {s[j] : j \in 1..k}
    BY <1>8
  <2>3. g[l] = old \o ss[l]
    BY <1>6, <2>2
  <2>4. h[l] = AddName(old, x)
    BY <1>1, <1>2, <2>1, <2>2
  <2>5. {s[j] : j \in 1..l} = {s[j] : j \in 1..k} \union {x}
    <3>1. 1..l = (1..k) \union {l}
      BY <2>1
    <3>2. QED
      BY <3>1
  <2>6. new(l) <=> x \notin Range(old)
    BY <2>1, <2>2
  <2>7. /\ new(l) => ss[l] = <<x>>
        /\ ~new(l) => ss[l] = none
    BY <1>4, <2>1
  <2>. HIDE DEF old, x, new
  <2>8. CASE new(l)
    <3>1. old \o <<x>> = Append(old, x)
      <4>1. old \in Seq(Range(old) \union {x}) /\ x \in Range(old) \union {x}
        BY <2>2, InSeq
      <4>2. QED
        BY <4>1
    <3>2. h[l] = Append(old, x) /\ g[l] = Append(old, x)
      BY <2>3, <2>4, <2>6, <2>7, <2>8, <3>1 DEF AddName
    <3>3. IsSeq(Append(old, x)) /\ Range(Append(old, x)) = Range(old) \union {x}
      BY <2>2, Appended
    <3>4. Same(l)
      BY <2>2, <2>5, <3>2, <3>3
    <3>. HIDE DEF Same, l
    <3>5. QED
      BY <2>1, <3>4 DEF l
  <2>9. CASE ~new(l)
    <3>1. old \o none = old
      <4>1. old \in Seq(Range(old))
        BY <2>2 DEF IsSeq
      <4>2. QED
        BY <4>1
    <3>2. h[l] = old /\ g[l] = old
      BY <2>3, <2>4, <2>6, <2>7, <2>9, <3>1 DEF AddName
    <3>3. Range(old) \union {x} = Range(old)
      BY <2>6, <2>9
    <3>4. Same(l)
      BY <2>2, <2>5, <3>2, <3>3
    <3>. HIDE DEF Same, l
    <3>5. QED
      BY <2>1, <3>4 DEF l
  <2>10. QED
    BY <2>8, <2>9
<1>9. Same(N)
  <2>. HIDE DEF T
  <2>1. 0..N \subseteq T
    BY <1>1, <1>7, <1>8, UpTo
  <2>2. N \in T
    BY <1>1, <2>1
  <2>3. QED
    BY <2>2 DEF T
<1>10. QED
  BY <1>2, <1>5, <1>6, <1>9

\* No control-plane-protocol is there to be read.
LEMMA ReadsNoCpps ==
  ASSUME NEW m, NEW nodes, Whole(nodes, m)
  PROVE  EntriesOf(nodes, <<Segment("control-plane-protocols")>>, "control-plane-protocol")
           = <<>>
<1>. DEFINE parent == <<Segment("control-plane-protocols")>>
            entries == EntriesOf(nodes, parent, "control-plane-protocol")
<1>1. IsSeq(nodes) /\ Held(m)
  BY WholeFacts
<1>2. IsSeq(entries)
  BY <1>1, Entries
<1>3. Len(parent) = 1
  BY TopPaths
<1>4. ASSUME NEW n \in Range(entries) PROVE FALSE
  <2>1. MadeRouting(n, m) /\ Len(n.path) = 2 /\ Last(n.path)[1] = "control-plane-protocol"
    <3>. HIDE DEF parent
    <3>1. \A x : x \in Range(entries) <=>
            /\ x \in Range(nodes) /\ MadeRouting(x, m) /\ Len(x.path) = Len(parent) + 1
            /\ Front(x.path) = parent /\ Last(x.path)[1] = "control-plane-protocol"
      BY ListEntries
    <3>. HIDE DEF entries
    <3>2. QED
      BY <1>3, <1>4, <3>1
  <2>. HIDE DEF entries
  <2>2. Last(n.path)[1] = "interface" \/ Last(n.path)[1] = "rib"
    BY <1>1, <2>1, EntryNodeOf
  <2>3. QED
    BY <2>1, <2>2
<1>. HIDE DEF entries
<1>5. entries = <<>>
  BY <1>2, <1>4, SeqFacts
<1>6. QED
  BY <1>5 DEF entries

\* A rib, as it is carried.
CarriedRib(r) == [r EXCEPT !.address_family = LocalName[@], !.routes = Preferences(@)]

LEMMA CarriedFields ==
  ASSUME NEW m \in Routing
  PROVE  LET b == Carried(m) IN
         /\ b = [router_id |-> m.router_id, interfaces_info |-> <<>>,
                 interfaces |-> FirstOnes(m.interfaces), cpps |-> <<>>, ribs |-> b.ribs]
         /\ b.router_id = m.router_id /\ b.interfaces_info = <<>> /\ b.cpps = <<>>
         /\ b.interfaces = FirstOnes(m.interfaces)
         /\ b.ribs = [k \in DOMAIN m.ribs |-> CarriedRib(m.ribs[k])]
         /\ DOMAIN b.ribs = DOMAIN m.ribs
         /\ \A k \in DOMAIN m.ribs : b.ribs[k] = CarriedRib(m.ribs[k])
<1>. DEFINE ribs == [k \in DOMAIN m.ribs |-> CarriedRib(m.ribs[k])]
<1>1. Carried(m) = [Empty EXCEPT !.router_id = m.router_id,
                      !.interfaces = FirstOnes(m.interfaces), !.ribs = ribs]
  BY DEF Carried, CarriedRib
<1>2. DOMAIN ribs = DOMAIN m.ribs /\ \A k \in DOMAIN m.ribs : ribs[k] = CarriedRib(m.ribs[k])
  OBVIOUS
<1>3. ribs = [k \in DOMAIN m.ribs |-> CarriedRib(m.ribs[k])]
  OBVIOUS
<1>. HIDE DEF ribs
<1>4. Carried(m) = [router_id |-> m.router_id, interfaces_info |-> <<>>,
         interfaces |-> FirstOnes(m.interfaces), cpps |-> <<>>, ribs |-> ribs]
  BY <1>1 DEF Empty
<1>5. QED
  BY <1>2, <1>3, <1>4

LEMMA CarriedRibFields ==
  ASSUME NEW r \in Rib
  PROVE  /\ CarriedRib(r)
              = [name |-> r.name, address_family |-> LocalName[r.address_family],
                 description |-> r.description, routes |-> Preferences(r.routes)]
         /\ CarriedRib(r).name = r.name
         /\ CarriedRib(r).address_family = LocalName[r.address_family]
         /\ CarriedRib(r).description = r.description
         /\ CarriedRib(r).routes = Preferences(r.routes)
<1>. DEFINE x == LocalName[r.address_family]
            y == Preferences(r.routes)
            q == [r EXCEPT !.address_family = x]
<1>1. /\ q \in [name : Labels, address_family : {x}, description : Optional(Texts),
                routes : Seq(Optional(Prefs))]
      /\ q.name = r.name /\ q.address_family = x /\ q.description = r.description
  BY DEF Rib
<1>2. CarriedRib(r)
         = [name |-> r.name, address_family |-> LocalName[r.address_family],
            description |-> r.description, routes |-> Preferences(r.routes)]
  <2>1. CarriedRib(r) = [q EXCEPT !.routes = y]
    <3>. HIDE DEF x, y
    <3>1. [r EXCEPT !.address_family = x, !.routes = y]
            = [[r EXCEPT !.address_family = x] EXCEPT !.routes = y]
      OBVIOUS
    <3>2. QED
      BY <3>1 DEF x, y, CarriedRib
  <2>. HIDE DEF q, x, y
  <2>2. [q EXCEPT !.routes = y]
          = [name |-> q.name, address_family |-> q.address_family,
             description |-> q.description, routes |-> y]
    BY <1>1
  <2>3. QED
    BY <1>1, <2>1, <2>2 DEF x, y
<1>. HIDE DEF x, y, q
<1>3. QED
  BY <1>2

\* A rib is read as what the two functions carry of it.
LEMMA ReadsRib ==
  ASSUME NEW m, NEW nodes, Whole(nodes, m), NEW r, RibIn(m, r),
         <<"address-family", r.address_family>> \notin Refused
  PROVE  ReadRib(nodes, RibBox(r)) = CarriedRib(r)
<1>. DEFINE Leaf(leaf) == NodeValue(nodes, Append(RibBox(r), Segment(leaf)))
            stored == Stored(<<"address-family", r.address_family>>)
            routes == ReadRoutes(nodes, Append(RibBox(r), Segment("routes")))
<1>1. r \in Rib
  BY CallsOfRib
<1>2. Leaf("name") = r.name /\ Leaf("address-family") = stored /\ Leaf("description") = r.description
  BY ReadsRibLeaves
<1>3. routes = Preferences(r.routes)
  <2>1. ReadRoutes(nodes, RouteBox(r)) = Preferences(r.routes)
    BY ReadsRoutes
  <2>2. QED
    BY <2>1 DEF RouteBox
<1>4. r.name \in Labels /\ r.address_family \in Families
  BY <1>1, RibFields
<1>5. r.name # None
  BY <1>4, RoutingDataAssumption
<1>6. ReadIdentity(stored) = LocalName[r.address_family]
  <2>1. stored \in Families /\ LocalName[stored] = LocalName[r.address_family]
    BY <1>4, RoutingSchemaAssumption
  <2>2. stored # None
    BY <2>1, RoutingDataAssumption
  <2>. HIDE DEF stored
  <2>3. QED
    BY <2>1, <2>2 DEF ReadIdentity
<1>7. ReadRib(nodes, RibBox(r))
        = [name |-> ReadString(Leaf("name")),
           address_family |-> ReadIdentity(Leaf("address-family")),
           description |-> Leaf("description"), routes |-> routes]
  BY DEF ReadRib
<1>. HIDE DEF Leaf, stored, routes
<1>8. ReadRib(nodes, RibBox(r))
        = [name |-> r.name, address_family |-> LocalName[r.address_family],
           description |-> r.description, routes |-> Preferences(r.routes)]
  BY <1>2, <1>3, <1>5, <1>6, <1>7 DEF ReadString
<1>9. QED
  BY <1>1, <1>8, CarriedRibFields

\* What the calls for a model make is read as what the two functions carry.
LEMMA ReadsBack ==
  ASSUME NEW m, NEW nodes, Whole(nodes, m), Writable(m),
         NEW t, DOMAIN t = {"routing"}, t.routing = nodes
  PROVE  ReadRouting(t) = Carried(m)
<1>. DEFINE none == <<>>
            names == EntriesOf(nodes, NamesPath, "interface")
            cpps == EntriesOf(nodes, <<Segment("control-plane-protocols")>>,
                              "control-plane-protocol")
            ribs == EntriesOf(nodes, RibsPath, "rib")
            id == NodeValue(nodes, <<Segment("router-id")>>)
            cppSeq == [k \in DOMAIN cpps |-> ReadCpp(nodes, cpps[k].path)]
            ribSeq == [k \in DOMAIN ribs |-> ReadRib(nodes, ribs[k].path)]
<1>1. m \in Routing /\ IsSeq(nodes)
  BY WholeFacts
<1>2. ReadRouting(t)
        = [router_id |-> id, interfaces_info |-> none,
           interfaces |-> AddNames(none, names), cpps |-> cppSeq, ribs |-> ribSeq]
  <2>1. "interfaces" \notin DOMAIN t
    OBVIOUS
  <2>2. [k \in DOMAIN none |-> none[k].name] = none
    OBVIOUS
  <2>3. QED
    BY <2>1, <2>2 DEF ReadRouting, NamesPath, RibsPath
<1>3. id = m.router_id
  BY ReadsRouterId
<1>4. AddNames(none, names) = FirstOnes(m.interfaces)
  <2>1. /\ Len(m.interfaces) \in Nat /\ DOMAIN m.interfaces = 1..Len(m.interfaces)
        /\ DOMAIN names = 1..Len(m.interfaces)
        /\ \A k \in 1..Len(m.interfaces) : names[k].value = m.interfaces[k]
    BY ReadsNames
  <2>2. IsSeq(names) /\ IsSeq(m.interfaces)
    <3>1. m.interfaces \in Seq(Names)
      BY <1>1 DEF Routing
    <3>2. IsSeq(m.interfaces)
      BY <3>1, SequenceOver
    <3>3. QED
      BY <1>1, <3>2, Entries
  <2>. HIDE DEF names
  <2>3. Len(names) = Len(m.interfaces)
    BY <2>1, <2>2, SeqFacts
  <2>4. AddNames(<<>>, names) = FirstOnes(m.interfaces)
    BY <2>1, <2>2, <2>3, FirstOnesAdded
  <2>5. QED
    BY <2>4
<1>5. cppSeq = none
  <2>1. cpps = none
    BY ReadsNoCpps
  <2>. HIDE DEF cpps
  <2>2. QED
    BY <2>1
<1>6. ribSeq = [k \in DOMAIN m.ribs |-> CarriedRib(m.ribs[k])]
  <2>1. /\ Len(m.ribs) \in Nat /\ DOMAIN m.ribs = 1..Len(m.ribs)
        /\ DOMAIN ribs = 1..Len(m.ribs)
        /\ \A k \in 1..Len(m.ribs) : ribs[k].path = RibBox(m.ribs[k])
    BY ReadsRibEntries
  <2>2. ASSUME NEW k \in 1..Len(m.ribs)
        PROVE  ReadRib(nodes, RibBox(m.ribs[k])) = CarriedRib(m.ribs[k])
    <3>. DEFINE r == m.ribs[k]
    <3>1. r \in Range(m.ribs)
      BY <2>1 DEF Range
    <3>2. RibIn(m, r)
      BY <2>1 DEF RibIn
    <3>3. <<"address-family", r.address_family>> \notin Refused
      BY <3>1 DEF Writable
    <3>. HIDE DEF r
    <3>4. ReadRib(nodes, RibBox(r)) = CarriedRib(r)
      BY <3>2, <3>3, ReadsRib
    <3>5. QED
      BY <3>4 DEF r
  <2>. HIDE DEF ribs
  <2>3. \A k \in DOMAIN m.ribs : ReadRib(nodes, ribs[k].path) = CarriedRib(m.ribs[k])
    BY <2>1, <2>2
  <2>4. QED
    BY <2>1, <2>3
<1>7. Carried(m)
        = [router_id |-> m.router_id, interfaces_info |-> none,
           interfaces |-> FirstOnes(m.interfaces), cpps |-> none,
           ribs |-> [k \in DOMAIN m.ribs |-> CarriedRib(m.ribs[k])]]
  BY <1>1, CarriedFields
<1>. HIDE DEF id, names, cppSeq, ribSeq
<1>8. QED
  BY <1>2, <1>3, <1>4, <1>5, <1>6, <1>7

\* What was written can be held as it is.
LEMMA WritableIsHeld ==
  ASSUME NEW m \in Routing, Writable(m)
  PROVE  Held(m)
<1>1. ASSUME NEW j \in DOMAIN m.ribs, NEW k \in DOMAIN m.ribs, m.ribs[j].name = m.ribs[k].name
      PROVE  j = k
  <2>. DEFINE names == [l \in DOMAIN m.ribs |-> m.ribs[l].name]
  <2>1. IsInjective(names)
    BY DEF Writable
  <2>2. DOMAIN names = DOMAIN m.ribs /\ names[j] = names[k]
    BY <1>1
  <2>. HIDE DEF names
  <2>3. QED
    BY <2>1, <2>2 DEF IsInjective
<1>2. m.cpps = <<>>
  BY DEF Writable
<1>3. QED
  BY <1>1, <1>2 DEF Held

\* What a serialize that has not thrown returned is read as Carried says.
LEMMA ReturnedReadsBack ==
  ASSUME NEW m \in Routing, NEW t, Returned(t, RoutingCalls(m))
  PROVE  Writable(m) /\ Readable(t) /\ ReadRouting(t) = Carried(m)
<1>1. /\ DOMAIN t = {"routing"} /\ Built(t.routing, RoutingCalls(m), Len(RoutingCalls(m)))
      /\ Writable(m)
  BY PassesWritable DEF Returned
<1>2. Whole(t.routing, m)
  BY <1>1, WritableIsHeld DEF Whole
<1>3. ReadRouting(t) = Carried(m)
  BY <1>1, <1>2, ReadsBack
<1>4. Readable(t)
  BY <1>1 DEF Readable
<1>5. QED
  BY <1>1, <1>3, <1>4

\* The calls that serialize makes for a model, one after the other.
LEMMA WrittenSteps ==
  ASSUME NEW m, NEW all, all = RoutingCalls(m), IsSeq(all)
  PROVE  \E h : /\ h[0] = <<>> /\ Written(m) = h[Len(all)]
                /\ \A k \in 1..Len(all) : h[k] = lyd_new_path(h[k - 1], all[k])
<1>. DEFINE N == Len(all)
            none == <<>>
            Is(f) == f = [k \in 0..N |-> IF k = 0 THEN none
                                          ELSE lyd_new_path(f[k - 1], all[k])]
            IsUpTo(f, i) == /\ f = [k \in 0..i |-> f[k]] /\ f[0] = none
                            /\ \A k \in 1..i : f[k] = lyd_new_path(f[k - 1], all[k])
            T == {i \in 0..N : \E f : IsUpTo(f, i)}
<1>1. N \in Nat
  BY SeqFacts
<1>2. Written(m) = (CHOOSE f : Is(f))[N]
  BY DEF Written
<1>. HIDE DEF N
<1>3. 0 \in T
  <2>. DEFINE g == [k \in 0..0 |-> none]
  <2>1. IsUpTo(g, 0)
    OBVIOUS
  <2>2. \E f : IsUpTo(f, 0)
    BY <2>1
  <2>. HIDE DEF IsUpTo
  <2>3. QED
    BY <1>1, <2>2
<1>4. ASSUME NEW i \in 0..(N - 1), i \in T PROVE i + 1 \in T
  <2>1. PICK f : IsUpTo(f, i)
    BY <1>4
  <2>. DEFINE g == [k \in 0..(i + 1) |->
                      IF k = i + 1 THEN lyd_new_path(f[i], all[i + 1]) ELSE f[k]]
  <2>2. i \in Nat /\ i + 1 \in 0..N
    BY <1>1
  <2>3. g = [k \in 0..(i + 1) |-> g[k]] /\ g[0] = none
    BY <2>1, <2>2
  <2>4. ASSUME NEW k \in 1..(i + 1) PROVE g[k] = lyd_new_path(g[k - 1], all[k])
    <3>1. k \in 0..(i + 1) /\ k - 1 \in 0..(i + 1) /\ k - 1 # i + 1
      BY <2>2
    <3>2. g[k - 1] = f[k - 1]
      BY <3>1
    <3>3. CASE k = i + 1
      <4>1. k - 1 = i
        BY <2>2, <3>3
      <4>2. g[k] = lyd_new_path(f[i], all[k])
        BY <3>1, <3>3
      <4>. HIDE DEF g
      <4>3. QED
        BY <3>2, <4>1, <4>2
    <3>4. CASE k # i + 1
      <4>1. k \in 1..i
        BY <2>2, <3>4
      <4>2. g[k] = f[k]
        BY <3>1, <3>4
      <4>3. f[k] = lyd_new_path(f[k - 1], all[k])
        BY <2>1, <4>1
      <4>. HIDE DEF g
      <4>4. QED
        BY <3>2, <4>2, <4>3
    <3>5. QED
      BY <3>3, <3>4
  <2>. HIDE DEF g
  <2>5. IsUpTo(g, i + 1)
    BY <2>3, <2>4
  <2>6. \E h : IsUpTo(h, i + 1)
    BY <2>5
  <2>. HIDE DEF IsUpTo
  <2>7. QED
    BY <2>2, <2>6
<1>5. N \in T
  <2>. HIDE DEF T
  <2>1. 0..N \subseteq T
    BY <1>1, <1>3, <1>4, UpTo
  <2>2. QED
    BY <1>1, <2>1
<1>6. PICK f : IsUpTo(f, N)
  BY <1>5
<1>7. Is(f)
  <2>1. ASSUME NEW k \in 0..N
        PROVE  f[k] = IF k = 0 THEN none ELSE lyd_new_path(f[k - 1], all[k])
    <3>1. k = 0 \/ k \in 1..N
      BY <1>1
    <3>2. QED
      BY <1>6, <3>1
  <2>2. f = [k \in 0..N |-> f[k]]
    BY <1>6
  <2>3. [k \in 0..N |-> f[k]]
          = [k \in 0..N |-> IF k = 0 THEN none ELSE lyd_new_path(f[k - 1], all[k])]
    BY <2>1
  <2>4. QED
    BY <2>2, <2>3
<1>8. PICK h : Is(h) /\ Written(m) = h[N]
  <2>. HIDE DEF Is
  <2>1. Is(CHOOSE g : Is(g))
    BY <1>7
  <2>2. QED
    BY <1>2, <2>1
<1>9. h[0] = none /\ \A k \in 1..N : h[k] = lyd_new_path(h[k - 1], all[k])
  <2>1. h = [k \in 0..N |-> IF k = 0 THEN none ELSE lyd_new_path(h[k - 1], all[k])]
    BY <1>8
  <2>2. 0 \in 0..N /\ \A k \in 1..N : k \in 0..N /\ k # 0
    BY <1>1
  <2>3. \A k \in 0..N : h[k] = IF k = 0 THEN none ELSE lyd_new_path(h[k - 1], all[k])
    BY <2>1
  <2>4. QED
    BY <2>2, <2>3
<1>10. QED
  BY <1>8, <1>9 DEF N

\* The tree of a model has all that its calls make.
LEMMA WrittenIsBuilt ==
  ASSUME NEW m \in Routing
  PROVE  Built(Written(m), RoutingCalls(m), Len(RoutingCalls(m)))
<1>. DEFINE all == RoutingCalls(m)
            N == Len(all)
<1>1. AllRouting(all) /\ IsSeq(all)
  BY RoutingCallsTyped DEF AllRouting
<1>2. N \in Nat
  BY <1>1, SeqFacts
<1>. HIDE DEF all
<1>3. PICK h : /\ h[0] = <<>> /\ Written(m) = h[N]
               /\ \A k \in 1..N : h[k] = lyd_new_path(h[k - 1], all[k])
  BY <1>1, WrittenSteps DEF all
<1>. DEFINE U == {k \in 0..N : Built(h[k], all, k)}
<1>. HIDE DEF N
<1>4. 0 \in U
  BY <1>2, <1>3, BuiltNone
<1>5. ASSUME NEW k \in 0..(N - 1), k \in U PROVE k + 1 \in U
  <2>1. k \in Nat /\ k + 1 \in 1..N /\ k + 1 \in 0..N /\ (k + 1) - 1 = k
    BY <1>2
  <2>2. h[k + 1] = lyd_new_path(h[k], all[k + 1])
    BY <1>3, <2>1
  <2>3. Built(h[k], all, k)
    BY <1>5
  <2>4. Built(lyd_new_path(h[k], all[k + 1]), all, k + 1)
    BY <1>1, <2>1, <2>3, BuiltStep DEF N
  <2>5. QED
    BY <2>1, <2>2, <2>4
<1>6. Built(h[N], all, N)
  <2>. HIDE DEF U
  <2>1. 0..N \subseteq U
    BY <1>2, <1>4, <1>5, UpTo
  <2>2. N \in U
    BY <1>2, <2>1
  <2>3. QED
    BY <2>2 DEF U
<1>7. QED
  BY <1>3, <1>6 DEF all, N

\* Selecting every element leaves a sequence as it is.
LEMMA SelectsAll ==
  ASSUME NEW x, IsSeq(x), NEW ss, DOMAIN ss = DOMAIN x, ss = [k \in DOMAIN x |-> ss[k]],
         \A k \in DOMAIN x : ss[k] = <<x[k]>>
  PROVE  FlattenSeq(ss) = x
<1>. DEFINE N == Len(x)
            C == 1..N
            e == [i \in 1..N |-> i]
<1>1. N \in Nat /\ DOMAIN x = 1..N /\ x = [k \in 1..N |-> x[k]]
  BY SeqFacts
<1>2. Selects(ss, N, C, x)
  BY <1>1 DEF Selects
<1>3. Enumerates(e, N, C)
  BY <1>1, WholeEnumeration
<1>4. Picked(x, e, N) = x
  BY <1>1 DEF Picked
<1>5. C \in SUBSET (1..N)
  OBVIOUS
<1>. HIDE DEF e, C, N
<1>6. FlattenSeq(ss) = Picked(x, e, N)
  BY <1>1, <1>2, <1>3, <1>5, SelectedBy DEF C
<1>7. QED
  BY <1>4, <1>6

\* Names without repetition are the first ones.
LEMMA FirstOnesOfOnce ==
  ASSUME NEW s, IsSeq(s), IsInjective(s)
  PROVE  FirstOnes(s) = s
<1>. DEFINE ss == [k \in DOMAIN s |-> If(\A j \in 1..(k - 1) : s[j] # s[k], <<s[k]>>)]
<1>1. Len(s) \in Nat /\ DOMAIN s = 1..Len(s)
  BY SeqFacts
<1>2. ASSUME NEW k \in DOMAIN s PROVE ss[k] = <<s[k]>>
  <2>1. ASSUME NEW j \in 1..(k - 1) PROVE s[j] # s[k]
    <3>1. j \in DOMAIN s /\ j # k
      BY <1>1
    <3>2. QED
      BY <3>1 DEF IsInjective
  <2>2. QED
    BY <2>1 DEF If
<1>3. FirstOnes(s) = FlattenSeq(ss) /\ DOMAIN ss = DOMAIN s /\ ss = [k \in DOMAIN s |-> ss[k]]
  BY DEF FirstOnes
<1>. HIDE DEF ss
<1>4. FlattenSeq(ss) = s
  BY <1>2, <1>3, SelectsAll
<1>5. QED
  BY <1>3, <1>4

\* What is left of the preferences are all preferences.
LEMMA PreferencesAgain ==
  ASSUME NEW routes, IsSeq(routes)
  PROVE  Preferences(Preferences(routes)) = Preferences(routes)
<1>. DEFINE C == {j \in 1..Len(routes) : routes[j] # None}
            s == Preferences(routes)
            ss == [k \in DOMAIN s |-> If(s[k] # None, <<s[k]>>)]
<1>1. PICK n, e : n \in Nat /\ Enumerates(e, n, C) /\ s = Picked(routes, e, n)
  BY PreferencesPicked
<1>2. DOMAIN s = 1..n /\ s = [i \in 1..n |-> s[i]] /\ \A i \in 1..n : s[i] # None
  BY <1>1 DEF Picked, Enumerates
<1>3. FlattenSeq(ss) = Preferences(s) /\ DOMAIN ss = DOMAIN s /\ ss = [k \in DOMAIN s |-> ss[k]]
  BY DEF Preferences
<1>4. \A k \in DOMAIN s : ss[k] = <<s[k]>>
  BY <1>2 DEF If
<1>. HIDE DEF s, ss
<1>5. IsSeq(s)
  BY <1>1, <1>2, FunctionIsSeq
<1>6. FlattenSeq(ss) = s
  BY <1>3, <1>4, <1>5, SelectsAll
<1>7. QED
  BY <1>3, <1>6 DEF s

\* A rib is carried a second time as it is.
LEMMA CarriedRibAgain ==
  ASSUME NEW r \in Rib, <<"address-family", r.address_family>> \notin Refused,
         NEW q \in Rib, q = CarriedRib(r)
  PROVE  CarriedRib(q) = q
<1>1. /\ q = [name |-> r.name, address_family |-> LocalName[r.address_family],
              description |-> r.description, routes |-> Preferences(r.routes)]
      /\ q.name = r.name /\ q.address_family = LocalName[r.address_family]
      /\ q.description = r.description /\ q.routes = Preferences(r.routes)
  BY CarriedRibFields
<1>2. CarriedRib(q)
        = [name |-> q.name, address_family |-> LocalName[q.address_family],
           description |-> q.description, routes |-> Preferences(q.routes)]
  BY CarriedRibFields
<1>3. LocalName[q.address_family] = LocalName[r.address_family]
  BY <1>1, RibFields, RoutingSchemaAssumption
<1>4. Preferences(q.routes) = Preferences(r.routes)
  <2>1. r.routes \in Seq(Optional(Prefs))
    BY RibFields
  <2>2. IsSeq(r.routes)
    BY <2>1, SequenceOver
  <2>3. QED
    BY <1>1, <2>2, PreferencesAgain
<1>5. QED
  BY <1>1, <1>2, <1>3, <1>4

\* Carried once, a model is carried as it is.
LEMMA CarriedAgain ==
  ASSUME NEW m \in Routing, Writable(m), NEW b \in Routing, b = Carried(m),
         IsInjective(b.interfaces)
  PROVE  Carried(b) = b
<1>1. /\ b = [router_id |-> m.router_id, interfaces_info |-> <<>>,
              interfaces |-> FirstOnes(m.interfaces), cpps |-> <<>>, ribs |-> b.ribs]
      /\ b.router_id = m.router_id /\ b.interfaces = FirstOnes(m.interfaces)
      /\ DOMAIN b.ribs = DOMAIN m.ribs
      /\ \A k \in DOMAIN m.ribs : b.ribs[k] = CarriedRib(m.ribs[k])
  BY CarriedFields
<1>2. /\ Carried(b)
           = [router_id |-> b.router_id, interfaces_info |-> <<>>,
              interfaces |-> FirstOnes(b.interfaces), cpps |-> <<>>, ribs |-> Carried(b).ribs]
      /\ Carried(b).ribs = [k \in DOMAIN b.ribs |-> CarriedRib(b.ribs[k])]
  BY CarriedFields
<1>3. FirstOnes(b.interfaces) = b.interfaces
  <2>1. b.interfaces \in Seq(Names)
    BY DEF Routing
  <2>2. IsSeq(b.interfaces)
    BY <2>1, SequenceOver
  <2>3. QED
    BY <2>2, FirstOnesOfOnce
<1>4. Carried(b).ribs = b.ribs
  <2>1. b.ribs \in Seq(Rib) /\ m.ribs \in Seq(Rib)
    BY DEF Routing
  <2>2. /\ \A k \in DOMAIN b.ribs : b.ribs[k] \in Rib
        /\ \A k \in DOMAIN m.ribs : m.ribs[k] \in Rib
        /\ b.ribs = [k \in DOMAIN b.ribs |-> b.ribs[k]]
    BY <2>1
  <2>3. ASSUME NEW k \in DOMAIN b.ribs PROVE CarriedRib(b.ribs[k]) = b.ribs[k]
    <3>. DEFINE r == m.ribs[k]
                q == b.ribs[k]
    <3>1. k \in DOMAIN m.ribs
      BY <1>1
    <3>2. r \in Rib /\ q \in Rib /\ q = CarriedRib(r)
      BY <1>1, <2>2, <3>1
    <3>3. r \in Range(m.ribs)
      BY <3>1 DEF Range
    <3>4. <<"address-family", r.address_family>> \notin Refused
      BY <3>3 DEF Writable
    <3>. HIDE DEF r, q
    <3>5. CarriedRib(q) = q
      BY <3>2, <3>4, CarriedRibAgain
    <3>6. QED
      BY <3>5 DEF q
  <2>4. [k \in DOMAIN b.ribs |-> CarriedRib(b.ribs[k])] = [k \in DOMAIN b.ribs |-> b.ribs[k]]
    BY <2>3
  <2>5. QED
    BY <1>2, <2>2, <2>4
<1>5. QED
  BY <1>1, <1>2, <1>3, <1>4

\* Of what is carried, libyang holds all but the identities of other modules.
LEMMA CarriedIsWritable ==
  ASSUME NEW m \in Routing, Writable(m), NEW b \in Routing, b = Carried(m)
  PROVE  Writable(b) <=> \A r \in Range(m.ribs) : ~Foreign(r.address_family)
<1>. DEFINE Known == \A r \in Range(m.ribs) : ~Foreign(r.address_family)
            Id(x) == x # None => "router-id" \in resolves /\ <<"router-id", x>> \notin Refused
            names(x) == [k \in DOMAIN x.ribs |-> x.ribs[k].name]
            Fine(r) == r.name \notin Unquotable
                       /\ <<"address-family", r.address_family>> \notin Refused
<1>1. /\ b.router_id = m.router_id /\ b.cpps = <<>>
      /\ DOMAIN b.ribs = DOMAIN m.ribs
      /\ \A k \in DOMAIN m.ribs : b.ribs[k] = CarriedRib(m.ribs[k])
  BY CarriedFields
<1>2. ASSUME NEW k \in DOMAIN m.ribs
      PROVE  /\ b.ribs[k].name = m.ribs[k].name
             /\ b.ribs[k].address_family = LocalName[m.ribs[k].address_family]
             /\ b.ribs[k] \in Range(b.ribs) /\ m.ribs[k] \in Range(m.ribs)
  <2>1. m.ribs[k] \in Rib
    <3>1. m.ribs \in Seq(Rib)
      BY DEF Routing
    <3>2. QED
      BY <3>1
  <2>2. QED
    BY <1>1, <2>1, CarriedRibFields DEF Range
<1>3. names(b) = names(m)
  BY <1>1, <1>2
<1>4. \A x : Writable(x) <=> /\ Id(x.router_id) /\ x.cpps = <<>> /\ IsInjective(names(x))
                             /\ \A r \in Range(x.ribs) : Fine(r)
  BY DEF Writable
<1>5. (\A r \in Range(b.ribs) : Fine(r)) <=> Known
  <2>1. ASSUME \A r \in Range(b.ribs) : Fine(r), NEW r \in Range(m.ribs)
        PROVE  ~Foreign(r.address_family)
    <3>1. PICK k \in DOMAIN m.ribs : r = m.ribs[k]
      BY <2>1 DEF Range
    <3>2. Fine(b.ribs[k])
      BY <1>2, <2>1
    <3>3. QED
      BY <1>2, <3>1, <3>2 DEF Foreign
  <2>2. ASSUME Known, NEW r \in Range(b.ribs)
        PROVE  Fine(r)
    <3>1. PICK k \in DOMAIN m.ribs : r = b.ribs[k]
      BY <1>1, <2>2 DEF Range
    <3>2. ~Foreign(m.ribs[k].address_family) /\ m.ribs[k].name \notin Unquotable
      BY <1>2, <1>4, <2>2
    <3>3. QED
      BY <1>2, <3>1, <3>2 DEF Foreign
  <2>. HIDE DEF Fine
  <2>3. QED
    BY <2>1, <2>2
<1>. HIDE DEF Id, Fine, Known, names
<1>6. QED
  BY <1>1, <1>3, <1>4, <1>5 DEF Known

-----------------------------------------------------------------------------
(* The theorems *)

\* Type correctness: what serialize returns is a tree of the schema, and what
\* deserialize makes of any tree is a Routing record (IetfRouting.cpp:13-255).
THEOREM Types == Spec => []TypeOK
BY Invariant, PTL DEF IInv

\* Names are merged without repetition and without loss, whichever of the two
\* trees they come from: the names of the interface objects and the values of
\* the leaf-list are in the model once each (IetfRouting.cpp:114-124, 145-165).
THEOREM NamesOnce == Spec => []NamedOnce
<1>1. ASSUME IInv PROVE NamedOnce
  <2>1. ASSUME back # None
        PROVE  /\ IsInjective(back.interfaces)
               /\ Range(back.interfaces) =
                    NamesOf(back.interfaces_info) \union ListedNames(tree.routing)
    <3>1. IsTree(tree) /\ "routing" \in DOMAIN tree /\ back = ReadRouting(tree)
      BY <1>1, <2>1 DEF IInv, TypeOK, PhaseInv, Readable
    <3>2. QED
      BY <3>1, ReadRoutingNames
  <2>2. QED
    BY <2>1 DEF NamedOnce
<1>2. QED
  BY <1>1, Invariant, PTL

\* But for allocation failures, serialize throws exactly for the models that
\* libyang cannot hold, and for all that have a control-plane-protocol
\* (IetfRouting.cpp:39-42).  What libyang makes of the calls, one by one, comes
\* down to what Writable says of the model.
THEOREM Throws == Spec => []ThrowsExactly
<1>1. ASSUME IInv PROVE ThrowsExactly
  <2>1. ASSUME source # None, pc = "idle", exact PROVE threw <=> ~Writable(source)
    <3>1. source \in Routing
      BY <1>1, <2>1 DEF IInv, TypeOK, Optional
    <3>2. threw <=> ~Passes(RoutingCalls(source))
      BY <1>1, <2>1 DEF IInv, OutcomeInv
    <3>3. QED
      BY <3>1, <3>2, PassesWritable
  <2>2. QED
    BY <2>1 DEF ThrowsExactly
<1>2. QED
  BY <1>1, Invariant, PTL

\* All of the model or an exception: serialize returns no tree from which a
\* field it writes is missing, and deserialize reads all of it back, up to the
\* order of the ribs (IetfRouting.cpp:8-83, 102-255).
THEOREM ComesBack == Spec => []AllOrNothing
<1>1. ASSUME IInv PROVE AllOrNothing
  <2>1. ASSUME source # None, pc = "idle"
        PROVE  /\ threw <=> tree = NoTree
               /\ ~rejected
               /\ back # None => SameModel(back, Carried(source))
    <3>1. /\ source \in Routing /\ threw \in BOOLEAN /\ rejected \in BOOLEAN
          /\ back # None => tree # NoTree /\ back = ReadRouting(tree)
      BY <1>1, <2>1 DEF IInv, TypeOK, PhaseInv, Optional
    <3>2. /\ ~rejected
          /\ threw => tree = NoTree
          /\ ~threw => Returned(tree, RoutingCalls(source))
      BY <1>1, <2>1 DEF IInv, ReturnInv
    <3>3. CASE threw
      BY <3>1, <3>2, <3>3
    <3>4. CASE ~threw
      <4>1. Returned(tree, RoutingCalls(source))
        BY <3>2, <3>4
      <4>2. DOMAIN tree = {"routing"} /\ ReadRouting(tree) = Carried(source)
        BY <3>1, <4>1, ReturnedReadsBack DEF Returned
      <4>3. tree # NoTree
        BY <4>2, NoTreeIsTree
      <4>4. SameModel(Carried(source), Carried(source))
        BY DEF SameModel
      <4>5. QED
        BY <3>1, <3>2, <3>4, <4>2, <4>3, <4>4
    <3>5. QED
      BY <3>1, <3>3, <3>4
  <2>2. QED
    BY <2>1 DEF AllOrNothing
<1>2. QED
  BY <1>1, Invariant, PTL

\* What came back is written and read again without any change, but for the
\* identities whose prefix deserialize has taken (IetfRouting.cpp:223-230).
THEOREM SecondRound == Spec => []SecondRoundIsExact
<1>1. ASSUME IInv PROVE SecondRoundIsExact
  <2>1. ASSUME source # None, back # None
        PROVE  /\ Writable(back) <=> \A r \in Range(source.ribs) : ~Foreign(r.address_family)
               /\ Writable(back) => ReadRouting([routing |-> Written(back)]) = back
    <3>1. /\ source \in Routing /\ back \in Routing /\ pc = "idle" /\ IsTree(tree)
          /\ tree # NoTree /\ Readable(tree) /\ back = ReadRouting(tree)
      BY <1>1, <2>1 DEF IInv, TypeOK, PhaseInv, Optional
    <3>2. Returned(tree, RoutingCalls(source))
      BY <1>1, <2>1, <3>1 DEF IInv, ReturnInv, TypeOK
    <3>3. Writable(source) /\ back = Carried(source)
      BY <3>1, <3>2, ReturnedReadsBack
    <3>4. IsInjective(back.interfaces)
      BY <3>1, ReadRoutingNames DEF Readable
    <3>5. Carried(back) = back
      BY <3>1, <3>3, <3>4, CarriedAgain
    <3>6. ASSUME Writable(back) PROVE ReadRouting([routing |-> Written(back)]) = back
      <4>. DEFINE t == [routing |-> Written(back)]
      <4>1. DOMAIN t = {"routing"} /\ t.routing = Written(back)
        OBVIOUS
      <4>2. Whole(Written(back), back)
        BY <3>1, <3>6, WritableIsHeld, WrittenIsBuilt DEF Whole
      <4>. HIDE DEF t
      <4>3. ReadRouting(t) = Carried(back)
        BY <3>6, <4>1, <4>2, ReadsBack
      <4>4. QED
        BY <3>5, <4>3 DEF t
    <3>7. QED
      BY <3>1, <3>3, <3>6, CarriedIsWritable
  <2>2. QED
    BY <2>1 DEF SecondRoundIsExact
<1>2. QED
  BY <1>1, Invariant, PTL

=============================================================================
