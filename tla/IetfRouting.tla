----------------------------- MODULE IetfRouting -----------------------------
(***************************************************************************)
(* class IetfRouting: the Routing record, its serialization one            *)
(* lyd_new_path call at a time, each of which throws when it fails, and    *)
(* deserialization, which reads interfaces from two trees side by side.    *)
(* A route is its route_preference: next_hop, metadata and default_rib are *)
(* neither written nor read.  Identities are the strings of the code:      *)
(* Canonical gives the "module:name" that libyang stores, LocalName what   *)
(* follows the colon.                                                      *)
(***************************************************************************)
EXTENDS IetfInterfacesObject

CONSTANTS
  CppTypes,    \* the strings of control-plane-protocol types
  Families,    \* the strings of address families
  Labels,      \* names of protocols and ribs
  RouterIds,   \* values of router-id
  Prefs,       \* values of route-preference
  LocalName,   \* LocalName[s]: the identity string s from its colon on
  Models,      \* the values callers give routing_
  Documents,   \* the trees parseXml can return
  Resolvable,  \* sets of features, one of which the context has enabled
  MaxFaults    \* bound on lyd_new_path calls that run out of memory

Cpp == [type : CppTypes, name : Labels, description : Optional(Texts),
        static_routes : Seq(Optional(Prefs))]
Rib == [name : Labels, address_family : Families, description : Optional(Texts),
        routes : Seq(Optional(Prefs))]
Routing ==
  [router_id : Optional(RouterIds), interfaces : Seq(Names),
   interfaces_info : Seq(Interface), cpps : Seq(Cpp), ribs : Seq(Rib)]

Empty ==
  [router_id |-> None, interfaces |-> <<>>, interfaces_info |-> <<>>,
   cpps |-> <<>>, ribs |-> <<>>]

\* A missing leaf is read as the empty string; its identity has no colon.
ASSUME RoutingDataAssumption ==
  /\ "" \in Families
  /\ LocalName \in [CppTypes \union Families -> CppTypes \union Families]
  /\ \A s \in CppTypes : LocalName[s] \in CppTypes
  /\ \A s \in Families : LocalName[s] \in Families
  /\ None \notin RouterIds \union Labels \union Families \union CppTypes \union Prefs

\* ietf-routing: the keys of the two lists; libyang stores an identity with its
\* module, and every other value as it is; it refuses no string and no number of
\* 32 bits.  An identity that it accepts has one colon at most, and storing it
\* changes nothing after the colon.
ASSUME RoutingSchemaAssumption ==
  /\ KeyOf["rib"] = <<"name">> /\ KeyOf["control-plane-protocol"] = <<"type", "name">>
  /\ \A name \in Labels : <<name>> # None /\ \A s \in CppTypes : <<s, name>> # None
  /\ \A s \in CppTypes : Stored(<<"type", s>>) \in CppTypes
  /\ \A s \in Families : Stored(<<"address-family", s>>) \in Families
  /\ DOMAIN Canonical \intersect ({"router-id"} \X RouterIds) = {}
  /\ \A s \in Families : <<"address-family", s>> \notin Refused =>
       /\ LocalName[Stored(<<"address-family", s>>)] = LocalName[s]
       /\ LocalName[LocalName[s]] = LocalName[s]
  /\ (DOMAIN Canonical \union Refused) \intersect
       (({"name"} \X Labels) \union ({"description"} \X Texts)
        \union ({"interface"} \X Names) \union ({"route-preference"} \X Prefs)) = {}

-----------------------------------------------------------------------------
(* serialize: the lyd_new_path calls below the root, in order *)

Call(box, node, value) == << PathCall(Append(box, Segment(node)), value, {}) >>

RoutePath(box, list, k) == Append(Append(box, Segment(list)), Instance("route", k))

\* A call for each route that has a preference.  Instances of the key-less list
\* are numbered by the route they come from.
RouteCalls(box, list, routes, needs) ==
  FlattenSeq([k \in DOMAIN routes |->
    If(routes[k] # None,
       << PathCall(Append(RoutePath(box, list, k), Segment("route-preference")),
                   routes[k], needs) >>)])

\* No module of the context has a list route directly in static-routes.
CppCalls(p) ==
  LET box == << Segment("control-plane-protocols"),
                Entry("control-plane-protocol", <<p.type, p.name>>) >>
  IN Call(box, "type", p.type)
     \o Call(box, "name", p.name)
     \o If(p.description # None, Call(box, "description", p.description))
     \o RouteCalls(box, "static-routes", p.static_routes, {"static-routes/route"})

RibBox(r) == << Segment("ribs"), Entry("rib", <<r.name>>) >>

RibLeaves(r) ==
  Call(RibBox(r), "address-family", r.address_family)
  \o If(r.description # None, Call(RibBox(r), "description", r.description))
  \o RouteCalls(RibBox(r), "routes", r.routes, {})

\* Mutant: the key is written although the first call has created it.
RibKeyTwice(r) ==
  Call(RibBox(r), "name", r.name) \o Call(RibBox(r), "name", r.name) \o RibLeaves(r)

RibCalls(r) == Call(RibBox(r), "name", r.name) \o RibLeaves(r)

\* interfaces/interface is a leaf-list of state data: every call adds one.
RoutingCalls(m) ==
  If(m.router_id # None,
     << PathCall(<<Segment("router-id")>>, m.router_id, {"router-id"}) >>)
  \o [k \in DOMAIN m.interfaces |->
        PathCall(<<Segment("interfaces"), Instance("interface", k)>>, m.interfaces[k], {})]
  \o FlattenSeq([k \in DOMAIN m.cpps |-> CppCalls(m.cpps[k])])
  \o FlattenSeq([k \in DOMAIN m.ribs |-> RibCalls(m.ribs[k])])

-----------------------------------------------------------------------------
(* deserialize *)

\* Whatever the schema checks for the node: the values are of its type.
OfRouting(n) ==
  LET node == Last(n.path)[1] IN
  /\ node = "router-id" => n.value \in RouterIds
  /\ node = "interface" => n.value \in Names
  /\ node = "name" => n.value \in Labels
  /\ node = "type" => n.value \in CppTypes
  /\ node = "address-family" => n.value \in Families
  /\ node = "description" => n.value \in Texts
  /\ node = "route-preference" => n.value \in Prefs
  /\ node = "rib" => \E name \in Labels : Last(n.path) = Entry(node, <<name>>)
  /\ node = "control-plane-protocol" =>
       \E type \in CppTypes, name \in Labels : Last(n.path) = Entry(node, <<type, name>>)

\* What can stand below the container `routing' of a tree.
IsRoutingTree(nodes) == WellFormed(nodes) /\ \A n \in Range(nodes) : OfRouting(n)

\* A tree is what the top-level siblings ietf-interfaces:interfaces and
\* ietf-routing:routing hold, as far as they are there; no tree has neither.
NoTree == <<>>

IsTree(t) ==
  /\ DOMAIN t \subseteq {"interfaces", "routing"}
  /\ "interfaces" \in DOMAIN t => IsInterfacesTree(t.interfaces)
  /\ "routing" \in DOMAIN t => IsRoutingTree(t.routing)

ASSUME RoutingAssumption ==
  /\ Models \subseteq Routing
  /\ \A t \in Documents : IsTree(t)
  /\ MaxFaults \in Nat

\* The first sibling is parsed before the second one is looked for.
Readable(t) ==
  /\ "interfaces" \in DOMAIN t => NamedEntries(t.interfaces)
  /\ "routing" \in DOMAIN t

ReadIdentity(s) == IF s = None THEN "" ELSE LocalName[s]
ReadString(s) == IF s = None THEN "" ELSE s

\* Mutant: a route without preference has preference 0.
ReadRoutesFromZero(nodes, box) ==
  LET entries == EntriesOf(nodes, box, "route")
      Value(e) == NodeValue(nodes, Append(e.path, Segment("route-preference")))
  IN [k \in DOMAIN entries |-> IF Value(entries[k]) = None THEN "0" ELSE Value(entries[k])]

ReadRoutes(nodes, box) ==
  LET entries == EntriesOf(nodes, box, "route") IN
  [k \in DOMAIN entries |->
     NodeValue(nodes, Append(entries[k].path, Segment("route-preference")))]

ReadCpp(nodes, base) ==
  LET Leaf(node) == NodeValue(nodes, Append(base, Segment(node))) IN
  [type |-> ReadIdentity(Leaf("type")), name |-> ReadString(Leaf("name")),
   description |-> Leaf("description"),
   static_routes |-> ReadRoutes(nodes, Append(base, Segment("static-routes")))]

ReadRib(nodes, base) ==
  LET Leaf(node) == NodeValue(nodes, Append(base, Segment(node))) IN
  [name |-> ReadString(Leaf("name")),
   address_family |-> ReadIdentity(Leaf("address-family")),
   description |-> Leaf("description"),
   routes |-> ReadRoutes(nodes, Append(base, Segment("routes")))]

\* Mutant: a new name goes to the front.
AddNameInFront(names, name) ==
  IF name \in Range(names) THEN names ELSE <<name>> \o names

\* A name of the leaf-list is appended if it is not there yet.
AddName(names, name) ==
  IF name \in Range(names) THEN names ELSE Append(names, name)

\* Mutant: found is not reset, so that no name follows one that was there.
AddNamesUntilFound(names, nodes) ==
  LET all[k \in 0..Len(nodes)] ==
        IF k = 0 THEN names
        ELSE IF \E j \in 1..k : nodes[j].value \in Range(all[j - 1]) THEN all[k - 1]
        ELSE Append(all[k - 1], nodes[k].value)
  IN all[Len(nodes)]

AddNames(names, nodes) ==
  LET all[k \in 0..Len(nodes)] ==
        IF k = 0 THEN names ELSE AddName(all[k - 1], nodes[k].value)
  IN all[Len(nodes)]

ReadRouting(t) ==
  LET info == IF "interfaces" \in DOMAIN t THEN ReadInterfaces(t.interfaces) ELSE <<>>
      Children(box, node) == EntriesOf(t.routing, <<Segment(box)>>, node)
      names == Children("interfaces", "interface")
      cpps == Children("control-plane-protocols", "control-plane-protocol")
      ribs == Children("ribs", "rib")
  IN [router_id |-> NodeValue(t.routing, <<Segment("router-id")>>),
      interfaces_info |-> info,
      interfaces |-> AddNames([k \in DOMAIN info |-> info[k].name], names),
      cpps |-> [k \in DOMAIN cpps |-> ReadCpp(t.routing, cpps[k].path)],
      ribs |-> [k \in DOMAIN ribs |-> ReadRib(t.routing, ribs[k].path)]]

-----------------------------------------------------------------------------
VARIABLES
  resolves, \* the features that the context has enabled
  routing_, \* the model object's record
  pc,       \* "idle", or "serializing" between two lyd_new_path calls
  calls,    \* the calls serialize has still to make
  root,     \* the nodes below serialize's local root, or None
  source,   \* the routing_ of the last serialize, or None after parseXml
  threw,    \* that serialize threw
  lost,     \* it threw when it had made a root, which nobody can free now
  exact,    \* it threw for no allocation failure
  tree,     \* the tree the program has, or NoTree
  back,     \* what deserialize made of tree, or None
  rejected, \* deserialize threw for tree
  faults    \* allocation failures so far

vars == <<resolves, routing_, pc, calls, root, source, threw, lost, exact, tree,
          back, rejected, faults>>

TypeOK ==
  /\ resolves \in Resolvable
  /\ routing_ \in Routing
  /\ pc \in {"idle", "serializing"}
  /\ \A c \in Range(calls) : DOMAIN c = {"path", "value", "needs"}
  /\ IF pc = "serializing" THEN IsRoutingTree(root) ELSE root = None
  /\ source \in Optional(Routing)
  /\ threw \in BOOLEAN /\ lost \in BOOLEAN /\ exact \in BOOLEAN
  /\ IsTree(tree)
  /\ back = None \/ back \in Routing
  /\ rejected \in BOOLEAN
  /\ faults \in 0..MaxFaults

Init ==
  /\ resolves \in Resolvable
  /\ routing_ = Empty
  /\ pc = "idle" /\ calls = <<>> /\ root = None
  /\ source = None /\ threw = FALSE /\ lost = FALSE /\ exact = TRUE
  /\ tree = NoTree /\ back = None /\ rejected = FALSE
  /\ faults = 0

\* The model object

\* The caller writes through mutableRouting().
mutableRouting(m) ==
  /\ pc = "idle"
  /\ routing_' = m
  /\ UNCHANGED <<resolves, pc, calls, root, source, threw, lost, exact, tree, back,
                 rejected, faults>>

\* The program goes on with the model that deserialize returned.
Adopt ==
  /\ pc = "idle" /\ back # None
  /\ routing_' = back
  /\ UNCHANGED <<resolves, pc, calls, root, source, threw, lost, exact, tree, back,
                 rejected, faults>>

\* serialize.  The caller has freed the tree it had before.

Forget == tree' = NoTree /\ back' = None /\ rejected' = FALSE

SerializeRoot ==
  /\ pc = "idle"
  /\ pc' = "serializing"
  /\ calls' = RoutingCalls(routing_)
  /\ root' = <<>>
  /\ source' = routing_ /\ threw' = FALSE /\ lost' = FALSE /\ exact' = TRUE
  /\ Forget
  /\ UNCHANGED <<resolves, routing_, faults>>

\* The first call fails: there is no root yet.
RootFails ==
  /\ pc = "idle" /\ faults < MaxFaults
  /\ faults' = faults + 1
  /\ source' = routing_ /\ threw' = TRUE /\ lost' = FALSE /\ exact' = FALSE
  /\ Forget
  /\ UNCHANGED <<resolves, routing_, pc, calls, root>>

\* check_ly_err throws past root.
Throw ==
  /\ pc' = "idle" /\ calls' = <<>> /\ root' = None
  /\ threw' = TRUE /\ lost' = TRUE
  /\ UNCHANGED <<resolves, routing_, source, tree, back, rejected>>

\* Mutant: the call that fails is left out, as IetfInterfaces does.
NewPathUnchecked ==
  /\ pc = "serializing" /\ calls # <<>>
  /\ calls' = Tail(calls)
  /\ root' = IF PathFails(root, Head(calls), resolves) THEN root
             ELSE lyd_new_path(root, Head(calls))
  /\ UNCHANGED <<resolves, routing_, pc, source, threw, lost, exact, tree, back,
                 rejected, faults>>

NewPath ==
  /\ pc = "serializing" /\ calls # <<>>
  /\ ~PathFails(root, Head(calls), resolves)
  /\ calls' = Tail(calls)
  /\ root' = lyd_new_path(root, Head(calls))
  /\ UNCHANGED <<resolves, routing_, pc, source, threw, lost, exact, tree, back,
                 rejected, faults>>

NewPathFails ==
  /\ pc = "serializing" /\ calls # <<>>
  /\ PathFails(root, Head(calls), resolves)
  /\ Throw
  /\ UNCHANGED <<exact, faults>>

NewPathOutOfMemory ==
  /\ pc = "serializing" /\ calls # <<>> /\ faults < MaxFaults
  /\ faults' = faults + 1
  /\ exact' = FALSE
  /\ Throw

ReturnRoot ==
  /\ pc = "serializing" /\ calls = <<>>
  /\ pc' = "idle"
  /\ tree' = [routing |-> root]
  /\ root' = None
  /\ UNCHANGED <<resolves, routing_, calls, source, threw, lost, exact, back,
                 rejected, faults>>

\* YangModel::parseXml returns a document somebody else wrote.
ParseXml(t) ==
  /\ pc = "idle"
  /\ tree' = t /\ back' = None /\ rejected' = FALSE
  /\ source' = None /\ threw' = FALSE /\ lost' = FALSE /\ exact' = TRUE
  /\ UNCHANGED <<resolves, routing_, pc, calls, root, faults>>

\* deserialize

Deserialize ==
  /\ pc = "idle" /\ tree # NoTree
  /\ IF Readable(tree)
       THEN back' = ReadRouting(tree) /\ rejected' = FALSE
       ELSE back' = None /\ rejected' = TRUE
  /\ UNCHANGED <<resolves, routing_, pc, calls, root, source, threw, lost, exact, tree,
                 faults>>

Next ==
  \/ \E m \in Models : mutableRouting(m)
  \/ \E t \in Documents : ParseXml(t)
  \/ Adopt \/ SerializeRoot \/ RootFails \/ NewPath \/ NewPathFails
  \/ NewPathOutOfMemory \/ ReturnRoot \/ Deserialize

Spec == Init /\ [][Next]_vars

-----------------------------------------------------------------------------
(* Properties *)

\* The elements of a sequence without those that an earlier one repeats, and
\* without None.
FirstOnes(s) ==
  FlattenSeq([k \in DOMAIN s |-> If(\A j \in 1..(k - 1) : s[j] # s[k], <<s[k]>>)])
Preferences(routes) ==
  FlattenSeq([k \in DOMAIN routes |-> If(routes[k] # None, <<routes[k]>>)])

\* What the two functions carry of a model: the names once each, the ribs with
\* the routes that have a preference.
Carried(m) ==
  [Empty EXCEPT
     !.router_id = m.router_id,
     !.interfaces = FirstOnes(m.interfaces),
     !.ribs = [k \in DOMAIN m.ribs |->
                 [m.ribs[k] EXCEPT !.address_family = LocalName[@],
                                   !.routes = Preferences(@)]]]

\* Ribs have a key and no order of their own: libyang 3 and later sort them by
\* name, earlier ones leave them as they were made, and so does the model.
SameModel(m, n) ==
  /\ [m EXCEPT !.ribs = <<>>] = [n EXCEPT !.ribs = <<>>]
  /\ Len(m.ribs) = Len(n.ribs) /\ Range(m.ribs) = Range(n.ribs)

\* All of the model or an exception: serialize returns no tree from which a
\* field it writes is missing, whichever call fails (IetfRouting.cpp:8-11,
\* 13-83), and deserialize reads all of it back (102-255), every rib once and
\* each with its routes in their order.  In which order the ribs come is not
\* said.
AllOrNothing ==
  source # None /\ pc = "idle" =>
    /\ threw <=> tree = NoTree
    /\ ~rejected
    /\ back # None => SameModel(back, Carried(source))

\* What libyang can hold of a model, said without the calls.
Writable(m) ==
  /\ m.router_id # None =>
       "router-id" \in resolves /\ <<"router-id", m.router_id>> \notin Refused
  /\ m.cpps = <<>>
  /\ IsInjective([k \in DOMAIN m.ribs |-> m.ribs[k].name])
  /\ \A r \in Range(m.ribs) :
       r.name \notin Unquotable /\ <<"address-family", r.address_family>> \notin Refused

\* But for allocation failures, serialize throws exactly for the models that
\* libyang cannot hold and for all that have a control-plane-protocol: the
\* second call for one writes the key that the first has created
\* (IetfRouting.cpp:39-42).
ThrowsExactly ==
  source # None /\ pc = "idle" /\ exact => (threw <=> ~Writable(source))

\* The values of the leaf-list of routing/interfaces.
ListedNames(nodes) ==
  {n.value : n \in {x \in Range(nodes) :
     Front(x.path) = <<Segment("interfaces")>> /\ Last(x.path)[1] = "interface"}}

\* The merge neither repeats a name nor drops one: the names of the interface
\* objects and those of the state leaf-list, however often it has them, are in
\* the model once each, and no others (IetfRouting.cpp:114-124, 145-165).
NamedOnce ==
  back # None =>
    /\ IsInjective(back.interfaces)
    /\ Range(back.interfaces) =
         NamesOf(back.interfaces_info) \union ListedNames(tree.routing)

\* The tree that serialize makes of a model when no call fails.
Written(m) ==
  LET all == RoutingCalls(m)
      made[k \in 0..Len(all)] ==
        IF k = 0 THEN <<>> ELSE lyd_new_path(made[k - 1], all[k])
  IN made[Len(all)]

\* An identity of another module, which libyang finds only with its prefix.
Foreign(identity) == <<"address-family", LocalName[identity]>> \in Refused

\* What came back through the two functions once is written and read again
\* without any change: nothing more is lost or merged.
\* The one exception is an identity of another module: deserialize has taken the
\* prefix that serialize would need (IetfRouting.cpp:223-230, TODO.md:11).
SecondRoundIsExact ==
  source # None /\ back # None =>
    /\ Writable(back) <=> \A r \in Range(source.ribs) : ~Foreign(r.address_family)
    /\ Writable(back) =>
         ReadRouting([routing |-> Written(back)]) = back

-----------------------------------------------------------------------------
(* What tests and comments say and the code does not do *)

\* "IetfRouting serialize/deserialize roundtrip" (TestIetfRouting.cpp:14): the
\* model that deserialize makes of a document can be serialized.
RoundTrips == source # None /\ exact => ~threw

=============================================================================
