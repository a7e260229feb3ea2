------------------------ MODULE IetfInterfacesObject ------------------------
(***************************************************************************)
(* The data of class IetfInterfaces, the lyd_new_path calls serialize      *)
(* makes for one interface, and what deserialize reads back from a tree.   *)
(* No variables: IetfInterfaces and IetfRouting use it.                    *)
(* Strings are abstracted to what the code tells apart: an address is the  *)
(* part before and the part after its slash, and the fields serialize      *)
(* never writes (operational state) are the one field oper_status.         *)
(***************************************************************************)
EXTENDS LydTree

CONSTANTS
  Names,      \* interface names
  Texts,      \* descriptions and other string values
  IfTypes,    \* the identities of iana-if-type
  Unknown,    \* IanaIfType::Unknown
  TypeName,   \* TypeName[t]: the identity string of IanaIfType t
  Ips, Lens,  \* what stands before and after the slash of an address
  Mtus        \* values of mtu

Optional(S) == S \union {None}

IanaIfType == IfTypes \union {Unknown}

Address == [ip : Ips, plen : Optional(Lens)]
Ip == [address : Seq(Address), mtu : Optional(Mtus)]

Interface ==
  [name : Names, description : Optional(Texts), enabled : BOOLEAN,
   type : Optional(IanaIfType), oper_status : Optional(Texts),
   ipv4 : Optional(Ip), ipv6 : Optional(Ip)]

ASSUME InterfaceDataAssumption ==
  /\ TypeName \in [IfTypes -> STRING]
  /\ IsInjective(TypeName)
  /\ Unknown \notin IfTypes
  /\ "unknown" \notin Range(TypeName)
  /\ None \notin Names \union Texts \union Ips \union Lens \union Mtus \union Ip
  /\ None \notin Range(TypeName) \union {"unknown", "false", ""}

\* The leaves of an interface, with the values that the class can write.
InterfaceLeaves ==
  ({"name"} \X Names) \union ({"description"} \X Texts)
  \union ({"enabled"} \X {"false"}) \union ({"type"} \X (Range(TypeName) \union {"unknown"}))
  \union ({"ip"} \X Ips) \union ({"prefix-length"} \X Lens) \union ({"mtu"} \X Mtus)

\* ietf-interfaces and ietf-ip: the keys of the two lists; a name is a string
\* and enabled a boolean, so that their values are never refused.  Addresses
\* stand for their canonical form, identities for what follows the colon.
ASSUME InterfaceSchemaAssumption ==
  /\ KeyOf["interface"] = <<"name">> /\ KeyOf["address"] = <<"ip">>
  /\ \A key \in Names \union Ips : <<key>> # None
  /\ Refused \intersect (({"name"} \X Names) \union {<<"enabled", "false">>}) = {}
  /\ DOMAIN Canonical \intersect InterfaceLeaves = {}

-----------------------------------------------------------------------------
(* IanaIfType.hpp *)

ianaIfTypeToString(t) == IF t \in IfTypes THEN TypeName[t] ELSE "unknown"

ianaIfTypeFromString(s) ==
  IF s \in Range(TypeName) THEN CHOOSE t \in IfTypes : TypeName[t] = s ELSE Unknown

-----------------------------------------------------------------------------
(* serialize: the lyd_new_path calls below the root, in order *)

AddressCalls(box, a) ==
  LET base == Append(box, Entry("address", <<a.ip>>)) IN
  << PathCall(Append(base, Segment("ip")), a.ip, {"ip"}) >>
  \o If(a.plen # None,
        << PathCall(Append(base, Segment("prefix-length")), a.plen, {"ip"}) >>)

\* Mutant: an address without a slash keeps the prefix of the one before it.
PrefixKept(name, container, ip) ==
  LET box == << Entry("interface", <<name>>), Segment(container) >>
      Written(k) == {j \in 1..k : ip.address[j].plen # None}
      Kept(k) == IF Written(k) = {} THEN None ELSE ip.address[Max(Written(k))].plen
  IN If(ip # None,
        FlattenSeq([k \in DOMAIN ip.address |->
                      AddressCalls(box, [ip.address[k] EXCEPT !.plen = Kept(k)])])
        \o If(ip.mtu # None,
              << PathCall(Append(box, Segment("mtu")), ip.mtu, {"ip"}) >>))

\* The paths write the container of ietf-ip as ip:ipv4 and ip:ipv6.
IpCalls(name, container, ip) ==
  LET box == << Entry("interface", <<name>>), Segment(container) >> IN
  If(ip # None,
     FlattenSeq([k \in DOMAIN ip.address |-> AddressCalls(box, ip.address[k])])
     \o If(ip.mtu # None,
           << PathCall(Append(box, Segment("mtu")), ip.mtu, {"ip"}) >>))

LeafCalls(i) ==
  LET Leaf(node, value, needs) ==
        << PathCall(<< Entry("interface", <<i.name>>), Segment(node) >>, value, needs) >>
  IN Leaf("name", i.name, {})
     \o If(i.description # None, Leaf("description", i.description, {}))
     \o If(~i.enabled, Leaf("enabled", "false", {}))
     \o If(i.type # None, Leaf("type", ianaIfTypeToString(i.type), {"ianaift"}))

\* Mutant: the second address block writes the first container again.
CallsCopied(i) ==
  LeafCalls(i) \o IpCalls(i.name, "ipv4", i.ipv4) \o IpCalls(i.name, "ipv6", i.ipv4)

\* Mutant: enabled is written only for an interface that has a type.
CallsEnabledIfTyped(i) ==
  LeafCalls(IF i.type = None THEN [i EXCEPT !.enabled = TRUE] ELSE i)
  \o IpCalls(i.name, "ipv4", i.ipv4) \o IpCalls(i.name, "ipv6", i.ipv6)

Calls(i) ==
  LeafCalls(i) \o IpCalls(i.name, "ipv4", i.ipv4) \o IpCalls(i.name, "ipv6", i.ipv6)

-----------------------------------------------------------------------------
(* deserialize: what one interface entry of the tree is read as *)

\* Mutant: the container is kept without an address.
ReadIpAlways(nodes, base, container) ==
  IF ~HasNode(nodes, Append(base, Segment(container))) THEN None
  ELSE [address |-> <<>>, mtu |-> None]

ReadIp(nodes, base, container) ==
  LET box == Append(base, Segment(container))
      entries == EntriesOf(nodes, box, "address")
      Read(e) == [ip   |-> NodeValue(nodes, Append(e.path, Segment("ip"))),
                  plen |-> NodeValue(nodes, Append(e.path, Segment("prefix-length")))]
  IN IF entries = <<>> THEN None
     ELSE [address |-> [k \in DOMAIN entries |-> Read(entries[k])],
           mtu     |-> NodeValue(nodes, Append(box, Segment("mtu")))]

\* The children of the entry, enabled and type as strings.
ReadChildren(nodes, base) ==
  LET Leaf(node) == NodeValue(nodes, Append(base, Segment(node))) IN
  [name        |-> Leaf("name"),
   description |-> Leaf("description"),
   enabled     |-> Leaf("enabled"),
   type        |-> Leaf("type"),
   oper_status |-> Leaf("oper-status"),
   ipv4        |-> ReadIp(nodes, base, "ipv4"),
   ipv6        |-> ReadIp(nodes, base, "ipv6")]

ReadType(s) == IF s = None THEN None ELSE ianaIfTypeFromString(s)

\* Mutant: the identity is not converted.
TypeNotConverted(nodes, base) ==
  [ReadChildren(nodes, base) EXCEPT !.enabled = @ # "false"]

ReadInterface(nodes, base) ==
  [ReadChildren(nodes, base) EXCEPT !.enabled = @ # "false", !.type = ReadType(@)]

\* Whatever the schema checks for the node: the values are of its type.
OfSchema(n) ==
  LET node == Last(n.path)[1] IN
  /\ node \in {"description", "oper-status"} => n.value \in Texts
  /\ node = "prefix-length" => n.value \in Lens
  /\ node = "mtu" => n.value \in Mtus
  /\ node = "interface" => \E name \in Names : Last(n.path) = Entry(node, <<name>>)
  /\ node = "address" => \E ip \in Ips : Last(n.path) = Entry(node, <<ip>>)

\* What can stand below the container `interfaces' of a tree.
IsInterfacesTree(nodes) == WellFormed(nodes) /\ \A n \in Range(nodes) : OfSchema(n)

InterfaceEntries(nodes) == EntriesOf(nodes, <<>>, "interface")

\* deserialize throws for an entry whose name is empty.
NamedEntries(nodes) ==
  \A e \in Range(InterfaceEntries(nodes)) :
    NodeValue(nodes, Append(e.path, Segment("name"))) \notin {None, ""}

ReadInterfaces(nodes) ==
  LET entries == InterfaceEntries(nodes) IN
  [k \in DOMAIN entries |-> ReadInterface(nodes, entries[k].path)]

NamesOf(interfaces) == {i.name : i \in Range(interfaces)}

-----------------------------------------------------------------------------
(* What both deserializers promise of the interfaces they read *)

DistinctNames(m) == IsInjective([k \in DOMAIN m |-> m[k].name])
DistinctIps(ip) == IsInjective([k \in DOMAIN ip.address |-> ip.address[k].ip])

\* A model as libyang lists it: each name once, each ip of an interface once,
\* no ip container without an address.
Normal(m) ==
  /\ DistinctNames(m)
  /\ \A i \in Range(m) : \A ip \in {i.ipv4, i.ipv6} \ {None} :
       ip.address # <<>> /\ DistinctIps(ip)

=============================================================================
