---------------------------- MODULE MCIetfRouting ----------------------------
(***************************************************************************)
(* IetfRouting with models that meet what libyang accepts and refuses: a   *)
(* feature that may be off, a name twice in the state leaf-list, a rib     *)
(* twice, a route without preference, the same identity with and without   *)
(* its module, an identity of another module, a router-id that is refused, *)
(* and protocols.                                                          *)
(***************************************************************************)
EXTENDS IetfRouting, TLC

CONSTANTS ethernet, unknown

MCNames == {"eth0", "lo", ""}
MCTexts == {"uplink", "main routes"}
MCIfTypes == {ethernet}
MCTypeName == ethernet :> "ethernetCsmacd"
MCIps == {"192.0.2.1"}
MCLens == {"24"}
MCMtus == {"1500"}
MCKeyOf == [interface |-> <<"name">>, address |-> <<"ip">>, rib |-> <<"name">>]
           @@ ("control-plane-protocol" :> <<"type", "name">>)

MCCppTypes == {"", "static", "ietf-routing:static", "ospfv2", "ietf-ospf:ospfv2"}
MCFamilies ==
  {"", "ipv4", "ietf-routing:ipv4", "ipv4-unicast",
   "ietf-ipv4-unicast-routing:ipv4-unicast"}
MCLabels == {"static0", "static1", "main", "o'hare"}
MCRouterIds == {"192.0.2.1", "main"}
MCPrefs == {"20", "4294967295"}
MCLocalName ==
  [s \in MCCppTypes \union MCFamilies |->
     CASE s = "ietf-routing:static" -> "static"
       [] s = "ietf-ospf:ospfv2" -> "ospfv2"
       [] s = "ietf-routing:ipv4" -> "ipv4"
       [] s = "ietf-ipv4-unicast-routing:ipv4-unicast" -> "ipv4-unicast"
       [] OTHER -> s]

\* Without a module, an identity is looked up in ietf-routing only; a router-id
\* is a dotted quad.
MCRefused ==
  {<<"router-id", "main">>, <<"type", "">>, <<"type", "ospfv2">>,
   <<"address-family", "">>, <<"address-family", "ipv4-unicast">>}
MCCanonical ==
  (<<"type", "static">> :> "ietf-routing:static")
  @@ (<<"address-family", "ipv4">> :> "ietf-routing:ipv4")
MCUnquotable == {"o'hare"}
MCFeatures == {{}, {"router-id"}}
MCNoFeatures == {{}}

Named(name, family, routes) ==
  [name |-> name, address_family |-> family, description |-> None, routes |-> routes]

Protocol(type, routes) ==
  [type |-> type, name |-> "static0", description |-> "main routes",
   static_routes |-> routes]

Main == Named("main", "ipv4", <<"20", None, "20">>)

Ribs ==
  {Main, [Named("static1", "ietf-routing:ipv4", <<"4294967295">>)
            EXCEPT !.description = "main routes"],
   Named("o'hare", "ipv4", <<>>), Named("main", "ipv4-unicast", <<>>),
   Named("static0", "ietf-ipv4-unicast-routing:ipv4-unicast", <<>>)}

\* Up to two ribs, with or without the rest of a model; and protocols.
MCModels ==
  {[m EXCEPT !.ribs = ribs] :
     m \in {Empty, [Empty EXCEPT !.router_id = "192.0.2.1",
                                 !.interfaces = <<"eth0", "lo", "eth0">>]},
     ribs \in {<<>>} \union {<<r>> : r \in Ribs} \union (Ribs \X Ribs)}
  \union {[Empty EXCEPT !.router_id = "main", !.ribs = <<Main>>]}
  \union
  {[Empty EXCEPT !.cpps = <<p>>, !.ribs = <<Main>>] :
     p \in {Protocol("static", <<"20">>), Protocol("ospfv2", <<>>)}}
MCNothing == {}

Node(path, value) == [path |-> path, value |-> value]

Container(node) == Node(<<Segment(node)>>, None)

InterfaceNodes(name) ==
  LET base == << Entry("interface", <<name>>) >> IN
  << Node(base, None), Node(Append(base, Segment("name")), name),
     Node(Append(base, Segment("oper-status")), "uplink") >>

CppNodes(name) ==
  LET box == << Segment("control-plane-protocols") >>
      base == Append(box, Entry("control-plane-protocol", <<"ietf-routing:static", name>>))
  IN << Node(base, None), Node(Append(base, Segment("type")), "ietf-routing:static"),
        Node(Append(base, Segment("name")), name) >>

RibNodes(name, family, pref) ==
  LET base == << Segment("ribs"), Entry("rib", <<name>>) >>
      route == Append(Append(base, Segment("routes")), Instance("route", 1)) IN
  << Container("ribs"), Node(base, None), Node(Append(base, Segment("name")), name),
     Node(Append(base, Segment("address-family")), family),
     Node(Append(base, Segment("routes")), None), Node(route, None) >>
  \o If(pref # None, << Node(Append(route, Segment("route-preference")), pref) >>)

NameNode(k, name) == Node(<< Segment("interfaces"), Instance("interface", k) >>, name)

\* The document of the test.
Tested ==
  [interfaces |-> InterfaceNodes("eth0") \o InterfaceNodes("lo"),
   routing |-> <<Container("control-plane-protocols")>>
               \o CppNodes("static0") \o CppNodes("static1")
               \o RibNodes("main", "ietf-routing:ipv4", "20")]

\* A name in both trees, one only in the leaf-list and a route without
\* preference; an address family of another module; no routing; an interface
\* whose name is empty.
MCDocuments ==
  {Tested,
   [interfaces |-> InterfaceNodes("eth0"),
    routing |-> <<Container("interfaces"), NameNode(1, "eth0"), NameNode(2, "lo"), NameNode(3, "eth0")>>
                \o RibNodes("main", "ietf-routing:ipv4", None)],
   [routing |-> RibNodes("main", "ietf-ipv4-unicast-routing:ipv4-unicast", "20")],
   [interfaces |-> InterfaceNodes("eth0")],
   [interfaces |-> InterfaceNodes(""), routing |-> <<>>]}
MCTested == {Tested}

=============================================================================
