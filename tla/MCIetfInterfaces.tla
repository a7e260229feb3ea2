-------------------------- MODULE MCIetfInterfaces --------------------------
(***************************************************************************)
(* IetfInterfaces with a handful of interfaces that meet each other in the *)
(* ways that matter: the same name twice with different fields, the same   *)
(* address twice, an ip container without an address, a value libyang      *)
(* refuses, a name with a quote, an empty name.                            *)
(***************************************************************************)
EXTENDS IetfInterfaces

CONSTANTS ethernet, loopback, unknown

MCNames == {"eth0", "lo", "o'hare", ""}
MCTexts == {"uplink", "up"}
MCIfTypes == {ethernet, loopback}
MCTypeName == (ethernet :> "ethernetCsmacd") @@ (loopback :> "softwareLoopback")
MCIps == {"192.0.2.1", "198.51.100.5"}
MCLens == {"24", "8"}
MCMtus == {"1500", "70000"}
MCKeyOf == [interface |-> <<"name">>, address |-> <<"ip">>]
MCCanonical == <<>>

\* uint16 mtu; no identity is called unknown
MCRefused == {<<"mtu", "70000">>, <<"type", "unknown">>}
MCUnquotable == {"o'hare"}
MCModuleNames == {"ietf-interfaces", "ietf-ip", "iana-if-type"}
\* what serialize writes, as if libyang resolved it
MCPrefixes == {"ip", "ianaift"}
MCReal == {MCModuleNames}
MCBoth == {MCModuleNames, MCPrefixes}
MCNothing == {}

Plain(name) ==
  [name |-> name, description |-> None, enabled |-> TRUE, type |-> None,
   oper_status |-> None, ipv4 |-> None, ipv6 |-> None]

At(ip, plen) == [ip |-> ip, plen |-> plen]

Uplink ==
  [Plain("eth0") EXCEPT !.description = "uplink", !.type = ethernet,
     !.ipv4 = [address |-> <<At("192.0.2.1", "24"), At("198.51.100.5", "24")>>,
               mtu |-> "1500"]]

MCInterfaces ==
  {Uplink,
   [Plain("eth0") EXCEPT !.enabled = FALSE, !.type = loopback, !.oper_status = "up",
      !.ipv4 = [address |-> <<At("192.0.2.1", "8"), At("192.0.2.1", None),
                            At("198.51.100.5", None)>>,
                mtu |-> None],
      !.ipv6 = [address |-> <<At("192.0.2.1", None)>>, mtu |-> "70000"]],
   [Plain("lo") EXCEPT !.enabled = FALSE, !.type = unknown,
      !.ipv4 = [address |-> <<>>, mtu |-> "1500"]],
   [Plain("lo") EXCEPT !.description = "uplink", !.enabled = FALSE],
   Plain("o'hare"), Plain("")}

Node(path, value) == [path |-> path, value |-> value]

\* Another module's data; eth0 with an operational state and an ip container
\* that has only an mtu.
MCDocuments ==
  {[top |-> "other", nodes |-> <<>>],
   [top |-> "interfaces", nodes |->
      LET eth0 == <<Entry("interface", <<"eth0">>)>>
          ipv4 == Append(eth0, Segment("ipv4")) IN
      <<Node(eth0, None), Node(Append(eth0, Segment("name")), "eth0"),
        Node(Append(eth0, Segment("oper-status")), "up"),
        Node(ipv4, None), Node(Append(ipv4, Segment("mtu")), "1500")>>]}

=============================================================================
