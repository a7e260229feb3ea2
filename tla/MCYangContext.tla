---------------------------- MODULE MCYangContext ----------------------------
(***************************************************************************)
(* YangContext with a module that every context has import-only, and with  *)
(* ietf-ip, which imports it and ietf-interfaces.  Of ietf-interfaces a    *)
(* second revision can be loaded before or after: the older one is in the  *)
(* working directory, which libyang searches by itself or, in a context    *)
(* with the option nocwd, once it has been added.                          *)
(***************************************************************************)
EXTENDS YangContext, TLC

CONSTANTS types1, ifaces1, ifaces2, ip1, usr, cwd, nodirs, nocwd

MCPaths == {usr, cwd}
MCModules == {types1, ifaces1, ifaces2, ip1}
MCNames == {"ietf-inet-types", "ietf-interfaces", "ietf-ip"}
MCNameOf ==
  (types1 :> "ietf-inet-types") @@ (ip1 :> "ietf-ip")
  @@ (ifaces1 :> "ietf-interfaces") @@ (ifaces2 :> "ietf-interfaces")
MCHolds == (usr :> {ifaces2, ip1}) @@ (cwd :> {ifaces1})
MCInternal == <<types1>>
MCImports ==
  [m \in MCModules |-> IF m = ip1 THEN {types1, ifaces1} ELSE {}]
MCOptions == {nodirs, nocwd}
MCOptionLists == {{}, {nocwd}}

Symmetry == Permutations(Objects)

=============================================================================
