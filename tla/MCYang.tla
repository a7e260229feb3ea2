------------------------------- MODULE MCYang -------------------------------
(***************************************************************************)
(* Yang with two default directories, both needed by the two default       *)
(* modules, and a third directory, the working directory of the process,   *)
(* which callers may add too: it holds another revision of the first       *)
(* default module, and the second one.                                     *)
(***************************************************************************)
EXTENDS Yang, TLC

CONSTANTS usrlocal, usr, home, ifaces1, ifaces0, ip1, yanglib, nodirs, nocwd

MCPaths == {usrlocal, usr, home}
MCModules == {ifaces1, ifaces0, ip1}
MCNames == {"ietf-interfaces", "ietf-ip"}
MCNameOf == (ifaces1 :> "ietf-interfaces") @@ (ifaces0 :> "ietf-interfaces")
            @@ (ip1 :> "ietf-ip")
MCHolds == (usrlocal :> {ifaces1}) @@ (usr :> {ip1}) @@ (home :> {ifaces0, ip1})
MCOptions == {yanglib, nodirs, nocwd}
MCSearchPaths == <<usrlocal, usr>>
MCDefaultModules == <<ifaces1, ip1>>
MCOptionLists == {{}, {nodirs}, {nocwd}}
MCHome == {home}
MCLoads == {ifaces0, ip1}
MCNone == {}

=============================================================================
