---------------------------- MODULE MCServerSetup ----------------------------
(* Instances of ServerSetup for TLC. *)
EXTENDS ServerSetup, TLC

CONSTANTS s1, s2, v1

MCServers == {s1, s2}
(* A gateway starts as a CProtocolSocket does, and its sessions request a   *)
(* server as those of a proxy do.                                           *)
MCKinds == {"proxy", "protocol", "libuv"}
MCPipelines == {"pipeline"}
MCServices == {v1}

Symmetry == Permutations(MCServers) \cup Permutations(MCServices)
===============================================================================
