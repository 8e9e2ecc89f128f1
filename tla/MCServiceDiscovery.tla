------------------------- MODULE MCServiceDiscovery -------------------------
(***************************************************************************)
(* ServiceDiscovery for model checking: two recommended ports, which the   *)
(* host's config.rs and the guest's network.rs list each for itself.       *)
(***************************************************************************)
EXTENDS ServiceDiscovery

TwoPorts == <<15555, 15556>>
NoHosts == <<>>
=============================================================================
