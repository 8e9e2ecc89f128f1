------------------------- MODULE MultiPathConnector -------------------------
(***************************************************************************)
(* Where a guest looks for its host: the targets of MultiPathConnector and *)
(* the order in which connect tries them (src/src/network.rs).             *)
(***************************************************************************)
EXTENDS Naturals, Sequences

CONSTANTS
  Ports,         \* RECOMMENDED_PORTS, best first
  CommonHosts,   \* addresses a WSL gateway often has
  Gateway,       \* the gateway the guest discovered when it started
  MaxRetries     \* attempts at one target

ASSUME ConnectorAssumption == Len(Ports) > 0 /\ MaxRetries \in Nat \ {0}

\* new_udp: every recommended port of the gateway, all at once.
UdpTargets == [i \in 1..Len(Ports) |-> [host |-> Gateway, port |-> Ports[i]]]

(* build_guest_targets: those first, then the best port of the other hosts.  *)
(* A target's priority is its place, so that sorting changes nothing.        *)
GuestTargets ==
  LET others == SelectSeq(CommonHosts, LAMBDA h : h # Gateway)
  IN  UdpTargets \o [i \in 1..Len(others) |-> [host |-> others[i], port |-> Ports[1]]]

Attempts == [target : 1..Len(GuestTargets), retry : 1..MaxRetries]

FirstAttempt == [target |-> 1, retry |-> 1]

\* Mutant: connect gives up on everything behind the first target.
StuckAttempt(a) == [a EXCEPT !.retry = IF @ < MaxRetries THEN @ + 1 ELSE 1]

\* After the last retry of the last target connect fails and is called again.
NextAttempt(a) ==
  IF a.retry < MaxRetries THEN [a EXCEPT !.retry = @ + 1]
  ELSE IF a.target < Len(GuestTargets) THEN [target |-> a.target + 1, retry |-> 1]
  ELSE FirstAttempt
=============================================================================
