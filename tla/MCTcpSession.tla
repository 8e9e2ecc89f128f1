---------------------------- MODULE MCTcpSession ----------------------------
(***************************************************************************)
(* TcpSession for model checking: fewer starts, and the abstract promise   *)
(* the session keeps.                                                      *)
(***************************************************************************)
EXTENDS TcpSession

CONSTANTS t1, t2

TwoPorts == <<15555, 15556>>
TwoHosts == <<"172.16.0.1", "172.17.0.1">>

\* The files differ, so that it matters which one a side reads.
MCInit ==
  /\ Init /\ hostUp
  /\ files = [p \in Paths |-> IF p = "shared" THEN t1 ELSE t2]
  /\ guestCfg = "shared"

MCSpec == MCInit /\ [][Next]_vars /\ Fairness

Delivery == INSTANCE CommandDelivery WITH effects <- executed

(* TCP keeps the promise of CommandDelivery without a cache: whatever breaks *)
(* or restarts, a decided command takes effect at most once, and nothing     *)
(* else does (handle_connection_elastic writes a command once).              *)
TcpAtMostOnce == Delivery!Spec
=============================================================================
