-------------------------- MODULE ServiceDiscovery --------------------------
(***************************************************************************)
(* HostService with a guest that looks for it: the loop of main that       *)
(* probes the recommended ports over UDP and stays with what answers       *)
(* (src/src/bin/guest.rs, MultiPathConnector::probe_udp, and the pong of   *)
(* run_udp_server).  What is said once they have met is                    *)
(* UdpCommandChannel's subject.                                            *)
(***************************************************************************)
EXTENDS HostService, MultiPathConnector

VARIABLE target    \* guest: the port run_udp_loop talks to, None while probing

vars == <<hostVars, target>>

Init == HostInit /\ target = None

\* The host answers a ping on its port, if the firewall lets it through.
HostAnswers == IF proc = "serving" /\ <<"UDP", listen>> \in rules THEN {listen} ELSE {}


(* probe_udp pings all ports and takes the first datagram that arrives,      *)
(* whoever sent it.  Without one the guest pauses and probes again.          *)
Probe ==
  /\ target = None
  /\ target' \in (HostAnswers \union busy) \intersect {UdpTargets[i].port : i \in 1..Len(UdpTargets)}
  /\ UNCHANGED hostVars

(* run_udp_loop returns when a send fails, which a port without a listener   *)
(* may cause and need not: most such errors are taken by recv and ignored.   *)
LoopEnds ==
  /\ target \notin HostAnswers \union {None}
  /\ target' = None
  /\ UNCHANGED hostVars

GuestRestarts ==
  /\ target # None /\ Fault
  /\ target' = None
  /\ UNCHANGED <<serviceVars, portVars, adminVars>>

Guest == Probe \/ LoopEnds \/ GuestRestarts

Next == (HostNext /\ UNCHANGED target) \/ Guest

(* The service's process runs and its select sees the signal, the manager    *)
(* starts what is due, the guest probes.  Nothing makes install go on, a     *)
(* person act, another program release a port, or a send fail.               *)
Fairness ==
  /\ WF_vars(Process /\ UNCHANGED target)
  /\ WF_vars(ReceiveStop /\ UNCHANGED target)
  /\ WF_vars(AutoStart /\ UNCHANGED target)
  /\ WF_vars(Probe)

Spec == Init /\ [][Next]_vars /\ Fairness

-----------------------------------------------------------------------------
TypeOK ==
  /\ HostTypeOK
  /\ target \in RecPorts \union {None}

=============================================================================
