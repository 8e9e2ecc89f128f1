------------------------ MODULE MCUdpCommandChannel ------------------------
(***************************************************************************)
(* The command channel against the abstract promise.  The promise holds    *)
(* when the cache outlasts every command that may still be on its way and  *)
(* a new socket never gets the port of an old one.                         *)
(***************************************************************************)
EXTENDS UdpCommandChannel

Delivery ==
  INSTANCE CommandDelivery WITH
    effects <- [i \in 1..Len(executed) |-> executed[i].cmd]

(* Each command takes effect at most once over all sessions, restarts and    *)
(* duplicates: the channel implements CommandDelivery.                       *)
AtMostOnceDelivery == Delivery!Spec
=============================================================================
