-------------------------- MODULE CommandDelivery --------------------------
(***************************************************************************)
(* What the host's decision engine relies on when it sends a command and   *)
(* starts a cooldown: whatever the network and the processes do, a decided *)
(* command takes effect in the guest at most once, and only commands that  *)
(* were decided take effect.                                               *)
(***************************************************************************)
EXTENDS Naturals, Sequences

CONSTANT MaxCmds   \* bound on commands decided

VARIABLES
  issued,   \* commands 1 .. issued have been decided
  effects   \* commands in the order they took effect

Init == issued = 0 /\ effects = <<>>

Decide ==
  /\ issued < MaxCmds
  /\ issued' = issued + 1
  /\ UNCHANGED effects

TakeEffect(c) ==
  /\ c <= issued
  /\ \A i \in 1..Len(effects) : effects[i] # c
  /\ effects' = Append(effects, c)
  /\ UNCHANGED issued

Next == Decide \/ \E c \in 1..MaxCmds : TakeEffect(c)

Spec == Init /\ [][Next]_<<issued, effects>>
=============================================================================
