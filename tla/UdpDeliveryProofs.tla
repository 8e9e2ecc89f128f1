------------------------- MODULE UdpDeliveryProofs -------------------------
(***************************************************************************)
(* When the UDP command channel keeps the promise of CommandDelivery.      *)
(* What one session's cache guarantees is in UdpCommandChannelProofs; here *)
(* are the sessions together, and the refinement.                          *)
(***************************************************************************)
EXTENDS MCUdpCommandChannel, UdpCommandChannelProofs, FiniteSetTheorems

-----------------------------------------------------------------------------
(* A command belongs to the port it was decided for.  These are the ports at *)
(* which each command has been seen, wherever it is.                         *)
InTransit == {<<m.port, m.cmd>> : m \in toGuest}
InSlots == {<<p, pending[p]>> : p \in {q \in Ports : pending[q] # None}}
InBuffer == {<<port, inbox[k]>> : k \in 1..Len(inbox)}
InLog == {<<executed[i].session, executed[i].cmd>> : i \in 1..Len(executed)}
Seen == InTransit \union InSlots \union InBuffer \union InLog

OneOwner == \A x, y \in Seen : x[2] = y[2] => x[1] = y[1]
SeenIssued == \A x \in Seen : x[2] \in 1..issued

OwnerInv ==
  /\ port = session
  /\ pc = "down" => inbox = <<>>
  /\ OneOwner /\ SeenIssued

LEMMA OwnerInit == Init => OwnerInv
<1> SUFFICES ASSUME Init PROVE OwnerInv
  OBVIOUS
<1>1. Len(inbox) = 0 /\ Len(executed) = 0
  BY EmptySeq DEF Init
<1>2. Seen = {}
  BY <1>1 DEF Init, Seen, InTransit, InSlots, InBuffer, InLog
<1> QED
  BY <1>2 DEF Init, OwnerInv, OneOwner, SeenIssued

\* Steps at which no command appears anywhere new keep the invariant.
LEMMA OwnerFrame ==
  ASSUME OwnerInv, UNCHANGED issued, Seen' \subseteq Seen
  PROVE  OneOwner' /\ SeenIssued'
BY DEF OwnerInv, OneOwner, SeenIssued

LEMMA TailSeen ==
  ASSUME TypeOK, inbox # <<>>, inbox' = Tail(inbox), UNCHANGED port
  PROVE  InBuffer' \subseteq InBuffer /\ <<port, Head(inbox)>> \in InBuffer
<1>1. /\ Len(Tail(inbox)) = Len(inbox) - 1 /\ Len(inbox) \in Nat \ {0}
      /\ \A k \in 1..(Len(inbox) - 1) : Tail(inbox)[k] = inbox[k + 1]
      /\ Head(inbox) = inbox[1]
  BY HeadTailProperties, EmptySeq DEF TypeOK
<1>2. \A k \in 1..(Len(inbox) - 1) : k + 1 \in 1..Len(inbox)
  BY <1>1
<1>3. 1 \in 1..Len(inbox)
  BY <1>1
<1> QED
  BY <1>1, <1>2, <1>3 DEF InBuffer

LEMMA OwnerMetrics ==
  ASSUME TypeOK, OwnerInv, NEW p \in Ports, HostReceiveMetrics(p)
  PROVE  OneOwner' /\ SeenIssued'
<1> DEFINE resent == IF pending[p] = None THEN {} ELSE {Command(p, pending[p])}
<1>1. InBuffer' = InBuffer /\ InLog' = InLog
  BY DEF HostReceiveMetrics, guestVars, InBuffer, InLog
<1>2. \A m \in resent : <<m.port, m.cmd>> \in InSlots
  BY DEF Command, InSlots
<1>3. CASE toGuest' = toGuest \union resent /\ UNCHANGED hostVars
  <2> HIDE DEF resent
  <2>1. UNCHANGED <<pending, issued>>
    BY <1>3 DEF hostVars
  <2>2. InSlots' = InSlots
    BY <2>1 DEF InSlots
  <2>3. InTransit' \subseteq InTransit \union InSlots
    BY <1>2, <1>3 DEF InTransit
  <2> QED
    BY <1>1, <2>1, <2>2, <2>3, OwnerFrame DEF Seen
<1>4. CASE /\ issued' = issued + 1
           /\ pending' = [pending EXCEPT ![p] = issued']
           /\ toGuest' = toGuest \union resent \union {Command(p, issued')}
  <2> DEFINE new == <<p, issued + 1>>
  <2>1. InTransit' \subseteq InTransit \union InSlots \union {new}
    <3>1. Command(p, issued').port = p /\ Command(p, issued').cmd = issued + 1
      BY <1>4 DEF Command
    <3> HIDE DEF resent
    <3> QED
      BY <1>2, <1>4, <3>1 DEF InTransit
  <2>2. InSlots' \subseteq InSlots \union {new}
    BY <1>4 DEF InSlots, TypeOK
  <2>3. Seen' \subseteq Seen \union {new}
    BY <1>1, <2>1, <2>2 DEF Seen
  <2>4. issued \in Nat
    BY BoundsAssumption DEF TypeOK
  <2>5. \A x \in Seen : x[2] \in 1..issued /\ x[2] # issued + 1
    BY <2>4 DEF OwnerInv, SeenIssued
  <2> QED
    BY <1>4, <2>3, <2>4, <2>5 DEF OwnerInv, OneOwner, SeenIssued
<1> QED
  BY <1>3, <1>4 DEF HostReceiveMetrics

LEMMA OwnerStep ==
  ASSUME ~ReusePorts, TypeOK, OwnerInv, [Next]_vars
  PROVE  OwnerInv'
<1>1. port' = session'
  <2>1. CASE Connect
    BY <2>1 DEF Connect, PortChoices
  <2>2. CASE ~Connect
    BY <2>2 DEF OwnerInv, Next, Host, HostReceiveMetrics, HostReceiveResult, HostRestart, GuestLoop,
        SendMetrics, ReceiveTimeout, AnswerDuplicate, Execute, Finish, Disconnect, Network, Deliver,
        Lose, guestVars, vars
  <2> QED
    BY <2>1, <2>2
<1>2. pc' = "down" => inbox' = <<>>
  BY DEF OwnerInv, Next, Host, HostReceiveMetrics, HostReceiveResult, HostRestart, Connect, GuestLoop,
      SendMetrics, ReceiveTimeout, AnswerDuplicate, Execute, Finish, Disconnect, Network, Deliver,
      Lose, guestVars, vars
<1>3. OneOwner' /\ SeenIssued'
  <2>1. CASE \E p \in Ports : HostReceiveMetrics(p)
    BY <2>1, OwnerMetrics
  <2>2. CASE HostRestart \/ \E p \in Ports, c \in Cmds : HostReceiveResult(p, c)
    <3>1. UNCHANGED <<issued, toGuest, guestVars>>
      BY <2>2 DEF HostRestart, HostReceiveResult
    <3>2. InSlots' \subseteq InSlots
      BY <2>2 DEF HostRestart, HostReceiveResult, InSlots, TypeOK
    <3>3. InTransit' = InTransit /\ InBuffer' = InBuffer /\ InLog' = InLog
      BY <3>1 DEF guestVars, InTransit, InBuffer, InLog
    <3> QED
      BY <3>1, <3>2, <3>3, OwnerFrame DEF Seen
  <2>3. CASE Connect \/ Disconnect
    <3>1. UNCHANGED <<executed, issued, pending, toGuest>> /\ inbox' = <<>>
      BY <2>3 DEF Connect, Disconnect, OwnerInv, hostVars
    <3>2. InBuffer' = {}
      BY <3>1, EmptySeq DEF InBuffer
    <3>3. InTransit' = InTransit /\ InSlots' = InSlots /\ InLog' = InLog
      BY <3>1 DEF InTransit, InSlots, InLog
    <3> QED
      BY <3>1, <3>2, <3>3, OwnerFrame DEF Seen
  <2>4. CASE SendMetrics \/ ReceiveTimeout \/ Finish \/ UNCHANGED vars
    <3>1. UNCHANGED <<executed, issued, pending, toGuest, inbox, port>>
      BY <2>4 DEF SendMetrics, ReceiveTimeout, Finish, hostVars, vars
    <3>2. Seen' = Seen
      BY <3>1 DEF Seen, InTransit, InSlots, InLog, InBuffer
    <3> QED
      BY <3>1, <3>2, OwnerFrame
  <2>5. CASE AnswerDuplicate
    <3>1. /\ UNCHANGED <<executed, issued, pending, toGuest, port>>
          /\ inbox # <<>> /\ inbox' = Tail(inbox)
      BY <2>5 DEF AnswerDuplicate, hostVars
    <3>2. InTransit' = InTransit /\ InSlots' = InSlots /\ InLog' = InLog
      BY <3>1 DEF InTransit, InSlots, InLog
    <3> QED
      BY <3>1, <3>2, TailSeen, OwnerFrame DEF Seen
  <2>6. CASE Execute
    <3> DEFINE e == [session |-> session, cmd |-> Head(inbox)]
    <3>1. /\ UNCHANGED <<issued, pending, toGuest, port>> /\ pc # "down"
          /\ inbox # <<>> /\ inbox' = Tail(inbox) /\ executed' = Append(executed, e)
      BY <2>6 DEF Execute, hostVars
    <3>2. e \in [session : Ports, cmd : Cmds]
      BY <3>1, HeadTailProperties DEF TypeOK
    <3>3. /\ Len(executed') = Len(executed) + 1 /\ Len(executed) \in Nat
          /\ executed'[Len(executed) + 1] = e
          /\ \A i \in 1..Len(executed) : executed'[i] = executed[i]
      BY <3>1, <3>2, AppendProperties, LenProperties DEF TypeOK
    <3>4. InLog' \subseteq InLog \union {<<port, Head(inbox)>>}
      BY <3>3 DEF InLog, OwnerInv
    <3>5. InTransit' = InTransit /\ InSlots' = InSlots
      BY <3>1 DEF InTransit, InSlots
    <3> QED
      BY <3>1, <3>4, <3>5, TailSeen, OwnerFrame DEF Seen
  <2>7. ASSUME NEW c \in Cmds, Deliver(c) PROVE OneOwner' /\ SeenIssued'
    <3>1. /\ UNCHANGED <<executed, issued, pending, port>> /\ Command(port, c) \in toGuest
          /\ toGuest' \subseteq toGuest /\ inbox' = Append(inbox, c)
      BY <2>7 DEF Deliver, Consume, hostVars
    <3>2. /\ Len(inbox') = Len(inbox) + 1 /\ Len(inbox) \in Nat
          /\ inbox'[Len(inbox) + 1] = c
          /\ \A k \in 1..Len(inbox) : inbox'[k] = inbox[k]
      BY <3>1, AppendProperties, LenProperties DEF TypeOK
    <3>3. <<port, c>> \in InTransit
      BY <3>1 DEF InTransit, Command
    <3>4. InBuffer' \subseteq InBuffer \union {<<port, c>>}
      BY <3>1, <3>2 DEF InBuffer
    <3>5. InTransit' \subseteq InTransit /\ InSlots' = InSlots /\ InLog' = InLog
      BY <3>1 DEF InTransit, InSlots, InLog
    <3> QED
      BY <3>1, <3>3, <3>4, <3>5, OwnerFrame DEF Seen
  <2>8. CASE Lose
    <3>1. UNCHANGED <<executed, issued, pending, inbox, port>> /\ toGuest' \subseteq toGuest
      BY <2>8 DEF Lose, hostVars, guestVars
    <3>2. InTransit' \subseteq InTransit /\ InSlots' = InSlots /\ InLog' = InLog /\ InBuffer' = InBuffer
      BY <3>1 DEF InTransit, InSlots, InLog, InBuffer
    <3> QED
      BY <3>1, <3>2, OwnerFrame DEF Seen
  <2> QED
    BY <2>1, <2>2, <2>3, <2>4, <2>5, <2>6, <2>7, <2>8 DEF Next, Host, GuestLoop, Network
<1> QED
  BY <1>1, <1>2, <1>3 DEF OwnerInv

LEMMA OwnersKept == ~ReusePorts => (Spec => []OwnerInv)
<1> SUFFICES ASSUME ~ReusePorts PROVE Spec => []OwnerInv
  OBVIOUS
<1>1. TypeOK /\ OwnerInv /\ [Next]_vars => OwnerInv'
  BY OwnerStep
<1> QED
  BY <1>1, OwnerInit, TypeCorrect, PTL DEF Spec

(* THEOREM (one session): when no socket gets the port of an old one, a      *)
(* command runs in one session only, for every size of the cache: what a     *)
(* lost cache forgets cannot come back.                                      *)
THEOREM SessionsSeparate == Spec => []OneSessionPerCommand
<1>1. CASE ReusePorts
  <2>1. OneSessionPerCommand
    BY <1>1 DEF OneSessionPerCommand
  <2> QED
    BY <2>1, PTL
<1>2. CASE ~ReusePorts
  <2>1. OwnerInv => OneSessionPerCommand
    <3> SUFFICES ASSUME OwnerInv, NEW i \in 1..Len(executed), NEW j \in 1..Len(executed),
                        executed[i].cmd = executed[j].cmd
                 PROVE  executed[i].session = executed[j].session
      BY DEF OneSessionPerCommand
    <3> DEFINE x == <<executed[i].session, executed[i].cmd>>
               y == <<executed[j].session, executed[j].cmd>>
    <3>1. x \in Seen /\ y \in Seen
      BY DEF Seen, InLog
    <3>2. x[2] = y[2] => x[1] = y[1]
      BY <3>1 DEF OwnerInv, OneOwner
    <3> QED
      BY <3>2
  <2> QED
    BY <1>2, <2>1, OwnersKept, PTL
<1> QED
  BY <1>1, <1>2

-----------------------------------------------------------------------------
(* The refinement.  DeliveryAssumption is what the promise costs: ports are  *)
(* not reused, and the cache outlasts the commands that the host decides.    *)
DeliveryAssumption == ~ReusePorts /\ MaxCmds <= CacheSize

AllDistinct ==
  \A i, j \in 1..Len(executed) : executed[i].cmd = executed[j].cmd => i = j

\* Distinct executions are no more than the commands there are.
LEMMA DistinctBounded ==
  ASSUME TypeOK, AllDistinct
  PROVE  Len(executed) <= MaxCmds
<1> DEFINE n == Len(executed)
           run == [i \in 1..n |-> executed[i].cmd]
<1>1. n \in Nat /\ MaxCmds \in Nat
  BY LenProperties, BoundsAssumption DEF TypeOK
<1>2. \A i \in 1..n : executed[i] \in [session : Ports, cmd : Cmds]
  BY ElementOfSeq DEF TypeOK
<1>3. run \in Injection(1..n, Cmds)
  BY <1>2 DEF Injection, IsInjective, AllDistinct
<1>4. /\ IsFiniteSet(1..n) /\ Cardinality(1..n) = n
      /\ IsFiniteSet(1..MaxCmds) /\ Cardinality(1..MaxCmds) = MaxCmds
  <2>1. ASSUME NEW k \in Nat PROVE IsFiniteSet(1..k) /\ Cardinality(1..k) = k
    <3>1. IsFiniteSet(1..k) /\ Cardinality(1..k) = (IF 1 > k THEN 0 ELSE k - 1 + 1)
      BY FS_Interval
    <3> QED
      BY <3>1
  <2> QED
    BY <1>1, <2>1
<1> QED
  BY <1>3, <1>4, FS_Injection DEF Cmds

LEMMA DistinctStep ==
  ASSUME DeliveryAssumption, TypeOK, AllDistinct, [Next]_vars,
         RepeatWindow', OneSessionPerCommand'
  PROVE  AllDistinct'
<1>1. CASE UNCHANGED executed
  BY <1>1 DEF AllDistinct
<1>2. CASE Execute
  <2> DEFINE n == Len(executed)
             e == [session |-> session, cmd |-> Head(inbox)]
  <2>1. executed' = Append(executed, e) /\ e \in [session : Ports, cmd : Cmds]
    BY <1>2, HeadTailProperties DEF Execute, TypeOK
  <2>2. /\ Len(executed') = n + 1 /\ n \in Nat /\ executed'[n + 1] = e
        /\ \A i \in 1..n : executed'[i] = executed[i]
    BY <2>1, AppendProperties, LenProperties DEF TypeOK
  <2>3. n <= CacheSize
    BY <2>2, DistinctBounded, BoundsAssumption, CacheSizeAssumption DEF DeliveryAssumption
  <2>4. ASSUME NEW i \in 1..n PROVE executed'[i].cmd # executed'[n + 1].cmd
    <3>1. SUFFICES ASSUME executed'[i].cmd = executed'[n + 1].cmd PROVE FALSE
      OBVIOUS
    <3>2. i \in 1..(n + 1) /\ n + 1 \in 1..(n + 1)
      BY <2>2
    <3>3. executed'[i].session = executed'[n + 1].session
      BY <2>2, <3>1, <3>2 DEF OneSessionPerCommand, DeliveryAssumption
    <3>4. executed'[i] = executed'[n + 1]
      <4>1. executed[i] \in [session : Ports, cmd : Cmds]
        BY ElementOfSeq DEF TypeOK
      <4> QED
        BY <2>1, <2>2, <3>1, <3>3, <4>1
    <3>5. n + 1 - i > CacheSize
      BY <2>2, <3>2, <3>4 DEF RepeatWindow
    <3> QED
      BY <2>2, <2>3, <3>5, CacheSizeAssumption
  <2>5. ASSUME NEW i \in 1..(n + 1), NEW j \in 1..(n + 1), executed'[i].cmd = executed'[j].cmd
        PROVE  i = j
    <3>1. CASE i \in 1..n /\ j \in 1..n
      BY <2>2, <2>5, <3>1 DEF AllDistinct
    <3>2. CASE i = n + 1 \/ j = n + 1
      BY <2>2, <2>4, <2>5, <3>2
    <3> QED
      BY <2>2, <3>1, <3>2
  <2> QED
    BY <2>2, <2>5 DEF AllDistinct
<1>3. UNCHANGED executed \/ Execute
  BY DEF Next, Host, HostReceiveMetrics, HostReceiveResult, HostRestart, Connect, GuestLoop,
         SendMetrics, ReceiveTimeout, AnswerDuplicate, Finish, Disconnect, Network, Deliver,
         Lose, guestVars, vars
<1> QED
  BY <1>1, <1>2, <1>3

\* The effects of the abstract specification, as a sequence of commands.
Effects == [i \in 1..Len(executed) |-> executed[i].cmd]

LEMMA EffectsType ==
  ASSUME NEW log \in Seq([session : Ports, cmd : Cmds])
  PROVE  LET effects == [i \in 1..Len(log) |-> log[i].cmd]
         IN  effects \in Seq(Cmds) /\ Len(effects) = Len(log)
<1> DEFINE effects == [i \in 1..Len(log) |-> log[i].cmd]
<1>1. Len(log) \in Nat
  BY LenProperties
<1>2. \A i \in 1..Len(log) : log[i] \in [session : Ports, cmd : Cmds]
  BY ElementOfSeq
<1>3. effects \in [1..Len(log) -> Cmds]
  BY <1>2
<1>4. effects \in Seq(Cmds)
  BY <1>1, <1>3, SeqDef
<1>5. DOMAIN effects = 1..Len(log)
  OBVIOUS
<1>6. DOMAIN effects = 1..Len(effects) /\ Len(effects) \in Nat
  BY <1>4, LenProperties
<1>7. Len(effects) = Len(log)
  BY <1>1, <1>5, <1>6
<1> QED
  BY <1>4, <1>7

\* Every step of the channel is a step of the promise or changes nothing of it.
LEMMA DeliveryStep ==
  ASSUME TypeOK, OwnerInv, AllDistinct', [Next]_vars
  PROVE  [Delivery!Next]_<<issued, Effects>>
<1>1. CASE Execute
  <2> DEFINE n == Len(executed)
             c == Head(inbox)
             e == [session |-> session, cmd |-> c]
  <2>1. /\ executed' = Append(executed, e) /\ e \in [session : Ports, cmd : Cmds] /\ c \in Cmds
        /\ UNCHANGED <<issued, port>> /\ inbox # <<>> /\ inbox' = Tail(inbox)
    BY <1>1, HeadTailProperties DEF Execute, TypeOK, hostVars
  <2>2. /\ Len(executed') = n + 1 /\ n \in Nat /\ executed'[n + 1] = e
        /\ \A i \in 1..n : executed'[i] = executed[i]
    BY <2>1, AppendProperties, LenProperties DEF TypeOK
  <2>3. c <= issued
    <3>1. <<port, c>> \in Seen
      BY <2>1, TailSeen DEF Seen
    <3>2. <<port, c>>[2] \in 1..issued
      BY <3>1 DEF OwnerInv, SeenIssued
    <3> QED
      BY <3>2, BoundsAssumption DEF TypeOK
  <2>4. /\ Effects \in Seq(Cmds) /\ Len(Effects) = n
        /\ Effects' \in Seq(Cmds) /\ Len(Effects') = n + 1
    <3>1. executed \in Seq([session : Ports, cmd : Cmds]) /\ executed' \in Seq([session : Ports, cmd : Cmds])
      BY <2>1, AppendProperties DEF TypeOK
    <3> QED
      BY <2>2, <3>1, EffectsType DEF Effects
  <2>5. \A i \in 1..n : Effects[i] = executed[i].cmd /\ Effects'[i] = executed[i].cmd
    BY <2>2 DEF Effects
  <2>6. Effects'[n + 1] = c
    BY <2>2 DEF Effects
  <2>7. \A i \in 1..Len(Effects) : Effects[i] # c
    BY <2>2, <2>4, <2>5 DEF AllDistinct
  <2>8. Effects' = Append(Effects, c)
    <3>1. /\ Append(Effects, c) \in Seq(Cmds) /\ Len(Append(Effects, c)) = n + 1
          /\ Append(Effects, c)[n + 1] = c
          /\ \A i \in 1..n : Append(Effects, c)[i] = Effects[i]
      BY <2>1, <2>4, AppendProperties
    <3>2. \A i \in 1..Len(Effects') : Effects'[i] = Append(Effects, c)[i]
      BY <2>2, <2>4, <2>5, <2>6, <3>1
    <3> QED
      BY <2>4, <3>1, <3>2, SeqEqual
  <2>9. \E d \in 1..MaxCmds :
          /\ d <= issued /\ UNCHANGED issued
          /\ \A i \in 1..Len(Effects) : Effects[i] # d
          /\ Effects' = Append(Effects, d)
    BY <2>1, <2>3, <2>7, <2>8 DEF Cmds
  <2> QED
    BY <2>9 DEF Delivery!Next, Delivery!TakeEffect, Effects
<1>2. CASE \E p \in Ports : HostReceiveMetrics(p)
  <2>1. UNCHANGED executed
    BY <1>2 DEF HostReceiveMetrics, guestVars
  <2>2. UNCHANGED Effects
    BY <2>1 DEF Effects
  <2>3. UNCHANGED issued \/ (issued < MaxCmds /\ issued' = issued + 1)
    BY <1>2 DEF HostReceiveMetrics, hostVars
  <2> QED
    BY <2>2, <2>3 DEF Delivery!Next, Delivery!Decide, Effects
<1>3. CASE UNCHANGED <<issued, executed>>
  BY <1>3 DEF Effects
<1>4. Execute \/ (\E p \in Ports : HostReceiveMetrics(p)) \/ UNCHANGED <<issued, executed>>
  BY DEF Next, Host, HostReceiveResult, HostRestart, Connect, GuestLoop,
         SendMetrics, ReceiveTimeout, AnswerDuplicate, Finish, Disconnect, Network, Deliver,
         Lose, guestVars, hostVars, vars
<1> QED
  BY <1>1, <1>2, <1>3, <1>4

(* THEOREM (at most once): when ports are not reused and the cache holds all *)
(* commands the host decides, the channel implements CommandDelivery, for    *)
(* every number of sessions, restarts, losses and duplicates: each command   *)
(* takes effect at most once, and only after it was decided.                 *)
THEOREM DeliversOnce ==
  ASSUME DeliveryAssumption
  PROVE  Spec => AtMostOnceDelivery
<1>1. Init => AllDistinct
  BY EmptySeq DEF Init, AllDistinct
<1>2. TypeOK /\ AllDistinct /\ [Next]_vars /\ RepeatWindow' /\ OneSessionPerCommand' => AllDistinct'
  BY DistinctStep
<1>3. Init => Delivery!Init
  <2> SUFFICES ASSUME Init PROVE Delivery!Init
    OBVIOUS
  <2>1. Effects \in Seq(Cmds) /\ Len(Effects) = 0
    BY TypeInit, EffectsType, EmptySeq DEF Init, Effects, TypeOK
  <2>2. Effects = <<>>
    BY <2>1, EmptySeq
  <2> QED
    BY <2>2 DEF Init, Delivery!Init, Effects
<1>4. TypeOK /\ OwnerInv /\ AllDistinct' /\ [Next]_vars => [Delivery!Next]_<<issued, Effects>>
  BY DeliveryStep
<1>5. Spec => []OwnerInv
  BY OwnersKept DEF DeliveryAssumption
<1> QED
  BY <1>1, <1>2, <1>3, <1>4, <1>5, TypeCorrect, RepeatsAreFar, SessionsSeparate, PTL
     DEF Spec, AtMostOnceDelivery, Delivery!Spec, Effects
=============================================================================
