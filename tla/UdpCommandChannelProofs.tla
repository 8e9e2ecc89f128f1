---------------------- MODULE UdpCommandChannelProofs ----------------------
(***************************************************************************)
(* Theorems about the UDP command channel, for every cache size, buffer    *)
(* size, number of commands, sessions and executions, with and without     *)
(* reused ports.                                                           *)
(***************************************************************************)
EXTENDS UdpCommandChannel, SequenceTheorems, TLAPS

\* The actions that leave the guest as it is.
GuestIdle == UNCHANGED guestVars

LEMMA HostSteps ==
  ASSUME Host PROVE GuestIdle
BY DEF Host, HostReceiveMetrics, HostReceiveResult, HostRestart, GuestIdle

-----------------------------------------------------------------------------
(* THEOREM (typing): the variables keep their types, the cache, the socket   *)
(* buffer and the log their bounds.                                          *)
LEMMA TypeInit == Init => TypeOK
BY CacheSizeAssumption, InboxMaxAssumption, BoundsAssumption, EmptySeq
   DEF Init, TypeOK, None, Ports, Cmds

LEMMA TypeStep == TypeOK /\ [Next]_vars => TypeOK'
<1> SUFFICES ASSUME TypeOK, [Next]_vars PROVE TypeOK'
  OBVIOUS
<1> USE CacheSizeAssumption, InboxMaxAssumption, BoundsAssumption DEF TypeOK, Ports, Cmds, None
<1>1. ASSUME NEW p \in Ports, HostReceiveMetrics(p) PROVE TypeOK'
  <2> DEFINE resent == IF pending[p] = None THEN {} ELSE {Command(p, pending[p])}
  <2>1. resent \subseteq [port : Ports, cmd : Cmds]
    BY DEF Command
  <2>2. toHost' \subseteq toHost /\ UNCHANGED guestVars
    BY <1>1 DEF HostReceiveMetrics, Consume
  <2>3. /\ pending' \in [Ports -> Cmds \union {None}]
        /\ issued' \in 0..MaxCmds
        /\ toGuest' \subseteq [port : Ports, cmd : Cmds]
    <3>1. CASE toGuest' = toGuest \union resent /\ UNCHANGED hostVars
      BY <2>1, <3>1 DEF hostVars
    <3>2. CASE /\ issued < MaxCmds
               /\ issued' = issued + 1
               /\ pending' = [pending EXCEPT ![p] = issued']
               /\ toGuest' = toGuest \union resent \union {Command(p, issued')}
      <4>1. issued' \in Cmds
        BY <3>2
      <4>2. Command(p, issued') \in [port : Ports, cmd : Cmds]
        BY <4>1 DEF Command
      <4> QED BY <2>1, <3>2, <4>1, <4>2
    <3> QED BY <1>1, <3>1, <3>2 DEF HostReceiveMetrics
  <2> QED BY <2>2, <2>3 DEF guestVars
<1>2. ASSUME NEW p \in Ports, NEW c \in Cmds, HostReceiveResult(p, c) PROVE TypeOK'
  BY <1>2 DEF HostReceiveResult, Consume, guestVars
<1>3. CASE HostRestart
  BY <1>3 DEF HostRestart, guestVars
<1>4. CASE Connect
  BY <1>4, ReusePortsAssumption DEF Connect, PortChoices, hostVars
<1>5. CASE SendMetrics
  BY <1>5 DEF SendMetrics, Metrics, hostVars
<1>6. CASE ReceiveTimeout
  BY <1>6 DEF ReceiveTimeout, hostVars
<1>7. CASE AnswerDuplicate
  <2>1. Head(inbox) \in Cmds /\ Tail(inbox) \in Seq(Cmds) /\ Len(Tail(inbox)) = Len(inbox) - 1
    BY <1>7, HeadTailProperties DEF AnswerDuplicate
  <2> QED BY <1>7, <2>1, LenProperties DEF AnswerDuplicate, Result, hostVars
<1>8. CASE Execute
  <2>1. Head(inbox) \in Cmds /\ Tail(inbox) \in Seq(Cmds) /\ Len(Tail(inbox)) = Len(inbox) - 1
    BY <1>8, HeadTailProperties DEF Execute
  <2>2. /\ executed' \in Seq([session : Ports, cmd : Cmds])
        /\ Len(executed') = Len(executed) + 1
    BY <1>8, <2>1, AppendProperties DEF Execute
  <2> QED BY <1>8, <2>1, <2>2, LenProperties DEF Execute, hostVars
<1>9. CASE Finish
  <2>1. cache' \in Seq(Cmds) /\ Len(cache') <= CacheSize
    <3>1. CASE Len(cache) < CacheSize
      BY <1>9, <3>1, AppendProperties, LenProperties DEF Finish, Remember
    <3>2. CASE ~(Len(cache) < CacheSize)
      <4>1. cache # <<>> /\ Len(cache) = CacheSize
        BY <3>2, EmptySeq, LenProperties
      <4>2. Tail(cache) \in Seq(Cmds) /\ Len(Tail(cache)) = CacheSize - 1
        BY <4>1, HeadTailProperties
      <4> QED BY <1>9, <3>2, <4>2, AppendProperties DEF Finish, Remember
    <3> QED BY <3>1, <3>2
  <2> QED BY <1>9, <2>1 DEF Finish, Result, hostVars
<1>10. CASE Disconnect
  BY <1>10, EmptySeq DEF Disconnect, hostVars
<1>11. ASSUME NEW c \in Cmds, Deliver(c) PROVE TypeOK'
  BY <1>11, AppendProperties, LenProperties DEF Deliver, Consume, hostVars
<1>12. CASE Lose
  BY <1>12 DEF Lose, hostVars, guestVars
<1>13. CASE UNCHANGED vars
  BY <1>13 DEF vars
<1> QED BY <1>1, <1>2, <1>3, <1>4, <1>5, <1>6, <1>7, <1>8, <1>9, <1>10, <1>11, <1>12, <1>13
        DEF Next, Host, GuestLoop, Network

THEOREM TypeCorrect == Spec => []TypeOK
BY TypeInit, TypeStep, PTL DEF Spec

-----------------------------------------------------------------------------
(* The inductive invariant behind RepeatWindow.  The cache holds the last    *)
(* executions, in order and of this session only, the one still running      *)
(* excepted; it is full unless it holds all of them.                         *)

Done == IF pc = "exec" THEN Len(executed) - 1 ELSE Len(executed)

RunningIsLast ==
  pc = "exec" =>
    /\ Len(executed) > 0
    /\ executed[Len(executed)] = [session |-> session, cmd |-> current]
    /\ ~InCache(current)

CacheIsLatest ==
  /\ Len(cache) <= Done
  /\ \A k \in 1..Len(cache) :
       executed[Done - Len(cache) + k] = [session |-> session, cmd |-> cache[k]]

CacheMissesNothing ==
  pc # "down" =>
    \/ Len(cache) = CacheSize
    \/ \A i \in 1..(Done - Len(cache)) : executed[i].session # session

SessionsPast == \A i \in 1..Len(executed) : executed[i].session <= session

DownIsEmpty == pc = "down" => cache = <<>>

WindowInv ==
  DownIsEmpty /\ RunningIsLast /\ CacheIsLatest /\ CacheMissesNothing /\ SessionsPast /\ RepeatWindow

\* Steps that touch none of the guest's cache, log, session and phase.
LEMMA WindowFrame ==
  ASSUME TypeOK, WindowInv,
         UNCHANGED <<cache, session, executed, current>>,
         pc' = pc \/ {pc, pc'} \subseteq {"send", "recv"}
  PROVE  WindowInv'
<1>1. Done' = Done
  BY DEF Done
<1>2. (pc' = "exec") = (pc = "exec") /\ (pc' = "down") = (pc = "down")
  OBVIOUS
<1>3. RunningIsLast'
  BY <1>2 DEF WindowInv, RunningIsLast, InCache
<1>4. CacheIsLatest' /\ CacheMissesNothing'
  BY <1>1, <1>2 DEF WindowInv, CacheIsLatest, CacheMissesNothing
<1>5. SessionsPast' /\ RepeatWindow' /\ DownIsEmpty'
  BY <1>2 DEF WindowInv, SessionsPast, RepeatWindow, DownIsEmpty
<1> QED BY <1>3, <1>4, <1>5 DEF WindowInv

LEMMA WindowExecute ==
  ASSUME TypeOK, WindowInv, Execute
  PROVE  WindowInv'
<1> DEFINE n == Len(executed)
           c == Head(inbox)
           e == [session |-> session, cmd |-> c]
<1>1. /\ pc = "recv" /\ pc' = "exec" /\ ~InCache(c)
      /\ current' = c /\ UNCHANGED <<cache, session>>
      /\ executed' = Append(executed, e)
  BY DEF Execute
<1>2. n \in Nat /\ Len(cache) \in Nat /\ c \in Cmds
  BY HeadTailProperties, LenProperties DEF Execute, TypeOK
<1>3. e \in [session : Ports, cmd : Cmds]
  BY <1>1, <1>2 DEF TypeOK
<1>4. /\ Len(executed') = n + 1 /\ executed'[n + 1] = e
      /\ \A i \in 1..n : executed'[i] = executed[i]
  BY <1>1, <1>3, AppendProperties DEF TypeOK
<1>5. Done = n /\ Done' = n
  BY <1>1, <1>2, <1>4 DEF Done
<1>6. RunningIsLast'
  BY <1>1, <1>2, <1>4 DEF RunningIsLast, InCache
<1>7. CacheIsLatest'
  BY <1>1, <1>2, <1>4, <1>5 DEF WindowInv, CacheIsLatest
<1>8. CacheMissesNothing'
  BY <1>1, <1>2, <1>4, <1>5 DEF WindowInv, CacheMissesNothing
<1>9. SessionsPast'
  <2>1. ASSUME NEW i \in 1..(n + 1) PROVE executed'[i].session <= session
    BY <1>2, <1>4, <2>1 DEF WindowInv, SessionsPast, TypeOK
  <2> QED BY <1>1, <1>4, <2>1 DEF SessionsPast
<1>10. RepeatWindow'
  <2>1. ASSUME NEW i \in 1..n, executed[i] = e PROVE n + 1 - i > CacheSize
    <3>1. executed[i].session = session /\ executed[i].cmd = c
      BY <2>1
    <3>2. ~(i > n - Len(cache))
      <4>1. SUFFICES ASSUME i > n - Len(cache) PROVE FALSE
        OBVIOUS
      <4>2. i - (n - Len(cache)) \in 1..Len(cache)
        BY <1>2, <4>1
      <4>3. executed[i] = [session |-> session, cmd |-> cache[i - (n - Len(cache))]]
        BY <1>2, <1>5, <4>2 DEF WindowInv, CacheIsLatest
      <4> QED BY <1>1, <3>1, <4>2, <4>3 DEF InCache
    <3>3. Len(cache) = CacheSize
      BY <1>1, <1>2, <1>5, <3>1, <3>2 DEF WindowInv, CacheMissesNothing
    <3> QED BY <1>2, <3>2, <3>3
  <2>2. ASSUME NEW i \in 1..(n + 1), NEW j \in 1..(n + 1), i < j, executed'[i] = executed'[j]
        PROVE  j - i > CacheSize
    <3>1. CASE j = n + 1
      BY <1>2, <1>4, <2>1, <2>2, <3>1
    <3>2. CASE j # n + 1
      BY <1>2, <1>4, <2>2, <3>2 DEF WindowInv, RepeatWindow
    <3> QED BY <3>1, <3>2
  <2> QED BY <1>4, <2>2 DEF RepeatWindow
<1> QED BY <1>1, <1>6, <1>7, <1>8, <1>9, <1>10 DEF WindowInv, DownIsEmpty

LEMMA WindowFinish ==
  ASSUME TypeOK, WindowInv, Finish
  PROVE  WindowInv'
<1> DEFINE n == Len(executed)
<1>1. /\ pc = "exec" /\ pc' = "send" /\ cache' = Remember(current)
      /\ UNCHANGED <<session, executed>>
  BY DEF Finish
<1>2. /\ current \in Cmds /\ cache \in Seq(Cmds) /\ Len(cache) \in Nat
      /\ Len(cache) <= CacheSize /\ CacheSize \in Nat \ {0} /\ n \in Nat
  BY <1>1, LenProperties, CacheSizeAssumption DEF TypeOK
<1>3. Done = n - 1 /\ Done' = n /\ n > 0
  BY <1>1 DEF Done, WindowInv, RunningIsLast
<1>4. executed[n] = [session |-> session, cmd |-> current]
  BY <1>1 DEF WindowInv, RunningIsLast
<1>5. CacheIsLatest' /\ CacheMissesNothing'
  <2>1. CASE Len(cache) < CacheSize
    <3>1. /\ Len(cache') = Len(cache) + 1 /\ cache'[Len(cache) + 1] = current
          /\ \A k \in 1..Len(cache) : cache'[k] = cache[k]
      BY <1>1, <1>2, <2>1, AppendProperties DEF Remember
    <3>2. CacheIsLatest'
      BY <1>1, <1>2, <1>3, <1>4, <3>1 DEF WindowInv, CacheIsLatest
    <3>3. CacheMissesNothing'
      BY <1>1, <1>2, <1>3, <2>1, <3>1 DEF WindowInv, CacheMissesNothing
    <3> QED BY <3>2, <3>3
  <2>2. CASE ~(Len(cache) < CacheSize)
    <3>1. cache # <<>> /\ Len(cache) = CacheSize
      BY <1>2, <2>2, EmptySeq
    <3>2. /\ Tail(cache) \in Seq(Cmds) /\ Len(Tail(cache)) = CacheSize - 1
          /\ \A k \in 1..(CacheSize - 1) : Tail(cache)[k] = cache[k + 1]
      BY <1>2, <3>1, HeadTailProperties
    <3>3. /\ Len(cache') = CacheSize /\ cache'[CacheSize] = current
          /\ \A k \in 1..(CacheSize - 1) : cache'[k] = cache[k + 1]
      BY <1>1, <1>2, <2>2, <3>2, AppendProperties DEF Remember
    <3>4. CacheIsLatest'
      <4>1. Len(cache') <= Done'
        BY <1>2, <1>3, <3>1, <3>3 DEF WindowInv, CacheIsLatest
      <4>2. ASSUME NEW k \in 1..CacheSize
            PROVE  executed[n - CacheSize + k] = [session |-> session, cmd |-> cache'[k]]
        <5>1. CASE k = CacheSize
          BY <1>2, <1>4, <3>3, <5>1
        <5>2. CASE k # CacheSize
          <6>1. k + 1 \in 1..Len(cache) /\ k \in 1..(CacheSize - 1)
            BY <1>2, <3>1, <5>2
          <6>2. executed[(n - 1) - Len(cache) + (k + 1)] =
                  [session |-> session, cmd |-> cache[k + 1]]
            BY <1>3, <6>1 DEF WindowInv, CacheIsLatest
          <6>3. (n - 1) - Len(cache) + (k + 1) = n - CacheSize + k
            BY <1>2, <3>1
          <6> QED BY <3>3, <6>1, <6>2, <6>3
        <5> QED BY <5>1, <5>2
      <4> QED BY <1>1, <1>3, <3>3, <4>1, <4>2 DEF CacheIsLatest
    <3>5. CacheMissesNothing'
      BY <3>3 DEF CacheMissesNothing
    <3> QED BY <3>4, <3>5
  <2> QED BY <2>1, <2>2
<1> QED BY <1>1, <1>5 DEF WindowInv, RunningIsLast, SessionsPast, RepeatWindow, DownIsEmpty

LEMMA WindowDisconnect ==
  ASSUME TypeOK, WindowInv, Disconnect
  PROVE  WindowInv'
<1>1. /\ pc' = "down" /\ cache' = <<>> /\ UNCHANGED <<session, executed>>
  BY DEF Disconnect
<1>2. Len(cache') = 0 /\ Len(executed) \in Nat
  BY <1>1, EmptySeq, LenProperties DEF TypeOK
<1>3. Done' = Len(executed)
  BY <1>1 DEF Done
<1> QED BY <1>1, <1>2, <1>3 DEF WindowInv, RunningIsLast, CacheIsLatest, CacheMissesNothing,
                                SessionsPast, RepeatWindow, DownIsEmpty

LEMMA WindowConnect ==
  ASSUME TypeOK, WindowInv, Connect
  PROVE  WindowInv'
<1>1. /\ pc = "down" /\ pc' = "send" /\ session' = session + 1
      /\ UNCHANGED <<cache, executed>>
  BY DEF Connect
<1>2. cache = <<>> /\ Len(cache) = 0 /\ Len(executed) \in Nat /\ session \in Nat
  BY <1>1, EmptySeq, LenProperties, BoundsAssumption DEF WindowInv, DownIsEmpty, TypeOK
<1>3. Done' = Len(executed)
  BY <1>1 DEF Done
<1>4. \A i \in 1..Len(executed) :
        executed[i].session \in Nat /\ executed[i].session <= session
  <2>1. \A i \in 1..Len(executed) : executed[i] \in [session : Ports, cmd : Cmds]
    BY ElementOfSeq DEF TypeOK
  <2> QED BY <2>1, BoundsAssumption DEF WindowInv, SessionsPast, Ports
<1>5. \A i \in 1..Len(executed) :
        executed[i].session # session + 1 /\ executed[i].session <= session + 1
  BY <1>2, <1>4
<1> QED BY <1>1, <1>2, <1>3, <1>5 DEF WindowInv, RunningIsLast, CacheIsLatest,
           CacheMissesNothing, SessionsPast, RepeatWindow, DownIsEmpty

LEMMA WindowStep == TypeOK /\ WindowInv /\ [Next]_vars => WindowInv'
<1> SUFFICES ASSUME TypeOK, WindowInv, [Next]_vars PROVE WindowInv'
  OBVIOUS
<1>1. CASE Host
  BY <1>1, HostSteps, WindowFrame DEF GuestIdle, guestVars
<1>2. CASE SendMetrics \/ ReceiveTimeout \/ AnswerDuplicate
  BY <1>2, WindowFrame DEF SendMetrics, ReceiveTimeout, AnswerDuplicate
<1>3. CASE Network
  BY <1>3, WindowFrame DEF Network, Deliver, Lose, guestVars
<1>4. CASE UNCHANGED vars
  BY <1>4, WindowFrame DEF vars
<1> QED BY <1>1, <1>2, <1>3, <1>4, WindowExecute, WindowFinish, WindowConnect, WindowDisconnect
        DEF Next, GuestLoop

(* THEOREM (repeat window): however commands are resent, duplicated and      *)
(* delayed, within one connection a command runs again only after at least   *)
(* CacheSize other executions.                                               *)
THEOREM RepeatsAreFar == Spec => []RepeatWindow
<1>1. Init => WindowInv
  BY EmptySeq DEF Init, WindowInv, RunningIsLast, CacheIsLatest, CacheMissesNothing,
                  SessionsPast, RepeatWindow, DownIsEmpty, Done
<1>2. WindowInv => RepeatWindow
  BY DEF WindowInv
<1> QED BY <1>1, <1>2, WindowStep, TypeCorrect, PTL DEF Spec

-----------------------------------------------------------------------------
\* Commands that ran, in any session.
Ran == {executed[i].cmd : i \in 1..Len(executed)}

ResultsRan == \A m \in toHost : m.type = "result" => m.cmd \in Ran

LEMMA CacheRan ==
  ASSUME TypeOK, WindowInv
  PROVE  /\ \A k \in 1..Len(cache) : cache[k] \in Ran
         /\ pc = "exec" => current \in Ran
<1>1. Len(cache) \in Nat /\ Len(executed) \in Nat /\ Len(cache) <= Done
  BY LenProperties DEF TypeOK, WindowInv, CacheIsLatest
<1>2. Done \in Nat /\ Done <= Len(executed)
  BY <1>1 DEF Done, WindowInv, RunningIsLast
<1>3. ASSUME NEW k \in 1..Len(cache) PROVE cache[k] \in Ran
  <2>1. Done - Len(cache) + k \in 1..Len(executed)
    BY <1>1, <1>2
  <2>2. executed[Done - Len(cache) + k] = [session |-> session, cmd |-> cache[k]]
    BY DEF WindowInv, CacheIsLatest
  <2> QED BY <2>1, <2>2 DEF Ran
<1>4. ASSUME pc = "exec" PROVE current \in Ran
  <2>1. Len(executed) \in 1..Len(executed) /\ executed[Len(executed)].cmd = current
    BY <1>1, <1>4 DEF WindowInv, RunningIsLast
  <2> QED BY <2>1 DEF Ran
<1> QED BY <1>3, <1>4

LEMMA ResultsStep ==
  ASSUME TypeOK, WindowInv, ResultsRan, [Next]_vars
  PROVE  ResultsRan'
<1>1. Ran \subseteq Ran'
  <2>1. CASE UNCHANGED executed
    BY <2>1 DEF Ran
  <2>2. CASE Execute
    <3> DEFINE e == [session |-> session, cmd |-> Head(inbox)]
    <3>1. e \in [session : Ports, cmd : Cmds]
      BY <2>2, HeadTailProperties DEF Execute, TypeOK
    <3>2. /\ Len(executed') = Len(executed) + 1 /\ Len(executed) \in Nat
          /\ \A i \in 1..Len(executed) : executed'[i] = executed[i]
      BY <2>2, <3>1, AppendProperties, LenProperties DEF Execute, TypeOK
    <3> QED BY <3>2 DEF Ran
  <2>3. UNCHANGED executed \/ Execute
    BY DEF Next, Host, HostReceiveMetrics, HostReceiveResult, HostRestart, Connect, GuestLoop,
           SendMetrics, ReceiveTimeout, AnswerDuplicate, Finish, Disconnect, Network, Deliver,
           Lose, guestVars, vars
  <2> QED BY <2>1, <2>2, <2>3
<1>2. ASSUME NEW m \in toHost', m.type = "result" PROVE m \in toHost \/ m.cmd \in Ran
  <2>1. CASE toHost' \subseteq toHost
    BY <1>2, <2>1
  <2>2. CASE SendMetrics
    BY <1>2, <2>2 DEF SendMetrics, Metrics
  <2>3. CASE AnswerDuplicate
    BY <1>2, <2>3, CacheRan DEF AnswerDuplicate, Result, InCache
  <2>4. CASE Finish
    BY <1>2, <2>4, CacheRan DEF Finish, Result
  <2>5. toHost' \subseteq toHost \/ SendMetrics \/ AnswerDuplicate \/ Finish
    BY DEF Next, Host, HostReceiveMetrics, HostReceiveResult, HostRestart, Connect, GuestLoop,
           ReceiveTimeout, Execute, Disconnect, Network, Deliver, Lose, guestVars, vars, Consume
  <2> QED BY <2>1, <2>2, <2>3, <2>4, <2>5
<1> QED BY <1>1, <1>2 DEF ResultsRan

(* THEOREM (honest results): a result on its way to the host, or remembered  *)
(* by the guest, names a command that was executed.                          *)
THEOREM ResultsHonest == Spec => []ResultsOfExecutions
<1>1. Init => WindowInv /\ ResultsRan
  BY EmptySeq DEF Init, WindowInv, RunningIsLast, CacheIsLatest, CacheMissesNothing,
                  SessionsPast, RepeatWindow, DownIsEmpty, Done, ResultsRan
<1>2. TypeOK /\ WindowInv /\ ResultsRan => ResultsOfExecutions
  BY CacheRan DEF ResultsRan, ResultsOfExecutions, Ran
<1> QED BY <1>1, <1>2, ResultsStep, WindowStep, TypeCorrect, PTL DEF Spec

-----------------------------------------------------------------------------
(* The inductive invariant behind PendingIsNewest: no command is newer than  *)
(* the last one issued, so a command that takes a slot is newer than all.    *)
NothingNewer ==
  /\ \A p \in Ports : pending[p] <= issued
  /\ \A m \in toGuest : m.cmd <= issued
  /\ \A k \in 1..Len(inbox) : inbox[k] <= issued
  /\ pc = "down" => inbox = <<>>

NewestInv == NothingNewer /\ PendingIsNewest

LEMMA NewestStep ==
  ASSUME TypeOK, NewestInv, [Next]_vars
  PROVE  NewestInv'
<1> USE DEF NewestInv, NothingNewer, PendingIsNewest, None
<1>0. /\ issued \in Nat /\ Len(inbox) \in Nat
      /\ \A p \in Ports : pending[p] \in Nat
      /\ \A m \in toGuest : m.cmd \in Nat /\ m.port \in Ports
      /\ \A k \in 1..Len(inbox) : inbox[k] \in Nat
  BY BoundsAssumption, LenProperties, ElementOfSeq DEF TypeOK, Cmds
<1>1. ASSUME NEW p \in Ports, HostReceiveMetrics(p) PROVE NewestInv'
  <2>1. UNCHANGED <<inbox, pc, port>>
    BY <1>1 DEF HostReceiveMetrics, guestVars
  <2> DEFINE resent == IF pending[p] = None THEN {} ELSE {Command(p, pending[p])}
  <2>2. \A m \in resent : m.port = p /\ m.cmd = pending[p] /\ m.cmd \in Nat /\ m.cmd <= issued
    BY <1>0 DEF Command
  <2>3. CASE toGuest' = toGuest \union resent /\ UNCHANGED hostVars
    <3> HIDE DEF resent
    <3>1. UNCHANGED <<pending, issued>>
      BY <2>3 DEF hostVars
    <3>2. NothingNewer'
      BY <1>0, <2>1, <2>2, <2>3, <3>1
    <3>3. PendingIsNewest'
      BY <1>0, <2>1, <2>2, <2>3, <3>1
    <3> QED BY <3>2, <3>3
  <2>4. CASE /\ issued' = issued + 1
             /\ pending' = [pending EXCEPT ![p] = issued']
             /\ toGuest' = toGuest \union resent \union {Command(p, issued')}
    <3> DEFINE new == Command(p, issued')
    <3>1. new.port = p /\ new.cmd = issued + 1
      BY <2>4 DEF Command
    <3>2. \A q \in Ports : pending'[q] = IF q = p THEN issued + 1 ELSE pending[q]
      BY <2>4 DEF TypeOK
    <3> HIDE DEF resent, new
    <3>3. toGuest' = toGuest \union resent \union {new}
      BY <2>4 DEF new
    <3>4. NothingNewer'
      BY <1>0, <2>1, <2>2, <2>4, <3>1, <3>2, <3>3
    <3>5. ASSUME NEW q \in Ports, pending'[q] # 0
          PROVE  /\ \A m \in toGuest' : m.port = q => m.cmd <= pending'[q]
                 /\ port' = q => \A k \in 1..Len(inbox') : inbox'[k] <= pending'[q]
      BY <1>0, <2>1, <2>2, <3>1, <3>2, <3>3, <3>5
    <3> QED BY <3>4, <3>5
  <2> QED BY <1>1, <2>3, <2>4 DEF HostReceiveMetrics
<1>2. ASSUME NEW p \in Ports, NEW c \in Cmds, HostReceiveResult(p, c) PROVE NewestInv'
  BY <1>0, <1>2 DEF HostReceiveResult, guestVars, TypeOK
<1>3. CASE HostRestart
  BY <1>0, <1>3 DEF HostRestart, guestVars
<1>4. CASE Connect
  <2>1. inbox = <<>> /\ Len(inbox) = 0
    BY <1>4, EmptySeq DEF Connect
  <2> QED BY <1>0, <1>4, <2>1 DEF Connect, hostVars
<1>5. CASE SendMetrics \/ ReceiveTimeout \/ Finish
  BY <1>5 DEF SendMetrics, ReceiveTimeout, Finish, hostVars
<1>6. CASE AnswerDuplicate \/ Execute
  <2>1. /\ pc # "down" /\ pc' # "down" /\ inbox # <<>> /\ inbox' = Tail(inbox)
        /\ UNCHANGED <<pending, issued, toGuest, port>>
    BY <1>6 DEF AnswerDuplicate, Execute, hostVars
  <2>2. /\ Len(Tail(inbox)) = Len(inbox) - 1
        /\ \A k \in 1..(Len(inbox) - 1) : Tail(inbox)[k] = inbox[k + 1]
    BY <2>1, HeadTailProperties DEF TypeOK
  <2>3. \A k \in 1..(Len(inbox) - 1) : k + 1 \in 1..Len(inbox)
    BY <1>0
  <2> QED BY <1>0, <2>1, <2>2, <2>3
<1>7. CASE Disconnect
  <2>1. inbox' = <<>> /\ Len(inbox') = 0 /\ UNCHANGED <<pending, issued, toGuest, port>>
    BY <1>7, EmptySeq DEF Disconnect, hostVars
  <2> QED BY <1>0, <2>1
<1>8. ASSUME NEW c \in Cmds, Deliver(c) PROVE NewestInv'
  <2>1. /\ pc # "down" /\ toGuest' \subseteq toGuest
        /\ inbox' = Append(inbox, c) /\ UNCHANGED <<pending, issued, port, pc>>
    BY <1>8 DEF Deliver, Consume, hostVars
  <2>2. /\ Len(inbox') = Len(inbox) + 1 /\ inbox'[Len(inbox) + 1] = c
        /\ \A k \in 1..Len(inbox) : inbox'[k] = inbox[k]
    BY <2>1, AppendProperties DEF TypeOK
  <2>3. Command(port, c) \in toGuest /\ Command(port, c).port = port /\ Command(port, c).cmd = c
    BY <1>8 DEF Deliver, Command
  <2>4. c <= issued /\ \A p \in Ports : pending[p] # 0 /\ port = p => c <= pending[p]
    BY <2>3
  <2>5. \A k \in 1..Len(inbox') : k \in 1..Len(inbox) \/ k = Len(inbox) + 1
    BY <1>0, <2>2
  <2> QED BY <1>0, <2>1, <2>2, <2>4, <2>5
<1>9. CASE Lose
  BY <1>9 DEF Lose, hostVars, guestVars
<1>10. CASE UNCHANGED vars
  BY <1>10 DEF vars
<1> QED BY <1>1, <1>2, <1>3, <1>4, <1>5, <1>6, <1>7, <1>8, <1>9, <1>10
        DEF Next, Host, GuestLoop, Network

(* THEOREM (newest pending): the host resends only the newest command it     *)
(* ever sent to a guest: nothing older can take its slot back.               *)
THEOREM PendingNewest == Spec => []PendingIsNewest
<1>1. Init => NewestInv
  BY EmptySeq, BoundsAssumption DEF Init, NewestInv, NothingNewer, PendingIsNewest, None, Ports
<1>2. NewestInv => PendingIsNewest
  BY DEF NewestInv
<1> QED BY <1>1, <1>2, NewestStep, TypeCorrect, PTL DEF Spec
=============================================================================
