-------------------------- MODULE TcpSessionProofs --------------------------
(***************************************************************************)
(* Theorems about the TCP session, for every set of ports, hosts and       *)
(* tokens, every number of commands, connections and disturbances.         *)
(***************************************************************************)
EXTENDS MCTcpSession, Integers, SequenceTheorems, TLAPS

-----------------------------------------------------------------------------
\* Type correctness: the targets, the tokens and the session, one by one.

LEMMA FunctionIsSeq ==
  ASSUME NEW n \in Nat, NEW S, NEW f \in [1..n -> S]
  PROVE  f \in Seq(S) /\ Len(f) = n
OBVIOUS

LEMMA TargetsExist == Len(GuestTargets) \in Nat \ {0}
<1> DEFINE others1 == SelectSeq(CommonHosts, LAMBDA h : h # Gateway)
           second == [i \in 1..Len(others1) |-> [host |-> others1[i], port |-> Ports[1]]]
           S == {UdpTargets[i] : i \in 1..Len(Ports)} \union {second[i] : i \in 1..Len(others1)}
<1>1. Len(Ports) \in Nat \ {0} /\ Len(others1) \in Nat
  BY ConnectorAssumption
<1>2. UdpTargets \in Seq(S) /\ Len(UdpTargets) = Len(Ports)
  <2>1. UdpTargets \in [1..Len(Ports) -> S]
    BY DEF UdpTargets
  <2> QED
    BY <1>1, <2>1, FunctionIsSeq
<1>3. second \in Seq(S) /\ Len(second) = Len(others1)
  <2>1. second \in [1..Len(others1) -> S]
    OBVIOUS
  <2> HIDE DEF second, S, others1
  <2> QED
    BY <1>1, <2>1, FunctionIsSeq
<1>4. GuestTargets = UdpTargets \o second
  BY DEF GuestTargets
<1> HIDE DEF second, S
<1>5. Len(UdpTargets \o second) = Len(UdpTargets) + Len(second)
  BY <1>2, <1>3, ConcatProperties
<1> QED
  BY <1>1, <1>2, <1>3, <1>4, <1>5

LEMMA AttemptsGoOn ==
  /\ FirstAttempt \in Attempts
  /\ \A a \in Attempts : NextAttempt(a) \in Attempts
<1>1. FirstAttempt \in Attempts
  BY TargetsExist, ConnectorAssumption DEF FirstAttempt, Attempts
<1>2. ASSUME NEW a \in Attempts PROVE NextAttempt(a) \in Attempts
  BY <1>1, TargetsExist, ConnectorAssumption DEF NextAttempt, Attempts
<1> QED
  BY <1>1, <1>2

LEMMA TokensResolve ==
  ASSUME files \in [Paths -> Tokens \union {None}], guestCfg \in ConfigPaths
  PROVE  ResolveToken \in Tokens \union {None}
<1> DEFINE found == {i \in 1..3 : files[Candidates[i]] # None}
           first == CHOOSE i \in found : \A j \in found : i <= j
<1>1. \A i \in 1..3 : Candidates[i] \in Paths
  BY DEF Candidates, Paths, ConfigPaths
<1>2. CASE found = {}
  BY <1>2 DEF ResolveToken
<1>3. CASE found # {}
  <2>1. \E i \in found : \A j \in found : i <= j
    <3>1. CASE 1 \in found
      BY <3>1
    <3>2. CASE 1 \notin found /\ 2 \in found
      BY <3>2
    <3>3. CASE 1 \notin found /\ 2 \notin found
      BY <1>3, <3>3
    <3> QED
      BY <3>1, <3>2, <3>3
  <2>2. first \in found
    BY <2>1
  <2>3. files[Candidates[first]] \in Tokens \union {None}
    BY <1>1, <2>2
  <2> QED
    BY <1>3, <2>3 DEF ResolveToken
<1> QED
  BY <1>2, <1>3

LEMMA TokenInitType == TokenInit => TokenTypeOK
<1> SUFFICES ASSUME TokenInit PROVE TokenTypeOK
  OBVIOUS
<1>1. HostReads \in Tokens \union {None}
  BY DEF TokenInit, HostReads, HostPath, Paths, ConfigPaths
<1>2. ResolveToken \in Tokens \union {None}
  BY TokensResolve DEF TokenInit
<1>3. hostBase \in ConfigPaths
  BY DEF TokenInit
<1> QED
  BY <1>1, <1>2, <1>3, MaxChangesAssumption DEF TokenInit, TokenTypeOK

\* What a step may do to the tokens.
TokenStep ==
  \/ UNCHANGED tokenVars
  \/ UNCHANGED Trusted /\ Disturb
  \/ HostReload \/ HostLoad \/ GuestReload \/ Edits

LEMMA TokenStepType == TokenTypeOK /\ TokenStep => TokenTypeOK'
<1> SUFFICES ASSUME TokenTypeOK, TokenStep PROVE TokenTypeOK'
  OBVIOUS
<1> USE DEF TokenTypeOK
<1>1. CASE UNCHANGED tokenVars
  BY <1>1 DEF tokenVars
<1>2. CASE UNCHANGED Trusted /\ Disturb
  BY <1>2, MaxChangesAssumption DEF Trusted, Disturb
<1>3. CASE HostReload
  <2>1. HostReads \in Tokens \union {None}
    BY DEF HostReads, HostPath, Paths, ConfigPaths
  <2> QED
    BY <1>3, <2>1 DEF HostReload
<1>4. CASE HostLoad
  <2>1. hostCfg' \in ConfigPaths /\ hostBase' \in ConfigPaths
    BY <1>4 DEF HostLoad, ConfigPaths
  <2>2. files[hostBase'] \in Tokens \union {None}
    BY <2>1 DEF Paths, ConfigPaths
  <2> QED
    BY <1>4, <2>1, <2>2 DEF HostLoad
<1>5. CASE GuestReload
  <2>1. ResolveToken \in Tokens \union {None}
    BY <1>5, TokensResolve DEF GuestReload, GuestConfigLoads
  <2> QED
    BY <1>5, <2>1 DEF GuestReload
<1>6. CASE Edits
  <2>1. changes' \in 0..MaxChanges
    BY <1>6, MaxChangesAssumption DEF Edits, BlankFile, WriteToken, EditConfig, Disturb
  <2>2. UNCHANGED <<hostBase, locked, htoken, gtoken>>
    BY <1>6 DEF Edits, BlankFile, WriteToken, EditConfig
  <2>3. files' \in [Paths -> Tokens \union {None}]
    BY <1>6 DEF Edits, BlankFile, WriteToken, EditConfig
  <2>4. hostCfg' \in ConfigPaths \union {"broken"} /\ guestCfg' \in ConfigPaths \union {"broken"}
    BY <1>6 DEF Edits, BlankFile, WriteToken, EditConfig
  <2> QED
    BY <2>1, <2>2, <2>3, <2>4
<1> QED
  BY <1>1, <1>2, <1>3, <1>4, <1>5, <1>6 DEF TokenStep

LEMMA StepsOfTokens == [Next]_vars => TokenStep
<1> SUFFICES ASSUME [Next]_vars PROVE TokenStep
  OBVIOUS
<1> USE DEF TokenStep
<1>1. CASE \E c \in Conns : Handler(c) \/ HandlerEnds(c) \/ Connect(c)
  BY <1>1 DEF Handler, HandleMetrics, RejectMetrics, HandleResult, HandlerEnds, Connect
<1>2. CASE AttemptFails \/ ConnectElsewhere \/ SendMetrics \/ ReadTimeout \/ ReadCommand \/ Respond
           \/ ConnectionLost \/ LeaveElsewhere
  BY <1>2 DEF AttemptFails, ConnectElsewhere, SendMetrics, ReadTimeout, ReadCommand, Respond,
              ConnectionLost, LeaveElsewhere
<1>3. CASE Reloads \/ HostStart \/ GuestStart \/ (Edits /\ UNCHANGED sessionVars)
  BY <1>3 DEF Reloads, HostStart, GuestStart, GuestLoad
<1>4. CASE HostStop \/ ConnectionBreaks \/ GuestStop
  BY <1>4 DEF HostStop, ConnectionBreaks, GuestStop
<1>5. CASE OtherProgram
  BY <1>5 DEF OtherProgram, Trusted, tokenVars
<1>6. CASE UNCHANGED vars
  BY <1>6 DEF vars
<1> QED
  BY <1>1, <1>2, <1>3, <1>4, <1>5, <1>6 DEF Next, GuestLoop

PortsOK ==
  /\ hostUp \in BOOLEAN /\ hostPort \in GatewayPorts
  /\ others \subseteq GatewayPorts
  /\ hostUp => hostPort \notin others
  /\ attempt \in Attempts

(* The guest never closes a connection and keeps it; with that, the host's   *)
(* end is open exactly while the guest has a handler.                        *)
ConnOK ==
  /\ handler \subseteq Conns /\ left \subseteq handler
  /\ link \in {"open", "fin", "reset"}
  /\ pc \in {"down", "connect", "elsewhere", "send", "read", "exec"}
  /\ conn \in Conns \union {NoConn}
  /\ InSession <=> conn # NoConn
  /\ link = "open" <=> conn \in handler
  /\ conn \notin left

Message == [type : {"metrics", "result"}, token : Tokens \union {None}]

LinesOK ==
  /\ toHost \in [Conns -> Seq(Message)]
  /\ toGuest \in Seq(Halfs) /\ line \in Seq(Halfs)

LogOK ==
  /\ issued \in 0..MaxCmds
  /\ written \in Seq(Cmds) /\ executed \in Seq(Cmds)
  /\ mark \in 0..Len(executed)

TypeInv == TokenTypeOK /\ PortsOK /\ ConnOK /\ LinesOK /\ LogOK

LEMMA TypeParts == TypeInv => TypeOK
BY DEF TypeInv, TypeOK, PortsOK, ConnOK, LinesOK, LogOK, Message

LEMMA TypeInit == Init => TypeInv
<1> SUFFICES ASSUME Init PROVE TypeInv
  OBVIOUS
<1>1. TokenTypeOK
  BY TokenInitType DEF Init
<1>2. PortsOK
  BY AttemptsGoOn, ConnectorAssumption DEF Init, PortsOK, GatewayPorts
<1>3. ConnOK
  BY DEF Init, ConnOK, InSession, NoConn
<1>4. LinesOK
  BY EmptySeq DEF Init, LinesOK
<1>5. LogOK
  BY EmptySeq, SessionBounds DEF Init, LogOK
<1> QED
  BY <1>1, <1>2, <1>3, <1>4, <1>5 DEF TypeInv

LEMMA PortsStep == PortsOK /\ [Next]_vars => PortsOK'
<1> SUFFICES ASSUME PortsOK, [Next]_vars PROVE PortsOK'
  OBVIOUS
<1> USE DEF PortsOK
<1>1. CASE \E c \in Conns : Handler(c) \/ HandlerEnds(c)
  BY <1>1 DEF Handler, HandleMetrics, RejectMetrics, HandleResult, HandlerEnds, pathVars
<1>2. CASE SendMetrics \/ ReadTimeout \/ ReadCommand \/ Respond \/ ConnectElsewhere \/ Reloads
           \/ GuestStart \/ (Edits /\ UNCHANGED sessionVars) \/ UNCHANGED vars
  BY <1>2 DEF SendMetrics, ReadTimeout, ReadCommand, Respond, ConnectElsewhere, Reloads, GuestStart,
              vars, sessionVars, pathVars
<1>3. CASE (\E c \in Conns : Connect(c)) \/ AttemptFails \/ LeaveElsewhere
  <2>1. attempt' \in Attempts
    BY <1>3, AttemptsGoOn DEF Connect, AttemptFails, LeaveElsewhere
  <2> QED
    BY <1>3, <2>1 DEF Connect, AttemptFails, LeaveElsewhere
<1>4. CASE \E next, told : LeaveConnection(next, told)
  BY <1>4, AttemptsGoOn DEF LeaveConnection
<1>5. CASE HostStop \/ HostStart
  BY <1>5 DEF HostStop, HostStart, pathVars
<1>6. CASE OtherProgram
  BY <1>6 DEF OtherProgram
<1>7. ConnectionLost \/ ConnectionBreaks \/ GuestStop => \E next, told : LeaveConnection(next, told)
  BY DEF ConnectionLost, ConnectionBreaks, GuestStop
<1> QED
  BY <1>1, <1>2, <1>3, <1>4, <1>5, <1>6, <1>7 DEF Next, GuestLoop

\* An end that is closed is never open again.
LEMMA Closed ==
  ASSUME NEW c, NEW unread, Close(c, unread)
  PROVE  /\ c = conn => link' \in {"fin", "reset"}
         /\ c # conn => UNCHANGED <<link, toGuest>>
         /\ toGuest' = toGuest \/ toGuest' \in Cut(toGuest)
BY DEF Close

LEMMA ConnStep == ConnOK /\ [Next]_vars => ConnOK'
<1> SUFFICES ASSUME ConnOK, [Next]_vars PROVE ConnOK'
  OBVIOUS
<1> USE DEF ConnOK
<1>0. NoConn \notin Conns
  BY DEF Conns, NoConn
<1>1. CASE \E c \in Conns : HandleMetrics(c) \/ HandleResult(c)
  BY <1>1 DEF HandleMetrics, HandleResult, InSession
<1>2. CASE \E c \in Conns : RejectMetrics(c)
  <2>1. PICK c \in Conns : RejectMetrics(c)
    BY <1>2
  <2>2. UNCHANGED <<pc, conn>> /\ handler' = handler \ {c} /\ left' = left \ {c} /\ Close(c, Tail(toHost[c]))
    BY <2>1 DEF RejectMetrics
  <2>3. link' \in {"open", "fin", "reset"} /\ (link' = "open" <=> conn \in handler \ {c})
    BY <2>2, Closed
  <2> QED
    BY <2>2, <2>3 DEF InSession
<1>3. CASE \E c \in Conns : HandlerEnds(c)
  BY <1>3 DEF HandlerEnds, InSession
<1>4. CASE \E c \in Conns : Connect(c)
  BY <1>0, <1>4 DEF Connect, InSession
<1>5. CASE AttemptFails \/ ConnectElsewhere \/ LeaveElsewhere \/ Reloads \/ HostStart \/ OtherProgram
           \/ GuestStart \/ (Edits /\ UNCHANGED sessionVars) \/ UNCHANGED vars
  BY <1>5 DEF AttemptFails, ConnectElsewhere, LeaveElsewhere, Reloads, HostStart, OtherProgram,
              GuestStart, vars, sessionVars, InSession
<1>6. CASE SendMetrics \/ ReadTimeout \/ ReadCommand \/ Respond
  BY <1>6 DEF SendMetrics, ReadTimeout, ReadCommand, Respond, InSession
<1>7. CASE \E next \in {"connect", "down"}, told \in BOOLEAN : LeaveConnection(next, told)
  BY <1>0, <1>7 DEF LeaveConnection, InSession
<1>8. CASE HostStop
  <2>1. UNCHANGED <<pc, conn>> /\ handler' = {} /\ left' = {}
    BY <1>8 DEF HostStop
  <2>2. link' \in {"fin", "reset"}
    <3>1. CASE conn \in handler
      <4>1. Close(conn, toHost[conn])
        BY <1>8, <3>1 DEF HostStop
      <4> QED
        BY <4>1, Closed
    <3>2. CASE conn \notin handler
      BY <1>8, <3>2 DEF HostStop
    <3> QED
      BY <3>1, <3>2
  <2> QED
    BY <2>1, <2>2 DEF InSession
<1>9. ConnectionLost \/ ConnectionBreaks \/ GuestStop
        => \E next \in {"connect", "down"}, told \in BOOLEAN : LeaveConnection(next, told)
  BY DEF ConnectionLost, ConnectionBreaks, GuestStop
<1> QED
  BY <1>1, <1>2, <1>3, <1>4, <1>5, <1>6, <1>7, <1>8, <1>9 DEF Next, GuestLoop, Handler

LEMMA HalvesOfOne ==
  ASSUME NEW c \in Cmds
  PROVE  /\ Halves(<<c>>) \in Seq(Halfs) /\ Len(Halves(<<c>>)) = 2
         /\ Halves(<<c>>)[1] = <<c, "begin">> /\ Halves(<<c>>)[2] = <<c, "end">>
<1>1. Len(<<c>>) = 1
  OBVIOUS
<1>2. \A i \in 1..2 : (i + 1) \div 2 = 1
  OBVIOUS
<1> DEFINE f == [i \in 1..2 |-> <<c, IF i % 2 = 1 THEN "begin" ELSE "end">>]
<1>3. Halves(<<c>>) = f
  BY <1>1, <1>2 DEF Halves
<1>4. 1 % 2 = 1 /\ 2 % 2 = 0
  OBVIOUS
<1>5. f[1] = <<c, "begin">> /\ f[2] = <<c, "end">>
  BY <1>4
<1>6. f \in [1..2 -> Halfs]
  BY DEF Halfs
<1> HIDE DEF f
<1> QED
  BY <1>3, <1>5, <1>6, FunctionIsSeq

\* A part of a sequence from its start or to its end.
LEMMA Parts ==
  ASSUME NEW S, NEW s \in Seq(S), NEW n \in 0..Len(s)
  PROVE  /\ SubSeq(s, 1, n) \in Seq(S) /\ Len(SubSeq(s, 1, n)) = n
         /\ \A i \in 1..n : SubSeq(s, 1, n)[i] = s[i]
         /\ SubSeq(s, n + 1, Len(s)) \in Seq(S) /\ Len(SubSeq(s, n + 1, Len(s))) = Len(s) - n
         /\ \A i \in 1..Len(s) - n : SubSeq(s, n + 1, Len(s))[i] = s[n + i]
<1>1. Len(s) \in Nat /\ \A i \in 1..Len(s) : s[i] \in S
  BY LenProperties, ElementOfSeq
<1>2. /\ SubSeq(s, 1, n) \in Seq(S)
      /\ Len(SubSeq(s, 1, n)) = IF 1 <= n THEN n - 1 + 1 ELSE 0
      /\ \A i \in 1..n - 1 + 1 : SubSeq(s, 1, n)[i] = s[1 + i - 1]
  <2>1. \A i \in 1..n : s[i] \in S
    BY <1>1
  <2> QED
    BY <1>1, <2>1, SubSeqProperties
<1>3. /\ SubSeq(s, n + 1, Len(s)) \in Seq(S)
      /\ Len(SubSeq(s, n + 1, Len(s))) = IF n + 1 <= Len(s) THEN Len(s) - (n + 1) + 1 ELSE 0
      /\ \A i \in 1..Len(s) - (n + 1) + 1 : SubSeq(s, n + 1, Len(s))[i] = s[n + 1 + i - 1]
  <2>1. \A i \in n + 1..Len(s) : s[i] \in S
    BY <1>1
  <2> QED
    BY <1>1, <2>1, SubSeqProperties
<1> QED
  BY <1>1, <1>2, <1>3

\* What is left of the wire when a connection is cut, and its length.
LEMMA CutIsPart ==
  ASSUME NEW S, NEW s \in Seq(S), NEW t \in Cut(s)
  PROVE  /\ t \in Seq(S) /\ Len(t) <= Len(s)
         /\ \A i \in 1..Len(t) : t[i] = s[i]
<1>1. PICK n \in 0..Len(s) : t = SubSeq(s, 1, n)
  BY DEF Cut
<1> QED
  BY <1>1, Parts

LEMMA LinesStep ==
  TypeInv /\ [Next]_vars => LinesOK'
<1> SUFFICES ASSUME TypeInv, [Next]_vars PROVE LinesOK'
  OBVIOUS
<1> USE DEF LinesOK
<1>0. TokenTypeOK /\ ConnOK /\ LinesOK /\ LogOK
  BY DEF TypeInv
<1>1. <<>> \in Seq(Halfs) /\ <<>> \in Seq(Message)
  BY EmptySeq
<1>2. ASSUME NEW c \in Conns, toHost[c] # <<>> PROVE Tail(toHost[c]) \in Seq(Message)
  BY <1>0, <1>2, HeadTailProperties
<1>3. CASE \E c \in Conns : HandleMetrics(c)
  <2>1. PICK c \in Conns : HandleMetrics(c)
    BY <1>3
  <2>2. toHost' \in [Conns -> Seq(Message)] /\ UNCHANGED line
    BY <1>0, <1>2, <2>1 DEF HandleMetrics
  <2>3. toGuest' \in Seq(Halfs)
    <3>1. CASE UNCHANGED toGuest
      BY <1>0, <3>1
    <3>2. CASE issued < MaxCmds /\ issued' = issued + 1 /\ toGuest' = toGuest \o Halves(<<issued'>>)
      <4>1. issued' \in Cmds
        BY <1>0, <3>2, SessionBounds DEF LogOK, Cmds
      <4>2. Halves(<<issued'>>) \in Seq(Halfs)
        BY <4>1, HalvesOfOne
      <4> QED
        BY <1>0, <3>2, <4>2, ConcatProperties
    <3> QED
      BY <2>1, <3>1, <3>2 DEF HandleMetrics
  <2> QED
    BY <1>0, <2>2, <2>3
<1>4. CASE \E c \in Conns : RejectMetrics(c)
  <2>1. PICK c \in Conns : RejectMetrics(c)
    BY <1>4
  <2>2. toGuest' = toGuest \/ toGuest' \in Cut(toGuest)
    BY <2>1, Closed DEF RejectMetrics
  <2>3. toHost' \in [Conns -> Seq(Message)] /\ UNCHANGED line
    BY <1>0, <1>1, <2>1 DEF RejectMetrics
  <2> QED
    BY <1>0, <2>2, <2>3, CutIsPart
<1>5. CASE \E c \in Conns : HandleResult(c) \/ HandlerEnds(c)
  BY <1>0, <1>1, <1>2, <1>5 DEF HandleResult, HandlerEnds
<1>6. CASE HostStop
  <2>1. toGuest' = toGuest \/ toGuest' \in Cut(toGuest)
    BY <1>6, Closed DEF HostStop
  <2>2. toHost' \in [Conns -> Seq(Message)] /\ UNCHANGED line
    BY <1>1, <1>6 DEF HostStop
  <2> QED
    BY <1>0, <2>1, <2>2, CutIsPart
<1>7. CASE \E c \in Conns : Connect(c)
  BY <1>0, <1>1, <1>7 DEF Connect
<1>8. CASE AttemptFails \/ ConnectElsewhere \/ LeaveElsewhere \/ Reloads \/ HostStart \/ OtherProgram
           \/ GuestStart \/ (Edits /\ UNCHANGED sessionVars) \/ UNCHANGED vars
  BY <1>0, <1>8 DEF AttemptFails, ConnectElsewhere, LeaveElsewhere, Reloads, HostStart, OtherProgram,
                    GuestStart, vars, sessionVars
<1>9. CASE SendMetrics \/ Respond
  <2>1. conn \in Conns /\ UNCHANGED <<toGuest, line>>
    BY <1>0, <1>9 DEF SendMetrics, Respond, ConnOK, InSession
  <2>2. \/ UNCHANGED toHost
        \/ \E m \in Message : toHost' = [toHost EXCEPT ![conn] = Append(@, m)]
    <3>1. Result \in Message
      BY DEF Message, Result
    <3>2. gtoken # None => Metrics(gtoken) \in Message
      BY <1>0 DEF Message, Metrics, TokenTypeOK
    <3> QED
      BY <1>9, <3>1, <3>2 DEF SendMetrics, Respond
  <2>3. \A m \in Message : Append(toHost[conn], m) \in Seq(Message)
    BY <1>0, <2>1, AppendProperties
  <2> QED
    BY <1>0, <2>1, <2>2, <2>3
<1>10. CASE ReadTimeout
  <2>1. UNCHANGED toHost
    BY <1>10 DEF ReadTimeout
  <2>2. \/ UNCHANGED <<line, toGuest>>
        \/ toGuest # <<>> /\ line' = Append(line, Head(toGuest)) /\ toGuest' = Tail(toGuest)
    BY <1>10 DEF ReadTimeout
  <2>3. toGuest # <<>> => Head(toGuest) \in Halfs /\ Tail(toGuest) \in Seq(Halfs)
    BY <1>0, HeadTailProperties
  <2>4. toGuest # <<>> => Append(line, Head(toGuest)) \in Seq(Halfs)
    BY <1>0, <2>3, AppendProperties
  <2> QED
    BY <1>0, <2>1, <2>2, <2>3, <2>4
<1>11. CASE ReadCommand
  <2>1. UNCHANGED toHost /\ line' = <<>>
    BY <1>11 DEF ReadCommand
  <2>2. PICK n \in 1..2 : n <= Len(toGuest) /\ toGuest' = SubSeq(toGuest, n + 1, Len(toGuest))
    BY <1>11 DEF ReadCommand
  <2>3. n \in 0..Len(toGuest)
    BY <1>0, <2>2, LenProperties
  <2>4. toGuest' \in Seq(Halfs)
    BY <1>0, <2>2, <2>3, Parts
  <2> QED
    BY <1>0, <1>1, <2>1, <2>4
<1>12. CASE \E next, told : LeaveConnection(next, told)
  BY <1>0, <1>1, <1>12 DEF LeaveConnection
<1>13. ConnectionLost \/ ConnectionBreaks \/ GuestStop => \E next, told : LeaveConnection(next, told)
  BY DEF ConnectionLost, ConnectionBreaks, GuestStop
<1> QED
  BY <1>3, <1>4, <1>5, <1>6, <1>7, <1>8, <1>9, <1>10, <1>11, <1>12, <1>13 DEF Next, GuestLoop, Handler

LEMMA LogStep == TypeInv /\ [Next]_vars => LogOK'
<1> SUFFICES ASSUME TypeInv, [Next]_vars PROVE LogOK'
  OBVIOUS
<1> USE DEF LogOK
<1>0. LogOK
  BY DEF TypeInv
<1>1. Len(executed) \in Nat
  BY <1>0, LenProperties
<1>2. CASE \E c \in Conns : HandleMetrics(c)
  <2>1. UNCHANGED <<executed, mark>>
    BY <1>2 DEF HandleMetrics
  <2>2. \/ UNCHANGED <<issued, written>>
        \/ /\ issued < MaxCmds /\ issued' = issued + 1
           /\ UNCHANGED written \/ written' = Append(written, issued')
    BY <1>2 DEF HandleMetrics
  <2>3. issued < MaxCmds /\ issued' = issued + 1 => issued' \in Cmds /\ issued' \in 0..MaxCmds
    BY <1>0, SessionBounds DEF Cmds
  <2>4. issued' \in Cmds => Append(written, issued') \in Seq(Cmds)
    BY <1>0, AppendProperties
  <2> QED
    BY <1>0, <2>1, <2>2, <2>3, <2>4
<1>3. CASE \E c \in Conns : Connect(c)
  <2>1. written' = <<>> /\ mark' = Len(executed) /\ UNCHANGED <<issued, executed>>
    BY <1>3 DEF Connect
  <2> QED
    BY <1>0, <1>1, <2>1, EmptySeq
<1>4. CASE ReadCommand
  <2>1. UNCHANGED <<issued, written, mark>>
    BY <1>4 DEF ReadCommand
  <2>2. PICK c \in Cmds : executed' = Append(executed, c)
    BY <1>4 DEF ReadCommand
  <2>3. executed' \in Seq(Cmds) /\ Len(executed') = Len(executed) + 1
    BY <1>0, <2>2, AppendProperties
  <2> QED
    BY <1>0, <1>1, <2>1, <2>3
<1>5. CASE UNCHANGED <<issued, written, executed, mark>>
  BY <1>0, <1>5
<1>6. \/ \E c \in Conns : HandleMetrics(c) \/ Connect(c)
      \/ ReadCommand
      \/ UNCHANGED <<issued, written, executed, mark>>
  BY DEF Next, GuestLoop, Handler, RejectMetrics, HandleResult, HandlerEnds, HostStop, HostStart,
         AttemptFails, ConnectElsewhere, LeaveElsewhere, OtherProgram, SendMetrics, ReadTimeout, Respond,
         ConnectionLost, ConnectionBreaks, GuestStop, LeaveConnection, GuestStart, Reloads,
         vars, sessionVars
<1> QED
  BY <1>2, <1>3, <1>4, <1>5, <1>6

LEMMA TypeStep == TypeInv /\ [Next]_vars => TypeInv'
<1> SUFFICES ASSUME TypeInv, [Next]_vars PROVE TypeInv'
  OBVIOUS
<1>1. TokenTypeOK' /\ PortsOK' /\ ConnOK'
  BY StepsOfTokens, TokenStepType, PortsStep, ConnStep DEF TypeInv
<1>2. LinesOK' /\ LogOK'
  BY LinesStep, LogStep
<1> QED
  BY <1>1, <1>2 DEF TypeInv

LEMMA TypeHolds == Spec => []TypeInv
BY TypeInit, TypeStep, PTL DEF Spec

(* Whatever breaks, stops, is edited or answers in the host's place, the     *)
(* session keeps its types; with them, the host's end of the guest's         *)
(* connection is open exactly while that connection has a handler and the    *)
(* guest has not left it.                                                    *)
THEOREM TypeCorrect == Spec => []TypeOK
BY TypeHolds, TypeParts, PTL

-----------------------------------------------------------------------------
\* Framing.

\* The halves of lines that the guest has yet to put together, in order.
Wire == line \o toGuest

\* How many commands were executed since the connection began.
Here == Len(executed) - mark

\* The k-th half on the wire when the first d commands of s have been executed.
HalfOf(s, d, k) == <<s[d + (k + 1) \div 2], IF k % 2 = 1 THEN "begin" ELSE "end">>

Framed(w, s, d) ==
  /\ Len(w) <= 2 * (Len(s) - d)
  /\ \A k \in 1..Len(w) : w[k] = HalfOf(s, d, k)

(* What was executed on this connection is the beginning of what was written *)
(* to it, and the wire holds the halves of what follows: up to its end while *)
(* the connection is open, some of it after a cut.                           *)
WireInv ==
  /\ Here <= Len(written)
  /\ \A i \in 1..Here : executed[mark + i] = written[i]
  /\ Framed(Wire, written, Here)
  /\ link = "open" => Len(Wire) = 2 * (Len(written) - Here)

LEMMA HereNat == LogOK => Here \in Nat /\ Len(written) \in Nat /\ Len(executed) \in Nat /\ mark \in Nat
<1> SUFFICES ASSUME LogOK PROVE Here \in Nat /\ Len(written) \in Nat /\ Len(executed) \in Nat /\ mark \in Nat
  OBVIOUS
<1>1. Len(written) \in Nat /\ Len(executed) \in Nat
  BY LenProperties DEF LogOK
<1> QED
  BY <1>1 DEF LogOK, Here

LEMMA WireType ==
  LinesOK => /\ Wire \in Seq(Halfs) /\ Len(Wire) \in Nat
             /\ Len(line) \in Nat /\ Len(toGuest) \in Nat /\ Len(Wire) = Len(line) + Len(toGuest)
<1> SUFFICES ASSUME LinesOK
             PROVE  /\ Wire \in Seq(Halfs) /\ Len(Wire) \in Nat
                    /\ Len(line) \in Nat /\ Len(toGuest) \in Nat /\ Len(Wire) = Len(line) + Len(toGuest)
  OBVIOUS
<1>1. Len(line) \in Nat /\ Len(toGuest) \in Nat
  BY LenProperties DEF LinesOK
<1>2. Wire \in Seq(Halfs) /\ Len(Wire) = Len(line) + Len(toGuest)
  BY ConcatProperties DEF LinesOK, Wire
<1> QED
  BY <1>1, <1>2

LEMMA FramedStart ==
  ASSUME NEW s \in Seq(Cmds)
  PROVE  Framed(<<>>, s, 0)
<1>1. Len(<<>>) = 0 /\ Len(s) \in Nat
  BY LenProperties
<1>2. 0 <= 2 * (Len(s) - 0)
  BY <1>1
<1> QED
  BY <1>1, <1>2 DEF Framed

LEMMA FramedCut ==
  ASSUME NEW s \in Seq(Cmds), NEW d \in Nat, NEW w \in Seq(Halfs), NEW v \in Seq(Halfs),
         Framed(w, s, d), Len(v) <= Len(w), \A i \in 1..Len(v) : v[i] = w[i]
  PROVE  Framed(v, s, d)
<1>1. Len(v) \in Nat /\ Len(w) \in Nat /\ Len(s) \in Nat
  BY LenProperties
<1>2. Len(v) <= 2 * (Len(s) - d)
  BY <1>1 DEF Framed
<1>3. \A k \in 1..Len(v) : v[k] = HalfOf(s, d, k)
  BY <1>1 DEF Framed
<1> QED
  BY <1>2, <1>3 DEF Framed

\* A command is written whole behind all that was written before.
LEMMA FramedAdd ==
  ASSUME NEW s \in Seq(Cmds), NEW d \in Nat, d <= Len(s), NEW w \in Seq(Halfs), NEW c \in Cmds,
         Framed(w, s, d), Len(w) = 2 * (Len(s) - d)
  PROVE  /\ Framed(w \o Halves(<<c>>), Append(s, c), d)
         /\ Len(w \o Halves(<<c>>)) = 2 * (Len(Append(s, c)) - d)
<1> DEFINE h == Halves(<<c>>)
           t == Append(s, c)
           m == Len(s) - d
<1>1. Len(s) \in Nat /\ Len(w) \in Nat /\ m \in Nat /\ Len(w) = 2 * m
  BY LenProperties
<1>2. Len(t) = Len(s) + 1 /\ (\A i \in 1..Len(s) : t[i] = s[i]) /\ t[Len(s) + 1] = c
  BY AppendProperties
<1>3. h \in Seq(Halfs) /\ Len(h) = 2 /\ h[1] = <<c, "begin">> /\ h[2] = <<c, "end">>
  BY HalvesOfOne
<1> HIDE DEF h, t, m
<1>4. /\ Len(w \o h) = 2 * m + 2
      /\ \A i \in 1..2 * m + 2 : (w \o h)[i] = IF i <= 2 * m THEN w[i] ELSE h[i - 2 * m]
  <2>1. /\ Len(w \o h) = Len(w) + Len(h)
        /\ \A i \in 1..Len(w) + Len(h) : (w \o h)[i] = IF i <= Len(w) THEN w[i] ELSE h[i - Len(w)]
    BY <1>3, ConcatProperties
  <2>2. Len(w) = 2 * m /\ Len(h) = 2
    BY <1>1, <1>3
  <2> QED
    BY <2>1, <2>2
<1>5. 2 * m + 2 = 2 * (Len(t) - d)
  BY <1>1, <1>2 DEF m
<1>6. ASSUME NEW k \in 1..2 * m + 2 PROVE (w \o h)[k] = HalfOf(t, d, k)
  <2>1. CASE k <= 2 * m
    <3>1. d + (k + 1) \div 2 \in 1..Len(s)
      BY <1>1, <2>1 DEF m
    <3>2. w[k] = HalfOf(s, d, k)
      BY <1>1, <2>1 DEF Framed
    <3> QED
      BY <1>1, <1>2, <1>4, <2>1, <3>1, <3>2 DEF HalfOf
  <2>2. CASE k = 2 * m + 1
    <3>1. (k + 1) \div 2 = m + 1 /\ k % 2 = 1 /\ d + (m + 1) = Len(s) + 1 /\ k - 2 * m = 1
      BY <1>1, <2>2 DEF m
    <3>2. HalfOf(t, d, k) = <<c, "begin">>
      BY <1>2, <3>1 DEF HalfOf
    <3>3. (w \o h)[k] = h[1]
      BY <1>1, <1>4, <2>2, <3>1
    <3> QED
      BY <1>3, <3>2, <3>3
  <2>3. CASE k = 2 * m + 2
    <3>1. (k + 1) \div 2 = m + 1 /\ k % 2 = 0 /\ d + (m + 1) = Len(s) + 1 /\ k - 2 * m = 2
      BY <1>1, <2>3 DEF m
    <3>2. HalfOf(t, d, k) = <<c, "end">>
      BY <1>2, <3>1 DEF HalfOf
    <3>3. (w \o h)[k] = h[2]
      BY <1>1, <1>4, <2>3, <3>1
    <3> QED
      BY <1>3, <3>2, <3>3
  <2>4. k <= 2 * m \/ k = 2 * m + 1 \/ k = 2 * m + 2
    BY <1>1
  <2> QED
    BY <2>1, <2>2, <2>3, <2>4
<1>7. Framed(w \o h, t, d)
  BY <1>4, <1>5, <1>6 DEF Framed
<1>8. Len(w \o h) = 2 * (Len(t) - d)
  BY <1>4, <1>5
<1> QED
  BY <1>7, <1>8 DEF h, t

\* The first two halves are those of the command that comes next.
LEMMA FramedNext ==
  ASSUME NEW s \in Seq(Cmds), NEW d \in Nat, NEW w \in Seq(Halfs), NEW v \in Seq(Halfs),
         Framed(w, s, d), Len(w) = Len(v) + 2, \A k \in 1..Len(v) : v[k] = w[k + 2]
  PROVE  /\ d + 1 <= Len(s) /\ w[1] = <<s[d + 1], "begin">>
         /\ Framed(v, s, d + 1)
<1>1. Len(v) \in Nat /\ Len(w) \in Nat /\ Len(s) \in Nat
  BY LenProperties
<1>2. d + 1 <= Len(s) /\ Len(v) <= 2 * (Len(s) - (d + 1))
  BY <1>1 DEF Framed
<1>3. w[1] = <<s[d + 1], "begin">>
  <2>1. w[1] = HalfOf(s, d, 1)
    BY <1>1 DEF Framed
  <2>2. (1 + 1) \div 2 = 1 /\ 1 % 2 = 1
    OBVIOUS
  <2> QED
    BY <2>1, <2>2 DEF HalfOf
<1>4. ASSUME NEW k \in 1..Len(v) PROVE v[k] = HalfOf(s, d + 1, k)
  <2>1. v[k] = HalfOf(s, d, k + 2)
    BY <1>1 DEF Framed
  <2>2. (k + 2) % 2 = k % 2 /\ d + (k + 2 + 1) \div 2 = d + 1 + (k + 1) \div 2
    BY <1>1
  <2> QED
    BY <2>1, <2>2 DEF HalfOf
<1> QED
  BY <1>2, <1>3, <1>4 DEF Framed

\* A line that is complete is the first on the wire.
LEMMA FirstLine ==
  ASSUME LinesOK, NEW n \in 1..2, n <= Len(toGuest), NEW c \in Cmds,
         line \o SubSeq(toGuest, 1, n) = Halves(<<c>>),
         NEW v, v = SubSeq(toGuest, n + 1, Len(toGuest))
  PROVE  /\ v \in Seq(Halfs) /\ Len(Wire) = Len(v) + 2
         /\ \A k \in 1..Len(v) : v[k] = Wire[k + 2]
         /\ Wire[1] = <<c, "begin">>
<1> DEFINE u == SubSeq(toGuest, 1, n)
<1>1. Len(line) \in Nat /\ Len(toGuest) \in Nat /\ n \in 0..Len(toGuest)
  BY WireType
<1>2. /\ u \in Seq(Halfs) /\ Len(u) = n /\ \A i \in 1..n : u[i] = toGuest[i]
      /\ v \in Seq(Halfs) /\ Len(v) = Len(toGuest) - n /\ \A i \in 1..Len(toGuest) - n : v[i] = toGuest[n + i]
  BY <1>1, Parts DEF LinesOK
<1> HIDE DEF u
<1>3. /\ Len(line \o u) = Len(line) + Len(u)
      /\ \A i \in 1..Len(line) + Len(u) : (line \o u)[i] = IF i <= Len(line) THEN line[i] ELSE u[i - Len(line)]
  BY <1>2, ConcatProperties DEF LinesOK
<1>4. /\ Len(Wire) = Len(line) + Len(toGuest)
      /\ \A i \in 1..Len(line) + Len(toGuest) :
           Wire[i] = IF i <= Len(line) THEN line[i] ELSE toGuest[i - Len(line)]
  BY ConcatProperties DEF LinesOK, Wire
<1>5. Len(line \o u) = 2 /\ (line \o u)[1] = <<c, "begin">>
  BY HalvesOfOne DEF u
<1>6. Len(line) + n = 2
  BY <1>1, <1>2, <1>3, <1>5
<1>7. Len(Wire) = Len(v) + 2
  BY <1>1, <1>2, <1>4, <1>6
<1>8. ASSUME NEW k \in 1..Len(v) PROVE v[k] = Wire[k + 2]
  <2>1. k + 2 \in 1..Len(line) + Len(toGuest) /\ ~(k + 2 <= Len(line)) /\ k + 2 - Len(line) = n + k
    BY <1>1, <1>2, <1>6
  <2>2. Wire[k + 2] = toGuest[n + k]
    BY <1>4, <2>1
  <2> QED
    BY <1>2, <2>2
<1>9. Wire[1] = (line \o u)[1]
  <2>1. CASE Len(line) = 0
    <3>1. Wire[1] = toGuest[1]
      BY <1>1, <1>4, <2>1
    <3>2. (line \o u)[1] = u[1] /\ 1 \in 1..n
      BY <1>1, <1>2, <1>3, <2>1
    <3> QED
      BY <1>2, <3>1, <3>2
  <2>2. CASE Len(line) # 0
    BY <1>1, <1>2, <1>3, <1>4, <2>2
  <2> QED
    BY <2>1, <2>2
<1> QED
  BY <1>2, <1>5, <1>7, <1>8, <1>9

LEMMA WireAfterCut ==
  ASSUME LinesOK, NEW t \in Cut(toGuest)
  PROVE  /\ line \o t \in Seq(Halfs) /\ Len(line \o t) <= Len(Wire)
         /\ \A i \in 1..Len(line \o t) : (line \o t)[i] = Wire[i]
<1>1. t \in Seq(Halfs) /\ Len(t) <= Len(toGuest) /\ \A i \in 1..Len(t) : t[i] = toGuest[i]
  BY CutIsPart DEF LinesOK
<1>2. Len(line) \in Nat /\ Len(toGuest) \in Nat /\ Len(t) \in Nat
  BY <1>1, WireType, LenProperties
<1>3. /\ line \o t \in Seq(Halfs) /\ Len(line \o t) = Len(line) + Len(t)
      /\ \A i \in 1..Len(line) + Len(t) : (line \o t)[i] = IF i <= Len(line) THEN line[i] ELSE t[i - Len(line)]
  BY <1>1, ConcatProperties DEF LinesOK
<1>4. /\ Len(Wire) = Len(line) + Len(toGuest)
      /\ \A i \in 1..Len(line) + Len(toGuest) :
           Wire[i] = IF i <= Len(line) THEN line[i] ELSE toGuest[i - Len(line)]
  BY ConcatProperties DEF LinesOK, Wire
<1>5. ASSUME NEW i \in 1..Len(line) + Len(t) PROVE (line \o t)[i] = Wire[i]
  <2>1. CASE i <= Len(line)
    BY <1>1, <1>2, <1>3, <1>4, <2>1
  <2>2. CASE ~(i <= Len(line))
    <3>1. i - Len(line) \in 1..Len(t) /\ i \in 1..Len(line) + Len(toGuest)
      BY <1>1, <1>2, <2>2
    <3> QED
      BY <1>1, <1>3, <1>4, <2>2, <3>1
  <2> QED
    BY <2>1, <2>2
<1> QED
  BY <1>1, <1>2, <1>3, <1>4, <1>5

\* A timeout in the middle of a line takes nothing from the wire.
LEMMA WireAfterTimeout ==
  ASSUME LinesOK, ReadTimeout PROVE Wire' = Wire
<1>1. CASE UNCHANGED <<line, toGuest>>
  BY <1>1 DEF Wire
<1>2. CASE toGuest # <<>> /\ line' = Append(line, Head(toGuest)) /\ toGuest' = Tail(toGuest)
  <2> DEFINE h == Head(toGuest)
             t == Tail(toGuest)
  <2>1. /\ h \in Halfs /\ t \in Seq(Halfs) /\ Len(t) = Len(toGuest) - 1
        /\ \A i \in 1..Len(t) : t[i] = toGuest[i + 1]
    BY <1>2, HeadTailProperties DEF LinesOK
  <2>2. Append(line, h) = line \o <<h>> /\ <<h>> \in Seq(Halfs)
    BY <2>1, AppendIsConcat DEF LinesOK
  <2>3. toGuest = <<h>> \o t
    <3>1. Len(toGuest) \in Nat /\ Len(toGuest) >= 1 /\ h = toGuest[1]
      BY <1>2, EmptySeq, LenProperties DEF LinesOK
    <3>2. 1 \in 1..Len(toGuest) /\ Len(toGuest) \in 1..Len(toGuest)
      BY <3>1
    <3>3. SubSeq(toGuest, 1, Len(toGuest)) = <<toGuest[1]>> \o SubSeq(toGuest, 1 + 1, Len(toGuest))
      BY <3>2, SubSeqRecursiveFirst DEF LinesOK
    <3>4. t = SubSeq(toGuest, 2, Len(toGuest)) /\ toGuest = SubSeq(toGuest, 1, Len(toGuest))
      BY <1>2, TailIsSubSeq, SubSeqFull DEF LinesOK
    <3>5. 1 + 1 = 2
      OBVIOUS
    <3> HIDE DEF h, t
    <3> QED
      BY <3>1, <3>3, <3>4, <3>5
  <2>4. (line \o <<h>>) \o t = line \o (<<h>> \o t)
    BY <2>1, <2>2, ConcatAssociative DEF LinesOK
  <2> QED
    BY <1>2, <2>2, <2>3, <2>4 DEF Wire
<1> QED
  BY <1>1, <1>2 DEF ReadTimeout

\* A step that leaves the commands alone and takes nothing or an end off the wire.
LEMMA WireKept ==
  ASSUME LinesOK, LogOK, WireInv, UNCHANGED <<written, executed, mark>>,
         Wire' \in Seq(Halfs), Len(Wire') <= Len(Wire), \A i \in 1..Len(Wire') : Wire'[i] = Wire[i],
         link' = "open" => link = "open" /\ Wire' = Wire
  PROVE  WireInv'
<1>1. Here' = Here /\ Here \in Nat
  BY HereNat DEF Here
<1>2. Framed(Wire', written, Here)
  BY <1>1, WireType, FramedCut DEF WireInv, LogOK
<1>3. Framed(Wire, written, Here)' <=> Framed(Wire', written', Here')
  BY DEF Framed, HalfOf
<1>4. Here' <= Len(written') /\ \A i \in 1..Here' : executed'[mark' + i] = written'[i]
  BY <1>1 DEF WireInv
<1>5. link' = "open" => Len(Wire') = 2 * (Len(written') - Here')
  BY <1>1 DEF WireInv
<1> QED
  BY <1>1, <1>2, <1>3, <1>4, <1>5 DEF WireInv

LEMMA WireGrows ==
  ASSUME TypeInv, TypeInv', WireInv, NEW c \in Conns, HandleMetrics(c)
  PROVE  WireInv'
<1>0. LinesOK /\ LogOK /\ ConnOK /\ LogOK'
  BY DEF TypeInv
<1>1. UNCHANGED <<link, conn, line, executed, mark>>
  BY DEF HandleMetrics
<1>2. Here' = Here /\ Here \in Nat /\ Len(written) \in Nat /\ Wire \in Seq(Halfs)
  BY <1>0, <1>1, HereNat, WireType DEF Here
<1>3. CASE UNCHANGED <<toGuest, written>>
  <2>1. Wire' = Wire
    BY <1>1, <1>3 DEF Wire
  <2> QED
    BY <1>0, <1>1, <1>2, <1>3, <2>1, WireKept, WireType
<1>4. CASE /\ c = conn /\ issued < MaxCmds /\ issued' = issued + 1
           /\ toGuest' = toGuest \o Halves(<<issued'>>) /\ written' = Append(written, issued')
  <2>1. link = "open"
    BY <1>4, <1>0 DEF HandleMetrics, ConnOK
  <2>2. issued' \in Cmds
    BY <1>0, <1>4, SessionBounds DEF LogOK, Cmds
  <2>3. Wire' = Wire \o Halves(<<issued'>>)
    <3>1. Halves(<<issued'>>) \in Seq(Halfs)
      BY <2>2, HalvesOfOne
    <3>2. (line \o toGuest) \o Halves(<<issued'>>) = line \o (toGuest \o Halves(<<issued'>>))
      BY <1>0, <3>1, ConcatAssociative DEF LinesOK
    <3> QED
      BY <1>1, <1>4, <3>2 DEF Wire
  <2>4. Framed(Wire', written', Here) /\ Len(Wire') = 2 * (Len(written') - Here)
    <3>1. Framed(Wire, written, Here) /\ Len(Wire) = 2 * (Len(written) - Here) /\ Here <= Len(written)
      BY <2>1 DEF WireInv
    <3>2. /\ Framed(Wire \o Halves(<<issued'>>), Append(written, issued'), Here)
          /\ Len(Wire \o Halves(<<issued'>>)) = 2 * (Len(Append(written, issued')) - Here)
      BY <1>0, <1>2, <2>2, <3>1, FramedAdd DEF LogOK
    <3> QED
      BY <1>4, <2>3, <3>2
  <2>5. Len(written') = Len(written) + 1 /\ \A i \in 1..Len(written) : written'[i] = written[i]
    BY <1>0, <1>4, <2>2, AppendProperties DEF LogOK
  <2>6. Here' <= Len(written') /\ \A i \in 1..Here' : executed'[mark' + i] = written'[i]
    BY <1>1, <1>2, <2>5 DEF WireInv
  <2>7. Framed(Wire, written, Here)' <=> Framed(Wire', written', Here')
    BY DEF Framed, HalfOf
  <2> QED
    BY <1>2, <2>4, <2>6, <2>7 DEF WireInv
<1> QED
  BY <1>3, <1>4 DEF HandleMetrics

\* The guest executes the first command it has not executed yet.
LEMMA CommandRead ==
  ASSUME TypeInv, WireInv, NEW c \in Cmds, NEW n \in 1..2, n <= Len(toGuest),
         line \o SubSeq(toGuest, 1, n) = Halves(<<c>>),
         NEW v, v = SubSeq(toGuest, n + 1, Len(toGuest))
  PROVE  /\ Here + 1 <= Len(written) /\ c = written[Here + 1]
         /\ v \in Seq(Halfs) /\ Len(Wire) = Len(v) + 2 /\ Framed(v, written, Here + 1)
<1>0. LinesOK /\ LogOK
  BY DEF TypeInv
<1>1. /\ v \in Seq(Halfs) /\ Len(Wire) = Len(v) + 2
      /\ \A k \in 1..Len(v) : v[k] = Wire[k + 2]
      /\ Wire[1] = <<c, "begin">>
  BY <1>0, FirstLine
<1>2. /\ Here + 1 <= Len(written) /\ Wire[1] = <<written[Here + 1], "begin">>
      /\ Framed(v, written, Here + 1)
  <2>1. written \in Seq(Cmds) /\ Here \in Nat /\ Wire \in Seq(Halfs) /\ Framed(Wire, written, Here)
    BY <1>0, HereNat, WireType DEF WireInv, LogOK
  <2> QED
    BY ONLY <1>1, <2>1, FramedNext
<1> QED
  BY <1>1, <1>2

LEMMA WireShrinks ==
  ASSUME TypeInv, TypeInv', WireInv, ReadCommand
  PROVE  WireInv'
<1>0. LinesOK /\ LogOK /\ LogOK' /\ LinesOK'
  BY DEF TypeInv
<1>1. UNCHANGED <<link, written, mark>> /\ line' = <<>>
  BY DEF ReadCommand
<1>2. PICK n \in 1..2, c \in Cmds :
        /\ n <= Len(toGuest) /\ line \o SubSeq(toGuest, 1, n) = Halves(<<c>>)
        /\ toGuest' = SubSeq(toGuest, n + 1, Len(toGuest)) /\ executed' = Append(executed, c)
  BY DEF ReadCommand
<1>3. /\ Here + 1 <= Len(written) /\ c = written[Here + 1]
      /\ Len(Wire) = Len(toGuest') + 2 /\ Framed(toGuest', written, Here + 1)
  BY <1>2, CommandRead
<1>4. Wire' = toGuest'
  BY <1>0, <1>1, ConcatEmptySeq DEF LinesOK, Wire
<1>5. /\ Len(executed') = Len(executed) + 1 /\ executed'[Len(executed) + 1] = c
      /\ \A i \in 1..Len(executed) : executed'[i] = executed[i]
  BY <1>0, <1>2, AppendProperties DEF LogOK
<1>6. /\ Here' = Here + 1 /\ Here \in Nat /\ mark \in Nat /\ Len(executed) \in Nat /\ Len(written) \in Nat
      /\ mark + Here = Len(executed)
  BY <1>0, <1>1, <1>5, HereNat DEF Here
<1>7. ASSUME NEW i \in 1..Here' PROVE executed'[mark' + i] = written'[i]
  <2>1. CASE i <= Here
    <3>1. mark + i \in 1..Len(executed) /\ i \in 1..Here
      BY <1>6, <2>1
    <3> QED
      BY <1>1, <1>5, <3>1 DEF WireInv
  <2>2. CASE i = Here + 1
    <3>1. mark + i = Len(executed) + 1
      BY <1>6, <2>2
    <3> QED
      BY <1>1, <1>3, <1>5, <2>2, <3>1
  <2> QED
    BY <1>6, <2>1, <2>2
<1>8. Framed(Wire, written, Here)' <=> Framed(Wire', written', Here')
  BY DEF Framed, HalfOf
<1>9. link' = "open" => Len(Wire') = 2 * (Len(written') - Here')
  <2>1. Len(toGuest') \in Nat /\ Len(Wire) \in Nat
    BY <1>0, WireType, LenProperties DEF LinesOK
  <2>2. link = "open" => Len(Wire) = 2 * (Len(written) - Here)
    BY DEF WireInv
  <2> QED
    BY <1>1, <1>3, <1>4, <1>6, <2>1, <2>2
<1>10. Framed(Wire', written', Here') /\ Here' <= Len(written')
  BY <1>1, <1>3, <1>4, <1>6
<1> QED
  BY <1>7, <1>8, <1>9, <1>10 DEF WireInv

LEMMA WireStep == TypeInv /\ TypeInv' /\ WireInv /\ [Next]_vars => WireInv'
<1> SUFFICES ASSUME TypeInv, TypeInv', WireInv, [Next]_vars PROVE WireInv'
  OBVIOUS
<1>0. /\ LinesOK /\ LogOK /\ ConnOK /\ LinesOK' /\ LogOK'
      /\ Wire \in Seq(Halfs) /\ Wire' \in Seq(Halfs) /\ Len(Wire) \in Nat
  <2>1. LinesOK /\ LogOK /\ ConnOK /\ LinesOK' /\ LogOK'
    BY DEF TypeInv
  <2>2. Wire' \in Seq(Halfs)
    BY <2>1, ConcatProperties DEF LinesOK, Wire
  <2> QED
    BY <2>1, <2>2, WireType
<1>1. CASE \E c \in Conns : HandleMetrics(c)
  BY <1>1, WireGrows
<1>2. CASE (\E c \in Conns : RejectMetrics(c)) \/ HostStop
  <2>1. UNCHANGED <<line, written, executed, mark>>
    BY <1>2 DEF RejectMetrics, HostStop
  <2>2. \/ UNCHANGED <<link, toGuest>>
        \/ link' \in {"fin", "reset"} /\ (toGuest' = toGuest \/ toGuest' \in Cut(toGuest))
    BY <1>2, Closed DEF RejectMetrics, HostStop
  <2>3. CASE toGuest' = toGuest
    <3>1. Wire' = Wire
      BY <2>1, <2>3 DEF Wire
    <3> QED
      BY <1>0, <2>1, <2>2, <3>1, WireKept
  <2>4. CASE link' \in {"fin", "reset"} /\ toGuest' \in Cut(toGuest)
    <3>1. Wire' = line \o toGuest'
      BY <2>1 DEF Wire
    <3>2. Len(Wire') <= Len(Wire) /\ \A i \in 1..Len(Wire') : Wire'[i] = Wire[i]
      BY <1>0, <2>4, <3>1, WireAfterCut
    <3> QED
      BY <1>0, <2>1, <2>4, <3>2, WireKept
  <2> QED
    BY <2>2, <2>3, <2>4
<1>3. CASE \E next, told : LeaveConnection(next, told)
  <2>1. UNCHANGED <<written, executed, mark>> /\ line' = <<>> /\ toGuest' = <<>> /\ link' = "reset"
    BY <1>3 DEF LeaveConnection
  <2>2. Wire' = <<>> /\ Len(Wire') = 0
    BY <2>1, ConcatEmptySeq, EmptySeq DEF Wire
  <2> QED
    BY <1>0, <2>1, <2>2, WireKept
<1>4. CASE \E c \in Conns : Connect(c)
  <2>1. written' = <<>> /\ mark' = Len(executed) /\ UNCHANGED executed /\ line' = <<>> /\ toGuest' = <<>>
    BY <1>4 DEF Connect
  <2>2. Wire' = <<>> /\ Len(Wire') = 0 /\ written' \in Seq(Cmds) /\ Len(written') = 0 /\ Here' = 0
    BY <1>0, <2>1, ConcatEmptySeq, EmptySeq, HereNat DEF Wire, Here
  <2>3. Framed(Wire', written', Here')
    <3>1. Framed(<<>>, written', 0)
      BY <2>2, FramedStart
    <3> QED
      BY <2>2, <3>1
  <2>4. Framed(Wire, written, Here)' <=> Framed(Wire', written', Here')
    BY DEF Framed, HalfOf
  <2> QED
    BY <2>2, <2>3, <2>4 DEF WireInv
<1>5. CASE ReadTimeout
  <2>1. Wire' = Wire /\ UNCHANGED <<link, written, executed, mark>>
    BY <1>0, <1>5, WireAfterTimeout DEF ReadTimeout
  <2> QED
    BY <1>0, <2>1, WireKept
<1>6. CASE ReadCommand
  BY <1>6, WireShrinks
<1>7. CASE UNCHANGED <<line, toGuest, link, written, executed, mark>>
  <2>1. Wire' = Wire
    BY <1>7 DEF Wire
  <2> QED
    BY <1>0, <1>7, <2>1, WireKept
<1>8. \/ \E c \in Conns : HandleMetrics(c) \/ RejectMetrics(c) \/ Connect(c)
      \/ HostStop \/ ReadTimeout \/ ReadCommand
      \/ \E next, told : LeaveConnection(next, told)
      \/ UNCHANGED <<line, toGuest, link, written, executed, mark>>
  <2>1. ConnectionLost \/ ConnectionBreaks \/ GuestStop => \E next, told : LeaveConnection(next, told)
    BY DEF ConnectionLost, ConnectionBreaks, GuestStop
  <2> QED
    BY <2>1
       DEF Next, GuestLoop, Handler, HandleResult, HandlerEnds, HostStart, AttemptFails, ConnectElsewhere,
           LeaveElsewhere, OtherProgram, SendMetrics, Respond, GuestStart, Reloads, vars, sessionVars
<1> QED
  BY <1>1, <1>2, <1>3, <1>4, <1>5, <1>6, <1>7, <1>8

LEMMA WireInit == Init => WireInv
<1> SUFFICES ASSUME Init PROVE WireInv
  OBVIOUS
<1>1. written \in Seq(Cmds) /\ Len(written) = 0 /\ Here = 0
  BY EmptySeq DEF Init, Here
<1>2. Wire = <<>> /\ Len(Wire) = 0
  BY ConcatEmptySeq, EmptySeq DEF Init, Wire
<1>3. Framed(<<>>, written, 0)
  BY <1>1, FramedStart
<1>4. Framed(Wire, written, Here)
  BY <1>1, <1>2, <1>3
<1> QED
  BY <1>1, <1>2, <1>4 DEF WireInv

LEMMA WireHolds == Spec => [](TypeInv /\ WireInv)
BY TypeHolds, WireInit, WireStep, PTL DEF Spec

\* The invariant in the terms of the property.
LEMMA WireIsFramed ==
  ASSUME TypeInv, WireInv, link = "open"
  PROVE  LET rest == SubSeq(written, Here + 1, Len(written))
         IN  /\ Here + 1 \in 1..Len(written) + 1
             /\ written = ExecutedHere \o rest
             /\ Wire = Halves(rest)
<1> DEFINE rest == SubSeq(written, Here + 1, Len(written))
           done == SubSeq(written, 1, Here)
<1>0. LinesOK /\ LogOK
  BY DEF TypeInv
<1>1. /\ Here \in Nat /\ Len(written) \in Nat /\ Len(executed) \in Nat /\ mark \in Nat
      /\ Here \in 0..Len(written) /\ mark \in 0..Len(executed) /\ Here = Len(executed) - mark
  BY <1>0, HereNat DEF WireInv, Here
<1>2. /\ rest \in Seq(Cmds) /\ Len(rest) = Len(written) - Here
      /\ \A i \in 1..Len(written) - Here : rest[i] = written[Here + i]
      /\ done \in Seq(Cmds) /\ Len(done) = Here /\ \A i \in 1..Here : done[i] = written[i]
  BY <1>0, <1>1, Parts DEF LogOK
<1>3. /\ ExecutedHere \in Seq(Cmds) /\ Len(ExecutedHere) = Here
      /\ \A i \in 1..Here : ExecutedHere[i] = executed[mark + i]
  <2>1. /\ ExecutedHere \in Seq(Cmds) /\ Len(ExecutedHere) = Len(executed) - mark
        /\ \A i \in 1..Len(executed) - mark : ExecutedHere[i] = executed[mark + i]
    BY <1>0, <1>1, Parts DEF LogOK, ExecutedHere
  <2> QED
    BY <1>1, <2>1
<1>4. ExecutedHere = done
  <2>1. \A i \in 1..Here : ExecutedHere[i] = done[i]
    BY <1>2, <1>3 DEF WireInv
  <2> HIDE DEF done
  <2> QED
    BY <1>2, <1>3, <2>1, SeqEqual
<1>5. written = done \o rest
  <2>1. SubSeq(written, 1, Here) \o SubSeq(written, Here + 1, Len(written)) = SubSeq(written, 1, Len(written))
    <3>1. 1 \in 1..Len(written) + 1 /\ Here \in 1 - 1..Len(written) /\ Len(written) \in Here..Len(written)
      BY <1>1
    <3> QED
      BY <1>0, <3>1, ConcatAdjacentSubSeq DEF LogOK
  <2> QED
    BY <1>0, <2>1, SubSeqFull DEF LogOK
<1>6. Wire = Halves(rest)
  <2> DEFINE n == Len(written) - Here
             h == [k \in 1..2 * n |-> <<rest[(k + 1) \div 2], IF k % 2 = 1 THEN "begin" ELSE "end">>]
  <2>1. n \in Nat /\ Halves(rest) = h
    BY <1>1, <1>2 DEF Halves
  <2>2. ASSUME NEW k \in 1..2 * n
        PROVE  h[k] = HalfOf(written, Here, k) /\ HalfOf(written, Here, k) \in Halfs
    <3>1. (k + 1) \div 2 \in 1..n
      BY <2>1
    <3>2. rest[(k + 1) \div 2] = written[Here + (k + 1) \div 2] /\ rest[(k + 1) \div 2] \in Cmds
      BY <1>2, <3>1, ElementOfSeq
    <3> QED
      BY <3>2 DEF HalfOf, Halfs
  <2>3. h \in [1..2 * n -> Halfs]
    BY <2>2
  <2>4. 2 * n \in Nat
    BY <2>1
  <2> HIDE DEF h
  <2>5. h \in Seq(Halfs) /\ Len(h) = 2 * n
    BY <2>3, <2>4, FunctionIsSeq
  <2>6. Wire \in Seq(Halfs) /\ Len(Wire) = 2 * n /\ \A k \in 1..2 * n : Wire[k] = HalfOf(written, Here, k)
    BY <1>0, WireType DEF WireInv, Framed
  <2>7. \A k \in 1..Len(Wire) : Wire[k] = h[k]
    BY <2>2, <2>6
  <2>8. Wire = h
    BY <2>5, <2>6, <2>7, SeqEqual
  <2> QED
    BY <2>1, <2>8
<1> HIDE DEF rest, done
<1>7. Here + 1 \in 1..Len(written) + 1 /\ written = ExecutedHere \o rest
  BY <1>1, <1>4, <1>5
<1> QED
  BY <1>6, <1>7 DEF rest

(* No timeout in the middle of a line, no queue of lines and no result in    *)
(* between makes the guest skip, repeat or garble a command: while a         *)
(* connection is open, what was executed and what is on the wire together    *)
(* are what was written.                                                     *)
THEOREM NoneSkipped == Spec => []NothingSkipped
<1>1. TypeInv /\ WireInv => NothingSkipped
  <2> SUFFICES ASSUME TypeInv, WireInv, link = "open"
               PROVE  \E rest \in {SubSeq(written, i, Len(written)) : i \in 1..Len(written) + 1} :
                        /\ written = ExecutedHere \o rest
                        /\ line \o toGuest = Halves(rest)
    BY DEF NothingSkipped
  <2>1. Here + 1 \in 1..Len(written) + 1
    BY WireIsFramed
  <2>2. SubSeq(written, Here + 1, Len(written)) \in {SubSeq(written, i, Len(written)) : i \in 1..Len(written) + 1}
    BY <2>1
  <2> QED
    BY <2>2, WireIsFramed DEF Wire
<1> QED
  BY <1>1, WireHolds, PTL

-----------------------------------------------------------------------------
\* At most once.

Ascending(s) == \A i, j \in 1..Len(s) : i < j => s[i] < s[j]

(* Commands are numbered as they are decided.  They are written and executed *)
(* in that order; what a new connection brings comes after all that earlier  *)
(* ones did.                                                                 *)
OrderInv ==
  /\ Ascending(executed) /\ Ascending(written)
  /\ \A i \in 1..mark, j \in 1..Len(written) : executed[i] < written[j]
  /\ \A i \in 1..Len(executed) : executed[i] <= issued
  /\ \A i \in 1..Len(written) : written[i] <= issued

\* The steps that bear on the order: a command is written, and one is executed.
LEMMA LogSteps ==
  ASSUME TypeInv, WireInv, [Next]_vars
  PROVE  \/ /\ UNCHANGED <<executed, mark>> /\ issued < MaxCmds /\ issued' = issued + 1
            /\ UNCHANGED written \/ written' = Append(written, issued')
         \/ UNCHANGED <<issued, executed>> /\ written' = <<>> /\ mark' = Len(executed)
         \/ /\ UNCHANGED <<issued, written, mark>>
            /\ Here + 1 <= Len(written) /\ written[Here + 1] \in Cmds
            /\ executed' = Append(executed, written[Here + 1])
         \/ UNCHANGED <<issued, written, executed, mark>>
<1>1. CASE ReadCommand
  <2>1. PICK n \in 1..2, c \in Cmds :
          /\ n <= Len(toGuest) /\ line \o SubSeq(toGuest, 1, n) = Halves(<<c>>)
          /\ executed' = Append(executed, c)
    BY <1>1 DEF ReadCommand
  <2>2. Here + 1 <= Len(written) /\ c = written[Here + 1]
    BY <2>1, CommandRead
  <2> QED
    BY <1>1, <2>1, <2>2 DEF ReadCommand
<1>2. CASE \E c \in Conns : HandleMetrics(c)
  BY <1>2 DEF HandleMetrics
<1>3. CASE \E c \in Conns : Connect(c)
  BY <1>3 DEF Connect
<1>4. \/ \E c \in Conns : HandleMetrics(c) \/ Connect(c)
      \/ ReadCommand
      \/ UNCHANGED <<issued, written, executed, mark>>
  BY DEF Next, GuestLoop, Handler, RejectMetrics, HandleResult, HandlerEnds, HostStop, HostStart,
         AttemptFails, ConnectElsewhere, LeaveElsewhere, OtherProgram, SendMetrics, ReadTimeout, Respond,
         ConnectionLost, ConnectionBreaks, GuestStop, LeaveConnection, GuestStart, Reloads,
         vars, sessionVars
<1> QED
  BY <1>1, <1>2, <1>3, <1>4

\* The command that is executed next is later than all that were.
LEMMA NextIsNew ==
  ASSUME TypeInv, WireInv, OrderInv, Here + 1 <= Len(written), NEW i \in 1..Len(executed)
  PROVE  executed[i] < written[Here + 1]
<1>1. /\ Here \in Nat /\ Len(written) \in Nat /\ Len(executed) \in Nat /\ mark \in Nat
      /\ Here = Len(executed) - mark
  BY HereNat DEF TypeInv, Here
<1>2. CASE i <= mark
  BY <1>1, <1>2 DEF OrderInv
<1>3. CASE i > mark
  <2>1. i - mark \in 1..Here /\ mark + (i - mark) = i
    BY <1>1, <1>3
  <2>2. executed[i] = written[i - mark]
    <3>1. executed[mark + (i - mark)] = written[i - mark]
      BY <2>1 DEF WireInv
    <3> QED
      BY <2>1, <3>1
  <2>3. i - mark \in 1..Len(written) /\ Here + 1 \in 1..Len(written) /\ i - mark < Here + 1
    BY <1>1, <2>1
  <2>4. written[i - mark] < written[Here + 1]
    BY <2>3 DEF OrderInv, Ascending
  <2> QED
    BY <2>2, <2>4
<1> QED
  BY <1>1, <1>2, <1>3

LEMMA AscendingAppend ==
  ASSUME NEW s \in Seq(Cmds), NEW c \in Cmds, Ascending(s), \A i \in 1..Len(s) : s[i] < c
  PROVE  Ascending(Append(s, c))
<1>1. /\ Len(s) \in Nat /\ Len(Append(s, c)) = Len(s) + 1 /\ Append(s, c)[Len(s) + 1] = c
      /\ \A i \in 1..Len(s) : Append(s, c)[i] = s[i]
  BY LenProperties, AppendProperties
<1> QED
  BY <1>1 DEF Ascending

LEMMA OrderStep == TypeInv /\ WireInv /\ OrderInv /\ [Next]_vars => OrderInv'
<1> SUFFICES ASSUME TypeInv, WireInv, OrderInv, [Next]_vars PROVE OrderInv'
  OBVIOUS
<1>0. /\ issued \in Nat /\ written \in Seq(Cmds) /\ executed \in Seq(Cmds)
      /\ Len(written) \in Nat /\ Len(executed) \in Nat /\ mark \in 0..Len(executed) /\ MaxCmds \in Nat
      /\ \A i \in 1..Len(written) : written[i] \in Cmds
      /\ \A i \in 1..Len(executed) : executed[i] \in Cmds
  BY HereNat, SessionBounds, ElementOfSeq DEF TypeInv, LogOK
<1>1. CASE /\ UNCHANGED <<executed, mark>> /\ issued < MaxCmds /\ issued' = issued + 1
           /\ UNCHANGED written \/ written' = Append(written, issued')
  <2>1. Ascending(executed') /\ \A i \in 1..Len(executed') : executed'[i] <= issued'
    BY <1>0, <1>1 DEF OrderInv, Cmds
  <2>2. CASE UNCHANGED written
    <3>1. \A i \in 1..Len(written') : written'[i] <= issued'
      BY <1>0, <1>1, <2>2 DEF OrderInv, Cmds
    <3> QED
      BY <1>1, <2>1, <2>2, <3>1 DEF OrderInv, Ascending
  <2>3. CASE written' = Append(written, issued')
    <3>1. issued' \in Cmds
      BY <1>0, <1>1 DEF Cmds
    <3>2. /\ Len(written') = Len(written) + 1 /\ written'[Len(written) + 1] = issued'
          /\ \A i \in 1..Len(written) : written'[i] = written[i]
      BY <1>0, <2>3, <3>1, AppendProperties
    <3>3. \A i \in 1..Len(written) : written[i] < issued'
      BY <1>0, <1>1 DEF OrderInv, Cmds
    <3>4. Ascending(written')
      BY <1>0, <2>3, <3>1, <3>3, AscendingAppend DEF OrderInv
    <3>5. ASSUME NEW i \in 1..Len(written') PROVE written'[i] <= issued'
      <4>1. i \in 1..Len(written) \/ i = Len(written) + 1
        BY <1>0, <3>2
      <4>2. CASE i \in 1..Len(written)
        <5>1. written'[i] \in Nat /\ written'[i] < issued'
          BY <1>0, <3>2, <3>3, <4>2 DEF Cmds
        <5> QED
          BY <1>0, <1>1, <5>1
      <4> QED
        BY <1>0, <1>1, <3>2, <4>1, <4>2
    <3>6. \A i \in 1..mark, j \in 1..Len(written') : executed[i] < written'[j]
      <4>1. ASSUME NEW i \in 1..mark PROVE executed[i] < issued'
        <5>1. i \in 1..Len(executed)
          BY <1>0
        <5>2. executed[i] \in Nat /\ executed[i] <= issued
          BY <1>0, <5>1 DEF OrderInv, Cmds
        <5> QED
          BY <1>0, <1>1, <5>2
      <4>2. ASSUME NEW i \in 1..mark, NEW j \in 1..Len(written') PROVE executed[i] < written'[j]
        <5>1. j \in 1..Len(written) \/ j = Len(written) + 1
          BY <1>0, <3>2
        <5> QED
          BY <3>2, <4>1, <5>1 DEF OrderInv
      <4> QED
        BY <4>2
    <3> QED
      BY <1>1, <2>1, <3>4, <3>5, <3>6 DEF OrderInv, Ascending
  <2> QED
    BY <1>1, <2>2, <2>3
<1>2. CASE UNCHANGED <<issued, executed>> /\ written' = <<>> /\ mark' = Len(executed)
  <2>1. Len(written') = 0
    BY <1>2, EmptySeq
  <2> QED
    BY <1>2, <2>1 DEF OrderInv, Ascending
<1>3. CASE /\ UNCHANGED <<issued, written, mark>>
           /\ Here + 1 <= Len(written) /\ written[Here + 1] \in Cmds
           /\ executed' = Append(executed, written[Here + 1])
  <2> DEFINE c == written[Here + 1]
  <2>1. /\ Len(executed') = Len(executed) + 1 /\ executed'[Len(executed) + 1] = c
        /\ \A i \in 1..Len(executed) : executed'[i] = executed[i]
    BY <1>0, <1>3, AppendProperties
  <2>2. \A i \in 1..Len(executed) : executed[i] < c
    BY <1>3, NextIsNew
  <2>3. c <= issued
    <3>1. Here + 1 \in 1..Len(written)
      BY <1>0, <1>3, HereNat DEF TypeInv
    <3> QED
      BY <3>1 DEF OrderInv
  <2>4. Ascending(executed')
    BY <1>0, <1>3, <2>2, AscendingAppend DEF OrderInv
  <2> HIDE DEF c
  <2>5. \A i \in 1..Len(executed') : executed'[i] <= issued
    BY <1>0, <2>1, <2>3 DEF OrderInv
  <2>6. \A i \in 1..mark, j \in 1..Len(written) : executed'[i] < written[j]
    BY <1>0, <2>1 DEF OrderInv
  <2> QED
    BY <1>3, <2>4, <2>5, <2>6 DEF OrderInv, Ascending
<1>4. CASE UNCHANGED <<issued, written, executed, mark>>
  BY <1>4 DEF OrderInv, Ascending
<1> QED
  BY <1>1, <1>2, <1>3, <1>4, LogSteps

LEMMA DeliveryStep ==
  TypeInv /\ WireInv /\ OrderInv /\ [Next]_vars => [Delivery!Next]_<<issued, executed>>
<1> SUFFICES ASSUME TypeInv, WireInv, OrderInv, [Next]_vars
             PROVE  [Delivery!Next]_<<issued, executed>>
  OBVIOUS
<1>1. CASE issued < MaxCmds /\ issued' = issued + 1 /\ UNCHANGED executed
  BY <1>1 DEF Delivery!Next, Delivery!Decide
<1>2. CASE /\ UNCHANGED issued
           /\ Here + 1 <= Len(written) /\ written[Here + 1] \in Cmds
           /\ executed' = Append(executed, written[Here + 1])
  <2>1. Len(written) \in Nat /\ Len(executed) \in Nat /\ Here \in Nat
    BY HereNat DEF TypeInv
  <2>2. written[Here + 1] <= issued
    BY <1>2, <2>1 DEF OrderInv
  <2>3. ASSUME NEW i \in 1..Len(executed) PROVE executed[i] # written[Here + 1]
    <3>1. executed[i] < written[Here + 1]
      BY <1>2, NextIsNew
    <3>2. executed[i] \in Cmds
      BY ElementOfSeq DEF TypeInv, LogOK
    <3>3. executed[i] \in Nat
      BY <3>2 DEF Cmds
    <3> QED
      BY <3>1, <3>3
  <2>4. \E c \in 1..MaxCmds :
          /\ c <= issued /\ UNCHANGED issued
          /\ \A i \in 1..Len(executed) : executed[i] # c
          /\ executed' = Append(executed, c)
    BY <1>2, <2>2, <2>3 DEF Cmds
  <2> QED
    BY <2>4 DEF Delivery!Next, Delivery!TakeEffect
<1>3. CASE UNCHANGED <<issued, executed>>
  BY <1>3
<1> QED
  BY <1>1, <1>2, <1>3, LogSteps

(* THEOREM (at most once): the TCP session implements CommandDelivery with   *)
(* no cache and no condition: whatever breaks, stops or is edited, a command *)
(* takes effect at most once, and only after it was decided.                 *)
THEOREM TcpDeliversOnce == Spec => TcpAtMostOnce
<1>1. Init => OrderInv /\ Delivery!Init
  <2> SUFFICES ASSUME Init PROVE OrderInv /\ Delivery!Init
    OBVIOUS
  <2>1. Len(written) = 0 /\ Len(executed) = 0 /\ mark = 0
    BY EmptySeq DEF Init
  <2> QED
    BY <2>1 DEF Init, OrderInv, Ascending, Delivery!Init
<1>2. TypeInv /\ WireInv /\ OrderInv /\ [Next]_vars => OrderInv'
  BY OrderStep
<1>3. TypeInv /\ WireInv /\ OrderInv /\ [Next]_vars => [Delivery!Next]_<<issued, executed>>
  BY DeliveryStep
<1> QED
  BY <1>1, <1>2, <1>3, WireHolds, PTL DEF Spec, TcpAtMostOnce, Delivery!Spec
=============================================================================
