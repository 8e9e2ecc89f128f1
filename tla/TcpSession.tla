----------------------------- MODULE TcpSession -----------------------------
(***************************************************************************)
(* The TCP fallback: the guest's connection loop (src/src/bin/guest.rs,    *)
(* run_tcp_loop and the loop around it in main) and the host's server,     *)
(* which gives every connection a task and a reclaimer of its own          *)
(* (src/src/bin/host/main.rs, run_server and handle_connection_elastic).   *)
(*                                                                         *)
(* Messages are lines.  What the guest writes arrives as whole lines: its  *)
(* partial reads have no counterpart on the host, which waits for the end  *)
(* of a line without a timeout.  A command is kept as two halves, because  *)
(* the guest's wait of a second may end with half a line read.             *)
(* handle_command_cached finds nothing in its cache here: commands differ  *)
(* and none is sent twice.                                                 *)
(***************************************************************************)
EXTENDS RuntimeToken, MultiPathConnector, FiniteSets

CONSTANTS
  MaxCmds,    \* bound on commands the host decides
  MaxLag,     \* bound on lines the host has not read yet
  MaxConns    \* connections that exist at once, half-open ones included

ASSUME SessionBounds == MaxCmds \in Nat /\ MaxLag \in Nat \ {0} /\ MaxConns \in Nat \ {0}

VARIABLES
  hostUp,     \* whether the host's server listens
  hostPort,   \* its port
  others,     \* ports of the gateway on which another program accepts
  attempt,    \* guest: the target connect tries, and the retry
  handler,    \* the connections that have a handle_connection_elastic task
  left,       \* the connections whose end the guest has closed
  toHost,     \* per connection: lines the handler has yet to read
  toGuest,    \* on the guest's connection: halves of lines the guest has yet to read
  link,       \* the host's end of it: "open", "fin" after a close, "reset"
  pc,         \* guest: where its connection loop stands
  conn,       \* guest: its connection
  line,       \* guest: buf, the part of a line read so far
  issued,     \* commands decided by the host
  written,    \* history variable: commands written to the guest's connection
  executed,   \* history variable: commands executed, in order
  mark        \* history variable: executions before this connection

pathVars == <<hostPort, others, attempt>>
sessionVars == <<hostUp, pathVars, handler, left, toHost, toGuest, link, pc, conn, line,
                 issued, written, executed, mark>>
vars == <<tokenVars, sessionVars>>

Conns == 1..MaxConns
Cmds == 1..MaxCmds
NoConn == 0
GatewayPorts == {Ports[i] : i \in 1..Len(Ports)}
Trusted == <<files, hostCfg, hostBase, locked, htoken, guestCfg, gtoken>>
InSession == pc \in {"send", "read", "exec"}

Metrics(t) == [type |-> "metrics", token |-> t]
Result == [type |-> "result", token |-> None]

\* The lines of the commands s on the wire: the second half ends the line.
Halves(s) == [i \in 1..2 * Len(s) |-> <<s[(i + 1) \div 2], IF i % 2 = 1 THEN "begin" ELSE "end">>]

\* A cut connection may still have delivered any part of what was on its way.
Cut(s) == {SubSeq(s, 1, i) : i \in 0..Len(s)}

-----------------------------------------------------------------------------
Init ==
  /\ TokenInit
  /\ hostUp \in BOOLEAN /\ hostPort = Ports[1] /\ others = {} /\ attempt = FirstAttempt
  /\ handler = {} /\ left = {}
  /\ toHost = [c \in Conns |-> <<>>]
  /\ toGuest = <<>> /\ link = "reset"
  /\ pc = "connect" /\ conn = NoConn /\ line = <<>>
  /\ issued = 0 /\ written = <<>> /\ executed = <<>> /\ mark = 0

-----------------------------------------------------------------------------
\* Host.

\* validate_token: a host without a token lets every message pass.
ValidToken(t) == htoken = None \/ t = htoken

(* A handler returns and drops its stream.  Lines it has not read turn the   *)
(* close into a reset, which may overtake commands still on their way.       *)
Close(c, unread) ==
  IF c # conn THEN UNCHANGED <<link, toGuest>>
  ELSE \/ link' = "fin" /\ UNCHANGED toGuest
       \/ unread # <<>> /\ link' = "reset" /\ toGuest' \in Cut(toGuest)

(* A metrics line with a valid token: the connection's reclaimer may decide  *)
(* a command, which is written once.  On a connection that the guest has     *)
(* left, the command is lost.                                                *)
HandleMetrics(c) ==
  /\ c \in handler /\ toHost[c] # <<>>
  /\ Head(toHost[c]).type = "metrics" /\ ValidToken(Head(toHost[c]).token)
  /\ toHost' = [toHost EXCEPT ![c] = Tail(@)]
  /\ \/ UNCHANGED <<issued, toGuest, written>>
     \/ /\ issued < MaxCmds
        /\ issued' = issued + 1
        /\ IF c = conn
           THEN /\ toGuest' = toGuest \o Halves(<<issued'>>)
                /\ written' = Append(written, issued')
           ELSE UNCHANGED <<toGuest, written>>
  /\ UNCHANGED <<tokenVars, pathVars, hostUp, handler, left, link, pc, conn, line, executed, mark>>

\* Mutant: the handler returns and leaves the connection open.
RejectMetricsOpen(c) ==
  /\ c \in handler /\ toHost[c] # <<>>
  /\ Head(toHost[c]).type = "metrics" /\ ~ValidToken(Head(toHost[c]).token)
  /\ toHost' = [toHost EXCEPT ![c] = <<>>]
  /\ handler' = handler \ {c} /\ left' = left \ {c}
  /\ UNCHANGED <<tokenVars, pathVars, hostUp, link, toGuest, pc, conn, line, issued, written, executed, mark>>

\* A token that does not match ends the connection.
RejectMetrics(c) ==
  /\ c \in handler /\ toHost[c] # <<>>
  /\ Head(toHost[c]).type = "metrics" /\ ~ValidToken(Head(toHost[c]).token)
  /\ Close(c, Tail(toHost[c]))
  /\ toHost' = [toHost EXCEPT ![c] = <<>>]
  /\ handler' = handler \ {c} /\ left' = left \ {c}
  /\ UNCHANGED <<tokenVars, pathVars, hostUp, pc, conn, line, issued, written, executed, mark>>

\* A result is only logged.
HandleResult(c) ==
  /\ c \in handler /\ toHost[c] # <<>> /\ Head(toHost[c]).type = "result"
  /\ toHost' = [toHost EXCEPT ![c] = Tail(@)]
  /\ UNCHANGED <<tokenVars, pathVars, hostUp, handler, left, toGuest, link, pc, conn, line,
                 issued, written, executed, mark>>

(* A handler without a guest ends: it reads the end of the stream, once the  *)
(* guest's close has arrived, or a write fails.                              *)
HandlerEnds(c) ==
  /\ c \in handler \ {conn}
  /\ toHost' = [toHost EXCEPT ![c] = <<>>]
  /\ handler' = handler \ {c} /\ left' = left \ {c}
  /\ UNCHANGED <<tokenVars, pathVars, hostUp, toGuest, link, pc, conn, line,
                 issued, written, executed, mark>>

(* The server ends and its tasks with it: it is stopped, it crashes, or      *)
(* accept returns an error, which run_server passes on.                      *)
HostStop ==
  /\ hostUp /\ Disturb
  /\ hostUp' = FALSE
  /\ IF conn \in handler THEN Close(conn, toHost[conn]) ELSE UNCHANGED <<link, toGuest>>
  /\ handler' = {} /\ left' = {}
  /\ toHost' = [c \in Conns |-> <<>>]
  /\ UNCHANGED Trusted
  /\ UNCHANGED <<pathVars, pc, conn, line, issued, written, executed, mark>>

\* With a port somebody set, or chose for it; it fails to bind a busy one.
HostStart ==
  /\ ~hostUp /\ HostLoad
  /\ hostUp' = TRUE
  /\ hostPort' \in GatewayPorts \ others
  /\ UNCHANGED <<others, attempt, handler, left, toHost, toGuest, link, pc, conn, line,
                 issued, written, executed, mark>>

-----------------------------------------------------------------------------
\* Guest.

Target == GuestTargets[attempt.target]

\* Whether the target is the port p of the Windows host.
Reaches(p) == Target.host = Gateway /\ Target.port = p

(* The target of the attempt accepts and run_tcp_loop starts with empty      *)
(* buffers.                                                                  *)
Connect(c) ==
  /\ pc = "connect" /\ hostUp /\ Reaches(hostPort)
  /\ c \notin handler /\ \A d \in 1..c - 1 : d \in handler
  /\ pc' = "send" /\ conn' = c /\ line' = <<>>
  /\ attempt' = FirstAttempt
  /\ handler' = handler \union {c} /\ link' = "open"
  /\ toHost' = [toHost EXCEPT ![c] = <<>>] /\ toGuest' = <<>>
  /\ written' = <<>> /\ mark' = Len(executed)
  /\ UNCHANGED <<tokenVars, hostUp, hostPort, others, left, issued, executed>>

\* Nobody accepts there: connect goes on to its next attempt.
AttemptFails ==
  /\ pc = "connect"
  /\ ~(hostUp /\ Reaches(hostPort)) /\ \A p \in others : ~Reaches(p)
  /\ attempt' = NextAttempt(attempt)
  /\ UNCHANGED <<tokenVars, hostUp, hostPort, others, handler, left, toHost, toGuest,
                 link, pc, conn, line, issued, written, executed, mark>>

(* Another program accepts: the guest takes it for its host and sends its    *)
(* metrics there, until that program closes the connection or ends.          *)
ConnectElsewhere ==
  /\ pc = "connect" /\ \E p \in others : Reaches(p)
  /\ pc' = "elsewhere"
  /\ UNCHANGED <<tokenVars, pathVars, hostUp, handler, left, toHost, toGuest,
                 link, conn, line, issued, written, executed, mark>>

LeaveElsewhere ==
  /\ pc = "elsewhere"
  /\ pc' = "connect" /\ attempt' = FirstAttempt
  /\ UNCHANGED <<tokenVars, hostUp, hostPort, others, handler, left, toHost, toGuest,
                 link, conn, line, issued, written, executed, mark>>

\* Other programs come and go.
OtherProgram ==
  /\ \/ Disturb /\ \E p \in GatewayPorts \ others :
          ~(hostUp /\ p = hostPort) /\ others' = others \union {p}
     \/ (\E p \in others : others' = others \ {p}) /\ UNCHANGED changes
  /\ UNCHANGED <<Trusted, hostUp, hostPort, attempt, handler, left, toHost, toGuest,
                 link, pc, conn, line, issued, written, executed, mark>>

(* A metrics line with the token of this moment.  Without a token the loop   *)
(* waits here; a first write after the host has closed still succeeds.       *)
SendMetrics ==
  /\ pc = "send" /\ gtoken # None /\ link # "reset"
  /\ pc' = "read"
  /\ IF link = "open"
     THEN Len(toHost[conn]) < MaxLag /\ toHost' = [toHost EXCEPT ![conn] = Append(@, Metrics(gtoken))]
     ELSE UNCHANGED toHost
  /\ UNCHANGED <<tokenVars, pathVars, hostUp, handler, left, toGuest, link, conn, line,
                 issued, written, executed, mark>>

\* Mutant: what was read of a line is thrown away when the second is over.
ReadTimeoutClears ==
  /\ pc = "read"
  /\ pc' = "send"
  /\ \/ UNCHANGED <<line, toGuest>>
     \/ /\ toGuest # <<>> /\ Head(toGuest)[2] = "begin"
        /\ line' = <<>> /\ toGuest' = Tail(toGuest)
  /\ UNCHANGED <<tokenVars, pathVars, hostUp, handler, left, toHost, link, conn,
                 issued, written, executed, mark>>

(* A second passes without the end of a line, or the read fails: half a line *)
(* that has arrived stays in buf.                                            *)
ReadTimeout ==
  /\ pc = "read"
  /\ pc' = "send"
  /\ \/ UNCHANGED <<line, toGuest>>
     \/ /\ toGuest # <<>> /\ Head(toGuest)[2] = "begin"
        /\ line' = Append(line, Head(toGuest)) /\ toGuest' = Tail(toGuest)
  /\ UNCHANGED <<tokenVars, pathVars, hostUp, handler, left, toHost, link, conn,
                 issued, written, executed, mark>>

(* A line is complete: its command takes effect, then the rest follows.  One *)
(* line is read per metrics line, however many have arrived.                 *)
ReadCommand ==
  /\ pc = "read"
  /\ \E n \in 1..2, c \in Cmds :
       /\ n <= Len(toGuest)
       /\ line \o SubSeq(toGuest, 1, n) = Halves(<<c>>)
       /\ toGuest' = SubSeq(toGuest, n + 1, Len(toGuest))
       /\ executed' = Append(executed, c)
  /\ line' = <<>>
  /\ pc' = "exec"
  /\ UNCHANGED <<tokenVars, pathVars, hostUp, handler, left, toHost, link, conn, issued, written, mark>>

\* Mutant: the command runs again when its result cannot be written.
RespondAgain ==
  /\ pc = "exec"
  /\ IF link = "open"
     THEN pc' = "send" /\ toHost' = [toHost EXCEPT ![conn] = Append(@, Result)] /\ UNCHANGED executed
     ELSE pc' = "send" /\ executed' = Append(executed, executed[Len(executed)]) /\ UNCHANGED toHost
  /\ UNCHANGED <<tokenVars, pathVars, hostUp, handler, left, toGuest, link, conn, line,
                 issued, written, mark>>

\* The result is written; whether that succeeds is not looked at.
Respond ==
  /\ pc = "exec"
  /\ pc' = "send"
  /\ toHost' = IF link = "open" THEN [toHost EXCEPT ![conn] = Append(@, Result)] ELSE toHost
  /\ UNCHANGED <<tokenVars, pathVars, hostUp, handler, left, toGuest, link, conn, line,
                 issued, written, executed, mark>>

(* The guest's end is closed.  The host learns of it (told) unless the       *)
(* network or the VM died, which leaves the connection half-open.            *)
LeaveConnection(next, told) ==
  /\ told \/ Cardinality(handler \ left) < MaxConns
  /\ pc' = next /\ conn' = NoConn
  /\ line' = <<>> /\ toGuest' = <<>> /\ link' = "reset"
  /\ left' = IF told /\ conn \in handler THEN left \union {conn} ELSE left
  /\ attempt' = FirstAttempt
  /\ UNCHANGED <<hostUp, hostPort, others, handler, toHost, issued, written, executed, mark>>

\* A write fails, or the end of the stream is read: run_tcp_loop returns.
ConnectionLost ==
  /\ \/ pc = "send" /\ link # "open" /\ gtoken # None
     \/ pc = "read" /\ link = "fin" /\ toGuest = <<>>
  /\ LeaveConnection("connect", TRUE)
  /\ UNCHANGED tokenVars

\* The metrics cannot be collected, or the network breaks the connection.
ConnectionBreaks ==
  /\ InSession /\ Disturb
  /\ \E told \in BOOLEAN : LeaveConnection("connect", told)
  /\ UNCHANGED Trusted

\* The guest's process ends anywhere, or the VM with it.
GuestStop ==
  /\ pc # "down" /\ Disturb
  /\ \E told \in BOOLEAN : LeaveConnection("down", told)
  /\ UNCHANGED Trusted

\* systemd starts it again; with a broken configuration it exits at once.
GuestStart ==
  /\ pc = "down" /\ GuestLoad
  /\ pc' = "connect"
  /\ UNCHANGED <<pathVars, hostUp, handler, left, toHost, toGuest, link, conn, line,
                 issued, written, executed, mark>>

-----------------------------------------------------------------------------
Handler(c) == HandleMetrics(c) \/ RejectMetrics(c) \/ HandleResult(c)

GuestLoop ==
  \/ (\E c \in Conns : Connect(c)) \/ AttemptFails \/ ConnectElsewhere
  \/ SendMetrics \/ ReadTimeout \/ ReadCommand \/ Respond \/ ConnectionLost

Reloads ==
  /\ \/ hostUp /\ HostReload
     \/ pc # "down" /\ GuestReload
  /\ UNCHANGED sessionVars

Next ==
  \/ \E c \in Conns : Handler(c) \/ HandlerEnds(c)
  \/ GuestLoop
  \/ Reloads
  \/ HostStop \/ HostStart \/ OtherProgram \/ LeaveElsewhere
  \/ ConnectionBreaks \/ GuestStop \/ GuestStart
  \/ Edits /\ UNCHANGED sessionVars

Spec == Init /\ [][Next]_vars

(* The loops and the handlers are tasks of a running runtime; what has       *)
(* arrived is read in the end, though a read may time out before; systemd    *)
(* starts the guest again.  Nothing is assumed of the host being started.    *)
Fairness ==
  /\ WF_vars(GuestLoop)
  /\ SF_vars(ReadCommand) /\ SF_vars(ConnectionLost)
  /\ \A c \in Conns : WF_vars(Handler(c)) /\ WF_vars(c \in left /\ HandlerEnds(c))
  /\ WF_vars(hostUp /\ HostReload /\ UNCHANGED sessionVars)
  /\ WF_vars(pc # "down" /\ GuestReload /\ UNCHANGED sessionVars)
  /\ WF_vars(GuestStart)
  /\ WF_vars((\A p \in others : ~Reaches(p)) /\ LeaveElsewhere)

FairSpec == Spec /\ Fairness

-----------------------------------------------------------------------------
Halfs == Cmds \X {"begin", "end"}

TypeOK ==
  /\ TokenTypeOK
  /\ hostUp \in BOOLEAN /\ hostPort \in GatewayPorts
  /\ others \subseteq GatewayPorts
  /\ hostUp => hostPort \notin others
  /\ attempt \in Attempts
  /\ handler \subseteq Conns /\ left \subseteq handler
  /\ toHost \in [Conns -> Seq([type : {"metrics", "result"}, token : Tokens \union {None}])]
  /\ toGuest \in Seq(Halfs) /\ line \in Seq(Halfs)
  /\ link \in {"open", "fin", "reset"}
  /\ pc \in {"down", "connect", "elsewhere", "send", "read", "exec"}
  /\ conn \in Conns \union {NoConn}
  /\ InSession <=> conn # NoConn
  /\ link = "open" <=> conn \in handler \ left
  /\ issued \in 0..MaxCmds
  /\ written \in Seq(Cmds) /\ executed \in Seq(Cmds)
  /\ mark \in 0..Len(executed)

ExecutedHere == SubSeq(executed, mark + 1, Len(executed))

(* Framing: while a connection is open, the commands written to it are those *)
(* executed since it began followed by those still on the wire or in buf, in *)
(* order.  Timeouts in the middle of a line, lines that queue up and results *)
(* in between skip, repeat or garble none (run_tcp_loop keeps buf over a     *)
(* timeout and clears it after a line).                                      *)
NothingSkipped ==
  link = "open" =>
    \E rest \in {SubSeq(written, i, Len(written)) : i \in 1..Len(written) + 1} :
      /\ written = ExecutedHere \o rest
      /\ line \o toGuest = Halves(rest)

(* A command written to a connection is executed unless that connection      *)
(* ends or the guest loses its token: with buf kept over timeouts the guest  *)
(* does not fall behind for good, however slowly lines arrive                *)
(* (run_tcp_loop reads at most one line per metrics line).                   *)
DeliveredOrEnded ==
  \A c \in Cmds :
    (link = "open" /\ \E i \in 1..Len(written) : written[i] = c)
      ~> ((\E i \in 1..Len(executed) : executed[i] = c) \/ link # "open" \/ gtoken = None)

(* Reloading brings the two sides together: when the host stays up, the      *)
(* guest's configuration names the file the host reads and that file keeps   *)
(* holding a token, both end up with it, whatever files held and said before *)
(* (spawn_config_reloader on either side, resolve_token).                    *)
TokensAgree ==
  <>[](hostUp /\ guestCfg = HostPath /\ HostReads # None) => <>[](htoken = gtoken)

(* The session heals: under the same conditions, and when no other program   *)
(* answers in the host's place, the guest gets and keeps a connection the    *)
(* host has not closed, on whichever recommended port that listens, whatever *)
(* was rejected, reset, moved or left half-open before (main's reconnecting  *)
(* loop, MultiPathConnector::connect, handle_connection_elastic).            *)
MetricsResume ==
  <>[](hostUp /\ guestCfg = HostPath /\ HostReads # None /\ others = {}) => <>[](link = "open")
=============================================================================
