------------------------- MODULE UdpCommandChannel -------------------------
(***************************************************************************)
(* How a command reaches the guest over UDP: the host's server loop        *)
(* (src/src/bin/host/main.rs, run_udp_server) and the guest's connection   *)
(* loop (src/src/bin/guest.rs, run_udp_loop and handle_command_cached),    *)
(* with a network that loses, duplicates and reorders datagrams, and both  *)
(* processes stopping and starting.                                        *)
(*                                                                         *)
(* A metrics datagram is abstracted to its source port, a command to its   *)
(* cmd_id (the host's clock at its creation: 1, 2, ... in order), a result *)
(* to the command it answers.  Whether a metrics message makes the host    *)
(* decide a command is left open here: ElasticReclaimer says when it does. *)
(*                                                                         *)
(* Datagrams in transit are sets.  Delivery may leave its datagram in the  *)
(* set, which stands for a duplicate and for a second copy sent.  What has *)
(* arrived at the guest waits in its socket's buffer, in order: the loop   *)
(* reads one datagram per metrics message, and a command that came too     *)
(* late for its own is read after a later one.                             *)
(***************************************************************************)
EXTENDS Naturals, Sequences

CONSTANTS
  CacheSize,     \* results the guest remembers: 32 in the code
  InboxMax,      \* datagrams the guest's socket buffer holds
  ReusePorts,    \* whether the OS may give a new socket the port of an old one
  MaxSessions,   \* bound on runs of the guest's connection loop
  MaxCmds,       \* bound on commands the host decides
  MaxExecs       \* bound on commands the guest executes

ASSUME CacheSizeAssumption == CacheSize \in Nat \ {0}
ASSUME InboxMaxAssumption == InboxMax \in Nat \ {0}
ASSUME ReusePortsAssumption == ReusePorts \in BOOLEAN
ASSUME BoundsAssumption == MaxSessions \in Nat /\ MaxCmds \in Nat /\ MaxExecs \in Nat

VARIABLES
  pending,   \* host: guests[port].pending_cmd
  issued,    \* host: cmd_id of the last command decided
  toHost,    \* datagrams on their way to the host
  toGuest,   \* datagrams on their way to a guest port
  inbox,     \* guest: commands in the socket's receive buffer, in order
  pc,        \* guest: where run_udp_loop stands
  port,      \* guest: local port of the loop's socket
  current,   \* guest: the command being executed
  cache,     \* guest: cmd_ids in command_cache, oldest first
  session,   \* number of runs of the loop so far
  executed   \* history variable: every execution, with its session

hostVars == <<pending, issued>>
guestVars == <<inbox, pc, port, current, cache, session, executed>>
vars == <<pending, issued, toHost, toGuest, inbox, pc, port, current, cache, session, executed>>

Ports == 1..MaxSessions
Cmds == 1..MaxCmds
None == 0      \* Option::None of a pending_cmd

Metrics(p) == [type |-> "metrics", port |-> p, cmd |-> None]
Result(p, c) == [type |-> "result", port |-> p, cmd |-> c]
Command(p, c) == [port |-> p, cmd |-> c]

\* A delivered datagram is consumed, unless another copy is on its way.
Consume(channel, m) == {channel, channel \ {m}}

InCache(c) == \E k \in 1..Len(cache) : cache[k] = c

\* The port a socket bound to 0.0.0.0:0 in session s may get.
PortChoices(s) == IF ReusePorts THEN Ports ELSE {s}

-----------------------------------------------------------------------------
Init ==
  /\ pending = [p \in Ports |-> None]
  /\ issued = 0
  /\ toHost = {} /\ toGuest = {} /\ inbox = <<>>
  /\ pc = "down" /\ port = 0 /\ current = None
  /\ cache = <<>>
  /\ session = 0
  /\ executed = <<>>

-----------------------------------------------------------------------------
\* Host.

\* Mutant: a newer command does not take an occupied slot.
HostKeepsPending(p) ==
  /\ Metrics(p) \in toHost
  /\ toHost' \in Consume(toHost, Metrics(p))
  /\ LET resent == IF pending[p] = None THEN {} ELSE {Command(p, pending[p])}
     IN  \/ /\ toGuest' = toGuest \union resent
            /\ UNCHANGED hostVars
         \/ /\ issued < MaxCmds
            /\ issued' = issued + 1
            /\ pending' = [pending EXCEPT ![p] = IF @ = None THEN issued' ELSE @]
            /\ toGuest' = toGuest \union resent \union {Command(p, issued')}
  /\ UNCHANGED guestVars

\* Mutant: the pending command is not sent again.
HostNeverResends(p) ==
  /\ Metrics(p) \in toHost
  /\ toHost' \in Consume(toHost, Metrics(p))
  /\ \/ UNCHANGED <<toGuest, hostVars>>
     \/ /\ issued < MaxCmds
        /\ issued' = issued + 1
        /\ pending' = [pending EXCEPT ![p] = issued']
        /\ toGuest' = toGuest \union {Command(p, issued')}
  /\ UNCHANGED guestVars

(* A metrics datagram: the pending command is sent again, then the engine    *)
(* may decide a new one, which is sent and takes the pending slot even when  *)
(* the old one was never answered.                                           *)
HostReceiveMetrics(p) ==
  /\ Metrics(p) \in toHost
  /\ toHost' \in Consume(toHost, Metrics(p))
  /\ LET resent == IF pending[p] = None THEN {} ELSE {Command(p, pending[p])}
     IN  \/ /\ toGuest' = toGuest \union resent
            /\ UNCHANGED hostVars
         \/ /\ issued < MaxCmds
            /\ issued' = issued + 1
            /\ pending' = [pending EXCEPT ![p] = issued']
            /\ toGuest' = toGuest \union resent \union {Command(p, issued')}
  /\ UNCHANGED guestVars

\* A result from p clears p's slot: its cmd_id is not looked at.
HostReceiveResult(p, c) ==
  /\ Result(p, c) \in toHost
  /\ toHost' \in Consume(toHost, Result(p, c))
  /\ pending' = [pending EXCEPT ![p] = None]
  /\ UNCHANGED <<issued, toGuest, guestVars>>

\* A new server process starts with an empty guests map.
HostRestart ==
  /\ pending' = [p \in Ports |-> None]
  /\ UNCHANGED <<issued, toHost, toGuest, guestVars>>

-----------------------------------------------------------------------------
\* Guest.

\* A new run of run_udp_loop: a fresh socket and an empty command cache.
Connect ==
  /\ pc = "down" /\ session < MaxSessions
  /\ session' = session + 1
  /\ port' \in PortChoices(session')
  /\ pc' = "send"
  /\ UNCHANGED <<inbox, cache, current, executed, hostVars, toHost, toGuest>>

SendMetrics ==
  /\ pc = "send"
  /\ pc' = "recv"
  /\ toHost' = toHost \union {Metrics(port)}
  /\ UNCHANGED <<inbox, port, current, cache, session, executed, hostVars, toGuest>>

\* Nothing arrives in a second.
ReceiveTimeout ==
  /\ pc = "recv" /\ inbox = <<>>
  /\ pc' = "send"
  /\ UNCHANGED <<inbox, port, current, cache, session, executed, hostVars, toHost, toGuest>>

\* Mutant: a command is answered as it arrives, executed or not.
AnswerOnReceipt ==
  /\ pc = "recv" /\ inbox # <<>>
  /\ inbox' = Tail(inbox)
  /\ toHost' = toHost \union {Result(port, Head(inbox))}
  /\ pc' = "send"
  /\ UNCHANGED <<port, current, cache, session, executed, hostVars, toGuest>>

\* One datagram per metrics message: a remembered command is answered again.
AnswerDuplicate ==
  /\ pc = "recv" /\ inbox # <<>> /\ InCache(Head(inbox))
  /\ inbox' = Tail(inbox)
  /\ toHost' = toHost \union {Result(port, Head(inbox))}
  /\ pc' = "send"
  /\ UNCHANGED <<port, current, cache, session, executed, hostVars, toGuest>>

\* Any other command is executed: its effect precedes everything else.
Execute ==
  /\ pc = "recv" /\ inbox # <<>> /\ ~InCache(Head(inbox))
  /\ Len(executed) < MaxExecs
  /\ inbox' = Tail(inbox)
  /\ executed' = Append(executed, [session |-> session, cmd |-> Head(inbox)])
  /\ current' = Head(inbox)
  /\ pc' = "exec"
  /\ UNCHANGED <<port, cache, session, hostVars, toHost, toGuest>>

\* Mutant: the cache is trimmed one result too late.
RememberLate(c) ==
  IF Len(cache) <= CacheSize THEN Append(cache, c) ELSE Append(Tail(cache), c)

\* push_back, then pop_front beyond the bound.
Remember(c) ==
  IF Len(cache) < CacheSize THEN Append(cache, c) ELSE Append(Tail(cache), c)

\* Mutant: the result is sent but not remembered.
FinishForgets ==
  /\ pc = "exec"
  /\ toHost' = toHost \union {Result(port, current)}
  /\ pc' = "send" /\ current' = None
  /\ UNCHANGED <<inbox, port, cache, session, executed, hostVars, toGuest>>

\* handle_command returns: the result is remembered and sent.
Finish ==
  /\ pc = "exec"
  /\ cache' = Remember(current)
  /\ toHost' = toHost \union {Result(port, current)}
  /\ pc' = "send" /\ current' = None
  /\ UNCHANGED <<inbox, port, session, executed, hostVars, toGuest>>

\* Mutant: the next run of the loop finds what the last one has not read.
DisconnectKeepsInbox ==
  /\ pc # "down"
  /\ pc' = "down" /\ cache' = <<>> /\ current' = None
  /\ UNCHANGED <<inbox, port, session, executed, hostVars, toHost, toGuest>>

\* A send error ends the loop; a crash ends it anywhere, mid-execution too.
Disconnect ==
  /\ pc # "down"
  /\ pc' = "down" /\ inbox' = <<>> /\ cache' = <<>> /\ current' = None
  /\ UNCHANGED <<port, session, executed, hostVars, toHost, toGuest>>

-----------------------------------------------------------------------------
\* Network.

\* A command reaches the socket bound to its port.
Deliver(c) ==
  /\ pc # "down" /\ Command(port, c) \in toGuest
  /\ Len(inbox) < InboxMax
  /\ toGuest' \in Consume(toGuest, Command(port, c))
  /\ inbox' = Append(inbox, c)
  /\ UNCHANGED <<pc, port, current, cache, session, executed, hostVars, toHost>>

(* A datagram is lost on the way, finds its port closed or its buffer full,  *)
(* or is dropped by the host because its token does not match.               *)
Lose ==
  \/ \E m \in toHost : toHost' = toHost \ {m} /\ UNCHANGED <<toGuest, hostVars, guestVars>>
  \/ \E m \in toGuest : toGuest' = toGuest \ {m} /\ UNCHANGED <<toHost, hostVars, guestVars>>

Host ==
  \/ \E p \in Ports : HostReceiveMetrics(p)
  \/ \E p \in Ports, c \in Cmds : HostReceiveResult(p, c)
  \/ HostRestart

GuestLoop == SendMetrics \/ ReceiveTimeout \/ AnswerDuplicate \/ Execute \/ Finish

Network == (\E c \in Cmds : Deliver(c)) \/ Lose

Next == Host \/ Connect \/ GuestLoop \/ Disconnect \/ Network

Spec == Init /\ [][Next]_vars

(* The guest's loop is a task of a running runtime and never waits for more  *)
(* than a timeout; a datagram sent again and again arrives in the end and    *)
(* the server handles what arrives.  Metrics are handled only when their     *)
(* token is accepted: HostReceiveMetrics is fair for a guest that holds the  *)
(* host's token, or comes to hold it (RuntimeToken says when it does).       *)
Fairness ==
  /\ WF_vars(GuestLoop)
  /\ \A c \in Cmds : SF_vars(Deliver(c))
  /\ \A p \in Ports :
       /\ SF_vars(HostReceiveMetrics(p))
       /\ \A c \in Cmds : SF_vars(HostReceiveResult(p, c))

FairSpec == Spec /\ Fairness

-----------------------------------------------------------------------------
TypeOK ==
  /\ pending \in [Ports -> Cmds \union {None}]
  /\ issued \in 0..MaxCmds
  /\ toHost \subseteq [type : {"metrics", "result"}, port : Ports, cmd : Cmds \union {None}]
  /\ toGuest \subseteq [port : Ports, cmd : Cmds]
  /\ inbox \in Seq(Cmds) /\ Len(inbox) <= InboxMax
  /\ pc \in {"down", "send", "recv", "exec"}
  /\ port \in Ports \union {0}
  /\ pc # "down" => port \in Ports /\ session \in Ports
  /\ current \in Cmds \union {None}
  /\ pc = "exec" => current \in Cmds
  /\ cache \in Seq(Cmds) /\ Len(cache) <= CacheSize
  /\ session \in 0..MaxSessions
  /\ executed \in Seq([session : Ports, cmd : Cmds])
  /\ Len(executed) <= MaxExecs

(* Within one run of the connection loop a command runs again only after at  *)
(* least CacheSize other executions: however often it is resent, duplicated  *)
(* or delayed, the cache absorbs it until then (handle_command_cached).      *)
RepeatWindow ==
  \A i, j \in 1..Len(executed) :
    i < j /\ executed[i] = executed[j] => j - i > CacheSize

(* The cache dies with its run of the loop, but no command survives it: what *)
(* ran in one session runs in no other, however many copies are on their     *)
(* way, unless a new socket gets an old one's port (run_udp_loop binds its   *)
(* own socket, and the host knows a guest by its address).                   *)
OneSessionPerCommand ==
  ~ReusePorts =>
    \A i, j \in 1..Len(executed) :
      executed[i].cmd = executed[j].cmd => executed[i].session = executed[j].session

(* The host never hears of a result for a command that did not run: a result *)
(* on its way, or a remembered one, names a command executed before          *)
(* (handle_command_cached answers from its cache or after executing).        *)
ResultsOfExecutions ==
  LET ran == {executed[i].cmd : i \in 1..Len(executed)}
  IN  /\ \A m \in toHost : m.type = "result" => m.cmd \in ran
      /\ \A k \in 1..Len(cache) : cache[k] \in ran

(* What a guest may still be told to run: a slot holds the newest command    *)
(* ever sent to its port, so the host never resends a superseded one         *)
(* (run_udp_server overwrites pending_cmd).                                  *)
PendingIsNewest ==
  \A p \in Ports : pending[p] # None =>
    /\ \A m \in toGuest : m.port = p => m.cmd <= pending[p]
    /\ port = p => \A k \in 1..Len(inbox) : inbox[k] <= pending[p]

(* Resending stops: a command in a slot is answered, superseded or given up, *)
(* unless the guest's connection on that port is gone                        *)
(* (run_udp_server resends on every metrics message).                        *)
ResendStops ==
  \A p \in Ports : \A c \in Cmds :
    pending[p] = c ~> (pending[p] # c \/ port # p \/ pc = "down")

(* What the comment on pending_cmd says (host/main.rs:457): the last command *)
(* sent is resent until it is acknowledged, so its slot empties only when    *)
(* its own result has arrived, or the server restarts.                       *)
ClearedByItsOwnAck ==
  [][ \A p \in Ports :
        pending[p] # None /\ pending'[p] = None =>
          Result(p, pending[p]) \in toHost \/ HostRestart ]_vars
=============================================================================
