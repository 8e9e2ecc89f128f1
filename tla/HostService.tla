---------------------------- MODULE HostService ----------------------------
(***************************************************************************)
(* The host as a Windows service: its process under the service control    *)
(* manager (run_service_inner), installation and removal call by call      *)
(* (install, configure_service_recovery, uninstall in                      *)
(* src/src/bin/host/service.rs), the firewall rules (firewall.rs) and the  *)
(* port of its configuration (config.rs).                                  *)
(*                                                                         *)
(* The service runs as LocalSystem, whose profile holds a config.yaml of   *)
(* its own; the installer reads and writes the administrator's.  Of either *)
(* file only the port is kept, None when the file is missing or does not   *)
(* parse, Portless when its listen_addr names none (effective_listen_port).*)
(***************************************************************************)
EXTENDS Naturals, Sequences, FiniteSetsExt

CONSTANTS
  RecommendedPorts,   \* RECOMMENDED_PORTS, best first
  MaxFaults,          \* bound on failing calls, crashes, edits and port thieves
  MaxAdmin            \* bound on installations and removals

ASSUME HostServiceAssumption ==
  /\ Len(RecommendedPorts) > 0
  /\ MaxFaults \in Nat /\ MaxAdmin \in Nat

VARIABLES
  scm,        \* the service: "absent", "stopped" or "running"
  marked,     \* it is to be deleted once it stops
  recovery,   \* failure actions are configured
  due,        \* the manager will start it: after a boot, or a failure
  proc,       \* where its process stands
  stop,       \* a stop signal waits in the channel
  lastEnd,    \* history variable: why the last process ended
  svcPort,    \* port in the service's config.yaml
  userPort,   \* port in the administrator's config.yaml
  listen,     \* port of the process, bound or about to be, or Portless
  busy,       \* ports other programs have bound
  rules,      \* firewall rules, each a protocol and a port
  chosen,     \* port in the configuration the last install loaded
  admin,      \* the next call of install or uninstall, or "idle"
  outcome,    \* history variable: how the last of them ended
  netshLost,  \* history variable: a netsh call failed or was never made
  adminRuns,  \* installations and removals begun
  faults      \* faults so far

serviceVars == <<scm, marked, recovery, due, proc, stop, lastEnd>>
portVars == <<svcPort, userPort, listen, busy>>
adminVars == <<rules, chosen, admin, outcome, netshLost, adminRuns>>
hostVars == <<serviceVars, portVars, adminVars, faults>>

None == 0
Portless == 65536
RecPorts == {RecommendedPorts[i] : i \in 1..Len(RecommendedPorts)}
ConfigPorts == RecPorts \union {Portless}
Protocols == {"TCP", "UDP"}

ASSUME NoneIsNoPort == None \notin RecPorts /\ Portless \notin RecPorts

Fault == faults < MaxFaults /\ faults' = faults + 1

-----------------------------------------------------------------------------
\* Ports and configurations.

\* port_available: a port can be bound now, which promises nothing for later.
Available(p) == p \notin busy /\ ~(proc = "serving" /\ p = listen)

\* select_available_port: the best recommended port, the default when all are taken.
SelectAvailablePort ==
  LET free == {i \in 1..Len(RecommendedPorts) : Available(RecommendedPorts[i])}
  IN  RecommendedPorts[IF free = {} THEN 1 ELSE Min(free)]

\* load_or_create: a file that does not load is replaced by the defaults.
LoadOrCreate(p) == IF p # None THEN p ELSE SelectAvailablePort

HostInit ==
  /\ scm = "absent" /\ marked = FALSE /\ recovery = FALSE /\ due = FALSE
  /\ proc = "none" /\ stop = FALSE /\ lastEnd = "none"
  /\ svcPort = None /\ userPort \in ConfigPorts \union {None}
  /\ listen = None /\ busy = {}
  /\ rules = {} /\ chosen = None /\ admin = "idle" /\ outcome = "none" /\ netshLost = FALSE
  /\ adminRuns = 0 /\ faults = 0

\* Somebody edits the port in one of the files, or breaks the file.
EditPort ==
  /\ Fault
  /\ \/ svcPort' \in (ConfigPorts \union {None}) \ {svcPort} /\ UNCHANGED userPort
     \/ userPort' \in (ConfigPorts \union {None}) \ {userPort} /\ UNCHANGED svcPort
  /\ UNCHANGED <<serviceVars, listen, busy, adminVars>>

\* Another program binds a port, also one the host has just found free.
OtherBinds ==
  /\ Fault
  /\ \E p \in RecPorts \ busy :
       ~(proc = "serving" /\ p = listen) /\ busy' = busy \union {p}
  /\ UNCHANGED <<serviceVars, svcPort, userPort, listen, adminVars>>

OtherReleases ==
  /\ \E p \in busy : busy' = busy \ {p}
  /\ UNCHANGED <<serviceVars, svcPort, userPort, listen, adminVars, faults>>

-----------------------------------------------------------------------------
\* The service's process.

(* The manager starts the process, which makes its channel, registers its    *)
(* handler and reports Running before it has loaded anything.                *)
StartProcess ==
  /\ scm = "stopped" /\ ~marked
  /\ scm' = "running" /\ proc' = "starting"
  /\ due' = FALSE /\ stop' = FALSE
  /\ UNCHANGED <<marked, recovery, lastEnd>>

\* Mutant: the channel is made only once the configuration is loaded.
LoadThenChannel ==
  /\ proc = "starting"
  /\ \/ svcPort' = LoadOrCreate(svcPort) /\ listen' = svcPort' /\ proc' = "binding" /\ stop' = FALSE
        /\ UNCHANGED faults
     \/ Fault /\ proc' = "failed" /\ UNCHANGED <<svcPort, listen, stop>>
  /\ UNCHANGED <<scm, marked, recovery, due, lastEnd, userPort, busy, adminVars>>

(* load_or_create and the log file.  When one fails, run_service_inner       *)
(* returns and the service stays reported as running, without a server.      *)
Load ==
  /\ proc = "starting"
  /\ \/ svcPort' = LoadOrCreate(svcPort) /\ listen' = svcPort' /\ proc' = "binding"
        /\ UNCHANGED faults
     \/ Fault /\ proc' = "failed" /\ UNCHANGED <<svcPort, listen>>
  /\ UNCHANGED <<scm, marked, recovery, due, stop, lastEnd, userPort, busy, adminVars>>

(* run_server binds, which fails on a port that is taken and on an address   *)
(* without one; an error of its ends the service like a stop.                *)
Bind ==
  /\ proc = "binding"
  /\ \/ listen \notin busy \union {Portless} /\ proc' = "serving" /\ UNCHANGED <<listen, lastEnd>>
     \/ listen \in busy \union {Portless} /\ proc' = "ending" /\ listen' = None /\ lastEnd' = "bind"
  /\ UNCHANGED <<scm, marked, recovery, due, stop, svcPort, userPort, busy, adminVars, faults>>

\* The manager forwards a stop control: it waits in the channel until it is read.
SendStop == scm = "running" /\ stop' = TRUE /\ UNCHANGED <<scm, marked, recovery, due, proc, lastEnd>>

\* The other branch of the select: the signal ends the server.
ReceiveStop ==
  /\ proc \in {"binding", "serving"} /\ stop
  /\ proc' = "ending" /\ listen' = None /\ lastEnd' = "stop"
  /\ UNCHANGED <<scm, marked, recovery, due, stop, svcPort, userPort, busy, adminVars, faults>>

\* What the manager does when a process has ended.
Ended == scm' = (IF marked THEN "absent" ELSE "stopped") /\ marked' = FALSE

\* Mutant: the process ends without reporting Stopped.
EndSilently ==
  /\ proc = "ending"
  /\ proc' = "none" /\ stop' = FALSE
  /\ UNCHANGED <<scm, marked, recovery, due, lastEnd, portVars, adminVars, faults>>

\* Stopped is reported with exit code 0: no failure, whatever happened.
ReportStopped ==
  /\ proc = "ending"
  /\ Ended
  /\ proc' = "none" /\ stop' = FALSE
  /\ UNCHANGED <<recovery, due, lastEnd, portVars, adminVars, faults>>

\* Mutant: the manager is told to act on a failing exit code only.
CrashUnnoticed ==
  /\ proc # "none" /\ Fault
  /\ Ended
  /\ proc' = "none" /\ listen' = None /\ stop' = FALSE
  /\ lastEnd' = IF recovery THEN "failure" ELSE "crash"
  /\ UNCHANGED <<recovery, due, svcPort, userPort, busy, adminVars>>

(* The process dies.  With failure actions the manager takes it for a        *)
(* failure and starts the service again.                                     *)
Crash ==
  /\ proc # "none" /\ Fault
  /\ Ended
  /\ proc' = "none" /\ listen' = None /\ stop' = FALSE
  /\ lastEnd' = IF recovery THEN "failure" ELSE "crash"
  /\ due' = (recovery /\ ~marked)
  /\ UNCHANGED <<recovery, svcPort, userPort, busy, adminVars>>

\* Windows restarts: the service starts automatically, an installer is gone.
Reboot ==
  /\ Fault
  /\ scm' = (IF marked \/ scm = "absent" THEN "absent" ELSE "stopped") /\ marked' = FALSE
  /\ proc' = "none" /\ listen' = None /\ stop' = FALSE /\ lastEnd' = "boot"
  /\ due' = (scm' = "stopped")
  /\ admin' = "idle" /\ outcome' = (IF admin = "idle" THEN outcome ELSE "failed")
  /\ netshLost' = (netshLost \/ admin \in {"remove TCP", "remove UDP"})
  /\ UNCHANGED <<recovery, svcPort, userPort, busy, rules, chosen, adminRuns>>

\* A start that is due.
AutoStart == due /\ StartProcess /\ UNCHANGED <<portVars, adminVars, faults>>

\* A person starts or stops the service.
Operator ==
  /\ StartProcess \/ SendStop
  /\ UNCHANGED <<portVars, adminVars, faults>>

-----------------------------------------------------------------------------
\* install and uninstall.

\* The call at step succeeds and the next one is made.
Step(step, next) ==
  /\ admin = step
  /\ admin' = next
  /\ UNCHANGED <<chosen, outcome, adminRuns>>

\* The command is over.
Finish(step, result) ==
  /\ admin = step
  /\ admin' = "idle" /\ outcome' = result
  /\ UNCHANGED <<chosen, adminRuns>>

\* A call fails and ends install or uninstall with it.
AdminFails ==
  /\ admin \notin {"idle", "stop", "remove TCP", "remove UDP"} /\ Fault
  /\ Finish(admin, "failed")
  /\ \/ UNCHANGED recovery
     \/ admin = "recovery" /\ recovery' = TRUE
  /\ UNCHANGED <<scm, marked, due, proc, stop, lastEnd, portVars, rules, netshLost>>

Begin(step) ==
  /\ admin = "idle" /\ adminRuns < MaxAdmin
  /\ admin' = step /\ outcome' = "begun"
  /\ adminRuns' = adminRuns + 1
  /\ UNCHANGED <<serviceVars, portVars, rules, chosen, netshLost, faults>>

\* load_or_create, ensure_token and save.
InstallConfig ==
  /\ admin = "config" /\ admin' = "create"
  /\ userPort' = LoadOrCreate(userPort) /\ chosen' = userPort'
  /\ UNCHANGED <<serviceVars, svcPort, listen, busy, rules, outcome, adminRuns, netshLost, faults>>

\* create_service and set_description.
CreateService ==
  /\ \/ scm = "absent" /\ Step("create", "recovery")
        /\ scm' = "stopped" /\ recovery' = FALSE /\ lastEnd' = "none"
        /\ UNCHANGED <<marked, due, proc, stop>>
     \/ scm # "absent" /\ Finish("create", "failed") /\ UNCHANGED serviceVars
  /\ UNCHANGED <<portVars, rules, netshLost, faults>>

\* Mutant: the exit code of sc.exe is not looked at.
ConfigureUnchecked ==
  /\ Step("recovery", "start")
  /\ \/ recovery' = TRUE /\ UNCHANGED faults
     \/ Fault /\ UNCHANGED recovery
  /\ UNCHANGED <<scm, marked, due, proc, stop, lastEnd, portVars, rules, netshLost>>

\* configure_service_recovery: three calls of sc.exe, the first sets the actions.
ConfigureRecovery ==
  /\ Step("recovery", "start")
  /\ recovery' = TRUE
  /\ UNCHANGED <<scm, marked, due, proc, stop, lastEnd, portVars, rules, netshLost, faults>>

\* A service that somebody has started meanwhile cannot be started.
StartService ==
  /\ \/ Step("start", "add TCP") /\ StartProcess
     \/ scm # "stopped" /\ Finish("start", "failed") /\ UNCHANGED serviceVars
  /\ UNCHANGED <<portVars, rules, netshLost, faults>>

(* add_rule for one protocol and the port of the installer's configuration.  *)
(* Without a port nothing is added, and install succeeds all the same.       *)
AddRule ==
  /\ \/ /\ chosen # Portless /\ Step("add TCP", "add UDP")
        /\ rules' = rules \union {<<"TCP", chosen>>}
     \/ chosen = Portless /\ Finish("add TCP", "installed") /\ UNCHANGED rules
     \/ Finish("add UDP", "installed") /\ rules' = rules \union {<<"UDP", chosen>>}
  /\ UNCHANGED <<serviceVars, portVars, netshLost, faults>>

\* open_service, query_status and stop, whose failure is ignored.
StopForRemoval ==
  /\ \/ /\ scm = "absent" /\ Finish("stop", "failed")
        /\ UNCHANGED <<serviceVars, faults>>
     \/ /\ scm # "absent" /\ Step("stop", "delete")
        /\ \/ SendStop /\ UNCHANGED faults
           \/ scm = "stopped" /\ UNCHANGED <<serviceVars, faults>>
           \/ scm = "running" /\ Fault /\ UNCHANGED serviceVars
  /\ UNCHANGED <<portVars, rules, netshLost>>

\* Two seconds later, stopped or not: delete, which a second deletion refuses.
DeleteService ==
  /\ \/ scm # "absent" /\ ~marked /\ Step("delete", "remove TCP")
        /\ IF scm = "stopped" THEN scm' = "absent" /\ due' = FALSE /\ UNCHANGED marked
                              ELSE marked' = TRUE /\ UNCHANGED <<scm, due>>
     \/ (scm = "absent" \/ marked) /\ Finish("delete", "failed") /\ UNCHANGED <<scm, marked, due>>
  /\ UNCHANGED <<recovery, proc, stop, lastEnd, portVars, rules, netshLost, faults>>

\* Mutant: only the rule of the configured port goes.
RulesOfPort(protocol) == {r \in rules : r = <<protocol, userPort>>}

\* The rules a netsh call deletes: all of the name, which has no port in it.
RulesNamed(protocol) == {r \in rules : r[1] = protocol}

(* remove_rule: a call that finds no rule fails like any other and keeps the *)
(* next protocol's from being made; uninstall ignores it.                    *)
RemoveRule ==
  \E protocol \in Protocols :
    LET step == IF protocol = "TCP" THEN "remove TCP" ELSE "remove UDP"
    IN  /\ \/ /\ RulesNamed(protocol) # {}
              /\ rules' = rules \ RulesNamed(protocol)
              /\ IF protocol = "TCP" THEN Step(step, "remove UDP") ELSE Finish(step, "uninstalled")
              /\ UNCHANGED <<netshLost, faults>>
           \/ /\ RulesNamed(protocol) = {} /\ Finish(step, "uninstalled")
              /\ UNCHANGED <<rules, netshLost, faults>>
           \/ /\ Fault /\ netshLost' = TRUE /\ Finish(step, "uninstalled") /\ UNCHANGED rules
        /\ UNCHANGED <<serviceVars, portVars>>

-----------------------------------------------------------------------------
Process == Load \/ Bind \/ ReportStopped

Installer ==
  \/ InstallConfig \/ CreateService \/ ConfigureRecovery \/ StartService \/ AddRule
  \/ StopForRemoval \/ DeleteService \/ RemoveRule \/ AdminFails

HostNext ==
  \/ Process \/ ReceiveStop \/ Crash \/ Reboot \/ AutoStart \/ Operator
  \/ Begin("config") \/ Begin("stop") \/ Installer
  \/ EditPort \/ OtherBinds \/ OtherReleases

-----------------------------------------------------------------------------
HostTypeOK ==
  /\ scm \in {"absent", "stopped", "running"}
  /\ proc \in {"none", "starting", "binding", "serving", "ending", "failed"}
  /\ marked \in BOOLEAN /\ recovery \in BOOLEAN /\ due \in BOOLEAN
  /\ stop \in BOOLEAN /\ netshLost \in BOOLEAN
  /\ scm = "running" <=> proc # "none"
  /\ marked => scm = "running"
  /\ due => scm = "stopped"
  /\ stop => scm = "running"
  /\ lastEnd \in {"none", "bind", "stop", "crash", "failure", "boot"}
  /\ svcPort \in ConfigPorts \union {None} /\ userPort \in ConfigPorts \union {None}
  /\ listen \in ConfigPorts \union {None}
  /\ listen # None <=> proc \in {"binding", "serving"}
  /\ busy \subseteq RecPorts
  /\ proc = "serving" => listen \notin busy \union {Portless}
  /\ rules \subseteq Protocols \X RecPorts
  /\ admin \in {"idle", "config", "create", "recovery", "start", "add TCP", "add UDP",
                "stop", "delete", "remove TCP", "remove UDP"}
  /\ chosen \in ConfigPorts \union {None}
  /\ admin \in {"create", "recovery", "start", "add TCP", "add UDP"} => chosen # None
  /\ admin = "add UDP" => chosen # Portless
  /\ outcome \in {"none", "begun", "failed", "installed", "uninstalled"}
  /\ adminRuns \in 0..MaxAdmin /\ faults \in 0..MaxFaults

(* A removal leaves no rule behind, of whatever port: a later install may    *)
(* have used another than the one before, and the file may have changed      *)
(* since (uninstall, remove_rule).  The price of ignoring netsh's failures:  *)
(* only as long as no netsh call has failed or been skipped.                 *)
UninstallRemovesRules ==
  outcome = "uninstalled" /\ ~netshLost => rules = {}

(* An installation that reports success has done everything it set out to,   *)
(* whatever happened between its calls: the manager restarts the service,    *)
(* and the port of the configuration install loaded is open for both         *)
(* protocols (install stops at its first failing call).  No port is opened   *)
(* when that configuration names none, and install reports success then too. *)
InstallComplete ==
  outcome = "installed" =>
    /\ recovery
    /\ chosen # Portless => Protocols \X {chosen} \subseteq rules

(* A stop control is not lost, however early it comes: the channel keeps it  *)
(* until the select reads it (run_service_inner).  Only a service whose      *)
(* start-up failed stays, reported as running, for ever.                     *)
StopNotLost == stop ~> proc \in {"none", "failed"}

(* After a failure or a boot the service serves again, unless it is stopped or *)
(* removed, its start-up fails, it crashes before install has set failure    *)
(* actions, or its port is taken or its address has none: a failing bind     *)
(* ends it with exit code 0, for which the manager does nothing              *)
(* (run_service_inner, configure_service_recovery).                          *)
ServesAgain ==
  (proc = "none" /\ scm = "stopped" /\ lastEnd \in {"boot", "failure"})
    ~> (proc \in {"serving", "failed"} \/ scm = "absent" \/ lastEnd \in {"bind", "stop", "crash"})
=============================================================================
