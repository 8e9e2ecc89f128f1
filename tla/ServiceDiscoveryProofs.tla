----------------------- MODULE ServiceDiscoveryProofs -----------------------
(***************************************************************************)
(* Invariance proofs for ServiceDiscovery: the service, its installation   *)
(* and its firewall rules.                                                 *)
(***************************************************************************)
EXTENDS ServiceDiscovery, WellFoundedInduction, TLAPS

-----------------------------------------------------------------------------
\* Ports.

\* A set of numbers has a least one.
LEMMA LeastNumber ==
  ASSUME NEW S, S \subseteq Nat, S # {}
  PROVE  \E x \in S : \A y \in S : x <= y
<1> DEFINE R == OpToRel(<, Nat)
<1>1. IsWellFoundedOn(R, Nat)
  BY NatLessThanWellFounded
<1> HIDE DEF R
<1>2. PICK x \in S : \A y \in S : ~ (<<y, x>> \in R)
  BY <1>1, WFMin
<1>3. \A y \in S : ~ (y < x)
  BY <1>2 DEF R, OpToRel
<1> QED
  BY <1>3

\* select_available_port returns a recommended port.
LEMMA PortChosen == SelectAvailablePort \in RecPorts
<1> DEFINE free == {i \in 1..Len(RecommendedPorts) : Available(RecommendedPorts[i])}
<1>1. 1 \in 1..Len(RecommendedPorts)
  BY HostServiceAssumption
<1>2. free \subseteq 1..Len(RecommendedPorts) /\ free \subseteq Nat
  OBVIOUS
<1>3. SelectAvailablePort = RecommendedPorts[IF free = {} THEN 1 ELSE Min(free)]
  BY DEF SelectAvailablePort
<1> HIDE DEF free
<1>4. ASSUME free # {} PROVE Min(free) \in free
  <2>1. PICK x \in free : \A y \in free : x <= y
    BY <1>2, <1>4, LeastNumber
  <2> QED
    BY <2>1 DEF Min
<1>5. (IF free = {} THEN 1 ELSE Min(free)) \in 1..Len(RecommendedPorts)
  BY <1>1, <1>2, <1>4
<1> QED
  BY <1>3, <1>5 DEF RecPorts

\* load_or_create leaves a configuration with a port.
LEMMA PortLoaded ==
  ASSUME NEW p \in ConfigPorts \union {None}
  PROVE  LoadOrCreate(p) \in ConfigPorts /\ LoadOrCreate(p) # None
BY PortChosen, NoneIsNoPort DEF LoadOrCreate, ConfigPorts, None, Portless

-----------------------------------------------------------------------------
\* The inductive invariant.

\* A command is under way exactly as long as it has no result.
OutcomeInv == admin # "idle" <=> outcome = "begun"

(* Rules of UDP never outlive those of TCP, except between the two calls of  *)
(* a removal: install adds TCP's first, and uninstall removes TCP's first.   *)
RulesInv ==
  ~netshLost =>
    /\ admin = "remove UDP" => RulesNamed("TCP") = {}
    /\ admin # "remove UDP" /\ RulesNamed("UDP") # {} => RulesNamed("TCP") # {}
    /\ outcome = "uninstalled" => rules = {}

\* What an installation has done when it comes to its later calls.
InstallInv ==
  /\ admin \in {"start", "add TCP", "add UDP"} => recovery
  /\ admin = "add UDP" => <<"TCP", chosen>> \in rules
  /\ InstallComplete

IInv == TypeOK /\ OutcomeInv /\ RulesInv /\ InstallInv

-----------------------------------------------------------------------------
\* Which steps change what.

LEMMA ServiceUnchanged ==
  UNCHANGED serviceVars =>
    /\ UNCHANGED <<scm, proc, lastEnd>>
    /\ UNCHANGED marked /\ UNCHANGED recovery /\ UNCHANGED due /\ UNCHANGED stop
BY DEF serviceVars

LEMMA PortsUnchanged == UNCHANGED portVars => UNCHANGED <<svcPort, userPort, listen, busy>>
BY DEF portVars

LEMMA AdminUnchanged ==
  UNCHANGED adminVars =>
    UNCHANGED <<rules, chosen, admin, outcome, adminRuns>> /\ UNCHANGED netshLost
BY DEF adminVars

LEMMA HostUnchanged ==
  UNCHANGED hostVars =>
    /\ UNCHANGED serviceVars /\ UNCHANGED portVars /\ UNCHANGED adminVars
    /\ UNCHANGED faults
BY DEF hostVars

\* The steps of the process and its manager, and those of the installer that reach them.
ProcessStep ==
  Load \/ Bind \/ ReportStopped \/ ReceiveStop \/ Crash \/ Reboot \/ StartProcess \/ SendStop

InstallerStep ==
  AdminFails \/ CreateService \/ ConfigureRecovery \/ StartService \/ StopForRemoval \/ DeleteService

LEMMA NextCases ==
  ASSUME [Next]_vars
  PROVE  \/ Load \/ Bind \/ ReportStopped \/ ReceiveStop \/ Crash \/ Reboot
         \/ AutoStart \/ Operator
         \/ Begin("config") \/ Begin("stop") \/ InstallConfig \/ CreateService
         \/ ConfigureRecovery \/ StartService \/ AddRule
         \/ StopForRemoval \/ DeleteService \/ RemoveRule \/ AdminFails
         \/ EditPort \/ OtherBinds \/ OtherReleases
         \/ GuestRestarts \/ UNCHANGED hostVars
BY DEF Next, HostNext, Process, Installer, Guest, Probe, LoopEnds, vars

LEMMA ServiceChanged ==
  ASSUME [Next]_vars
  PROVE  UNCHANGED serviceVars \/ ProcessStep \/ InstallerStep
<1>1. CASE AutoStart \/ Operator
  BY <1>1 DEF AutoStart, Operator, ProcessStep
<1>2. CASE Begin("config") \/ Begin("stop") \/ InstallConfig \/ AddRule \/ RemoveRule
  BY <1>2 DEF Begin, InstallConfig, AddRule, RemoveRule
<1>3. CASE EditPort \/ OtherBinds \/ OtherReleases \/ GuestRestarts
  BY <1>3 DEF EditPort, OtherBinds, OtherReleases, GuestRestarts
<1> QED
  BY NextCases, HostUnchanged, <1>1, <1>2, <1>3 DEF ProcessStep, InstallerStep

LEMMA PortsChanged ==
  ASSUME [Next]_vars
  PROVE  \/ UNCHANGED portVars
         \/ Load \/ Bind \/ ReceiveStop \/ Crash \/ Reboot
         \/ InstallConfig \/ EditPort \/ OtherBinds \/ OtherReleases
<1>1. CASE ReportStopped \/ AutoStart \/ Operator \/ GuestRestarts
  BY <1>1 DEF ReportStopped, AutoStart, Operator, GuestRestarts
<1>2. CASE Begin("config") \/ Begin("stop") \/ AdminFails
  BY <1>2 DEF Begin, AdminFails
<1>3. CASE CreateService \/ ConfigureRecovery \/ StartService \/ AddRule
  BY <1>3 DEF CreateService, ConfigureRecovery, StartService, AddRule
<1>4. CASE StopForRemoval \/ DeleteService \/ RemoveRule
  BY <1>4 DEF StopForRemoval, DeleteService, RemoveRule
<1> QED
  BY NextCases, HostUnchanged, <1>1, <1>2, <1>3, <1>4

LEMMA AdminChanged ==
  ASSUME [Next]_vars
  PROVE  \/ UNCHANGED adminVars
         \/ Reboot \/ Begin("config") \/ Begin("stop") \/ InstallConfig \/ AddRule \/ RemoveRule
         \/ InstallerStep
<1>1. CASE Load \/ Bind \/ ReportStopped \/ ReceiveStop \/ Crash
  BY <1>1 DEF Load, Bind, ReportStopped, ReceiveStop, Crash
<1>2. CASE AutoStart \/ Operator \/ GuestRestarts
  BY <1>2 DEF AutoStart, Operator, GuestRestarts
<1>3. CASE EditPort \/ OtherBinds \/ OtherReleases
  BY <1>3 DEF EditPort, OtherBinds, OtherReleases
<1> QED
  BY NextCases, HostUnchanged, <1>1, <1>2, <1>3 DEF InstallerStep

-----------------------------------------------------------------------------
\* Type correctness, part by part.

ServiceOK ==
  /\ scm \in {"absent", "stopped", "running"}
  /\ proc \in {"none", "starting", "binding", "serving", "ending", "failed"}
  /\ scm = "running" <=> proc # "none"
  /\ lastEnd \in {"none", "bind", "stop", "crash", "failure", "boot"}

FlagsOK ==
  /\ marked \in BOOLEAN /\ recovery \in BOOLEAN /\ due \in BOOLEAN /\ stop \in BOOLEAN
  /\ marked => scm = "running"
  /\ due => scm = "stopped"
  /\ stop => scm = "running"

PortsOK ==
  /\ svcPort \in ConfigPorts \union {None} /\ userPort \in ConfigPorts \union {None}
  /\ listen \in ConfigPorts \union {None}
  /\ busy \subseteq RecPorts

ListenOK ==
  /\ listen # None <=> proc \in {"binding", "serving"}
  /\ proc = "serving" => listen \notin busy \union {Portless}

AdminOK ==
  /\ admin \in {"idle", "config", "create", "recovery", "start", "add TCP", "add UDP",
                "stop", "delete", "remove TCP", "remove UDP"}
  /\ chosen \in ConfigPorts \union {None}
  /\ admin \in {"create", "recovery", "start", "add TCP", "add UDP"} => chosen # None
  /\ admin = "add UDP" => chosen # Portless
  /\ outcome \in {"none", "begun", "failed", "installed", "uninstalled"}

RulesOK == rules \subseteq Protocols \X RecPorts /\ netshLost \in BOOLEAN

CountsOK == adminRuns \in 0..MaxAdmin /\ faults \in 0..MaxFaults

LEMMA TypeParts ==
  TypeOK <=> /\ ServiceOK /\ FlagsOK /\ PortsOK /\ ListenOK /\ AdminOK /\ RulesOK /\ CountsOK
             /\ target \in RecPorts \union {None}
BY Zenon DEF TypeOK, HostTypeOK, ServiceOK, FlagsOK, PortsOK, ListenOK, AdminOK, RulesOK, CountsOK

LEMMA TypeInit == Init => TypeOK
<1> SUFFICES ASSUME Init PROVE TypeOK
  OBVIOUS
<1>1. ServiceOK /\ ListenOK /\ AdminOK
  BY DEF Init, HostInit, ServiceOK, ListenOK, AdminOK
<1>2. PortsOK /\ CountsOK
  BY HostServiceAssumption DEF Init, HostInit, PortsOK, CountsOK
<1>3. FlagsOK /\ RulesOK
  BY Zenon DEF Init, HostInit, FlagsOK, RulesOK
<1> QED
  BY <1>1, <1>2, <1>3, TypeParts DEF Init

LEMMA ServiceStep == ServiceOK /\ [Next]_vars => ServiceOK'
<1> SUFFICES ASSUME ServiceOK, [Next]_vars PROVE ServiceOK'
  OBVIOUS
<1> USE DEF ServiceOK
<1>1. CASE UNCHANGED serviceVars
  BY <1>1, ServiceUnchanged
<1>2. CASE Load
  BY <1>2 DEF Load
<1>3. CASE Bind
  BY <1>3 DEF Bind
<1>4. CASE ReportStopped
  BY <1>4 DEF ReportStopped, Ended
<1>5. CASE ReceiveStop
  BY <1>5 DEF ReceiveStop
<1>6. CASE Crash
  BY <1>6 DEF Crash, Ended
<1>7. CASE Reboot
  BY <1>7 DEF Reboot
<1>8. CASE StartProcess
  BY <1>8 DEF StartProcess
<1>9. CASE SendStop
  BY <1>9 DEF SendStop
<1>10. CASE AdminFails \/ ConfigureRecovery
  BY <1>10 DEF AdminFails, ConfigureRecovery
<1>11. CASE CreateService
  BY <1>11, ServiceUnchanged DEF CreateService
<1>12. CASE StartService
  BY <1>12, <1>8, <1>1 DEF StartService
<1>13. CASE StopForRemoval
  BY <1>13, <1>9, <1>1 DEF StopForRemoval
<1>14. CASE DeleteService
  BY <1>14 DEF DeleteService
<1> QED
  BY ServiceChanged, <1>1, <1>2, <1>3, <1>4, <1>5, <1>6, <1>7, <1>8, <1>9, <1>10, <1>11,
     <1>12, <1>13, <1>14 DEF ProcessStep, InstallerStep

LEMMA FlagsStep == ServiceOK /\ FlagsOK /\ [Next]_vars => FlagsOK'
<1> SUFFICES ASSUME ServiceOK, FlagsOK, [Next]_vars PROVE FlagsOK'
  OBVIOUS
<1> USE DEF FlagsOK
<1>1. CASE UNCHANGED serviceVars
  BY <1>1, ServiceUnchanged
<1>2. CASE Load \/ Bind \/ ReceiveStop
  BY <1>2 DEF Load, Bind, ReceiveStop
<1>3. CASE ReportStopped
  BY <1>3 DEF ReportStopped, Ended
<1>4. CASE Crash
  BY <1>4 DEF Crash, Ended
<1>5. CASE Reboot
  BY <1>5 DEF Reboot
<1>6. CASE StartProcess
  BY <1>6 DEF StartProcess
<1>7. CASE SendStop
  BY <1>7 DEF SendStop
<1>8. CASE AdminFails \/ ConfigureRecovery
  <2>1. UNCHANGED scm /\ UNCHANGED marked /\ UNCHANGED due /\ UNCHANGED stop
    BY <1>8 DEF AdminFails, ConfigureRecovery
  <2>2. UNCHANGED recovery \/ recovery' = TRUE
    BY <1>8 DEF AdminFails, ConfigureRecovery
  <2> QED
    BY <2>1, <2>2
<1>9. CASE CreateService
  <2>1. CASE scm = "absent"
    <3>1. scm' = "stopped" /\ recovery' = FALSE /\ UNCHANGED marked /\ UNCHANGED due /\ UNCHANGED stop
      BY <1>9, <2>1 DEF CreateService
    <3> QED
      BY <2>1, <3>1
  <2>2. CASE scm # "absent"
    BY <1>9, <2>2, <1>1 DEF CreateService
  <2> QED
    BY <2>1, <2>2
<1>10. CASE StartService
  BY <1>10, <1>6, <1>1 DEF StartService
<1>11. CASE StopForRemoval
  BY <1>11, <1>7, <1>1 DEF StopForRemoval
<1>12. CASE DeleteService
  <2>1. UNCHANGED stop /\ UNCHANGED recovery
    BY <1>12 DEF DeleteService
  <2>2. \/ UNCHANGED scm /\ UNCHANGED marked /\ UNCHANGED due
        \/ scm = "stopped" /\ scm' = "absent" /\ due' = FALSE /\ UNCHANGED marked
        \/ scm = "running" /\ marked' = TRUE /\ UNCHANGED scm /\ UNCHANGED due
    BY <1>12 DEF DeleteService, ServiceOK
  <2>3. recovery' \in BOOLEAN /\ stop' \in BOOLEAN
    BY <2>1
  <2>4. CASE UNCHANGED scm /\ UNCHANGED marked /\ UNCHANGED due
    BY <2>1, <2>3, <2>4
  <2>5. CASE scm = "stopped" /\ scm' = "absent" /\ due' = FALSE /\ UNCHANGED marked
    BY <2>1, <2>3, <2>5
  <2>6. CASE scm = "running" /\ marked' = TRUE /\ UNCHANGED scm /\ UNCHANGED due
    BY <2>1, <2>3, <2>6
  <2> QED
    BY <2>2, <2>4, <2>5, <2>6
<1> QED
  BY ServiceChanged, <1>1, <1>2, <1>3, <1>4, <1>5, <1>6, <1>7, <1>8, <1>9, <1>10, <1>11,
     <1>12 DEF ProcessStep, InstallerStep

LEMMA PortsStep == PortsOK /\ [Next]_vars => PortsOK'
<1> SUFFICES ASSUME PortsOK, [Next]_vars PROVE PortsOK'
  OBVIOUS
<1> USE DEF PortsOK
<1>1. CASE UNCHANGED portVars
  BY <1>1, PortsUnchanged
<1>2. CASE Load
  BY <1>2, PortLoaded DEF Load
<1>3. CASE Bind \/ ReceiveStop \/ Crash \/ Reboot
  BY <1>3 DEF Bind, ReceiveStop, Crash, Reboot
<1>4. CASE InstallConfig
  BY <1>4, PortLoaded DEF InstallConfig
<1>5. CASE EditPort \/ OtherBinds \/ OtherReleases
  BY <1>5 DEF EditPort, OtherBinds, OtherReleases
<1> QED
  BY PortsChanged, <1>1, <1>2, <1>3, <1>4, <1>5

(* Only these steps disturb who listens where; the rest leave the process in *)
(* its place and the ports alone.                                            *)
LEMMA ListenStep == ServiceOK /\ PortsOK /\ ListenOK /\ [Next]_vars => ListenOK'
<1> SUFFICES ASSUME ServiceOK, PortsOK, ListenOK, [Next]_vars PROVE ListenOK'
  OBVIOUS
<1> USE DEF ListenOK
<1>1. CASE UNCHANGED <<proc, listen, busy>>
  BY <1>1
<1>2. CASE Load
  BY <1>2, PortLoaded DEF Load, PortsOK
<1>3. CASE Bind \/ ReceiveStop
  BY <1>3 DEF Bind, ReceiveStop
<1>4. CASE ReportStopped \/ AutoStart \/ Operator \/ StartService
  <2>1. UNCHANGED listen /\ UNCHANGED busy
    BY <1>4, PortsUnchanged DEF ReportStopped, AutoStart, Operator, StartService
  <2>2. UNCHANGED proc \/ (proc \in {"none", "ending"} /\ proc' \in {"none", "starting"})
    BY <1>4, ServiceUnchanged
    DEF ReportStopped, AutoStart, Operator, StartService, StartProcess, SendStop, ServiceOK
  <2> QED
    BY <2>1, <2>2
<1>5. CASE Crash \/ Reboot
  BY <1>5 DEF Crash, Reboot
<1>6. CASE OtherBinds
  <2>1. UNCHANGED proc /\ UNCHANGED listen
    BY <1>6, ServiceUnchanged DEF OtherBinds
  <2>2. PICK p \in RecPorts : ~(proc = "serving" /\ p = listen) /\ busy' = busy \union {p}
    BY <1>6 DEF OtherBinds
  <2> QED
    BY <2>1, <2>2
<1>7. CASE OtherReleases
  <2>1. UNCHANGED proc /\ UNCHANGED listen /\ busy' \subseteq busy
    BY <1>7, ServiceUnchanged DEF OtherReleases
  <2> QED
    BY <2>1
<1>8. CASE EditPort \/ InstallConfig \/ GuestRestarts \/ Begin("config") \/ Begin("stop")
  <2>1. UNCHANGED <<proc, listen, busy>>
    BY <1>8, ServiceUnchanged, PortsUnchanged DEF EditPort, InstallConfig, GuestRestarts, Begin
  <2> QED
    BY <2>1
<1>9. CASE AdminFails \/ CreateService \/ ConfigureRecovery \/ AddRule
  <2>1. UNCHANGED <<proc, listen, busy>>
    BY <1>9, ServiceUnchanged, PortsUnchanged DEF AdminFails, CreateService, ConfigureRecovery, AddRule
  <2> QED
    BY <2>1
<1>10. CASE StopForRemoval \/ DeleteService \/ RemoveRule
  <2>1. UNCHANGED <<proc, listen, busy>>
    BY <1>10, ServiceUnchanged, PortsUnchanged DEF StopForRemoval, DeleteService, RemoveRule, SendStop
  <2> QED
    BY <2>1
<1>11. CASE UNCHANGED hostVars
  BY <1>11, HostUnchanged, ServiceUnchanged, PortsUnchanged
<1> QED
  BY NextCases, <1>2, <1>3, <1>4, <1>5, <1>6, <1>7, <1>8, <1>9, <1>10, <1>11

LEMMA AdminStep == AdminOK /\ PortsOK /\ [Next]_vars => AdminOK'
<1> SUFFICES ASSUME AdminOK, PortsOK, [Next]_vars PROVE AdminOK'
  OBVIOUS
<1> USE DEF AdminOK
<1>1. CASE UNCHANGED adminVars
  BY <1>1, AdminUnchanged
<1>2. CASE Reboot
  BY <1>2 DEF Reboot
<1>3. CASE Begin("config") \/ Begin("stop")
  BY <1>3 DEF Begin
<1>4. CASE InstallConfig
  BY <1>4, PortLoaded DEF InstallConfig, PortsOK
<1>5. CASE AddRule
  BY <1>5 DEF AddRule, Step, Finish
<1>6. CASE RemoveRule
  BY <1>6 DEF RemoveRule, Step, Finish
<1>7. CASE AdminFails \/ CreateService
  BY <1>7 DEF AdminFails, CreateService, Step, Finish
<1>8. CASE ConfigureRecovery \/ StartService
  BY <1>8 DEF ConfigureRecovery, StartService, Step, Finish
<1>9. CASE StopForRemoval
  BY <1>9 DEF StopForRemoval, Step, Finish
<1>10. CASE DeleteService
  BY <1>10 DEF DeleteService, Step, Finish
<1> QED
  BY AdminChanged, <1>1, <1>2, <1>3, <1>4, <1>5, <1>6, <1>7, <1>8, <1>9, <1>10 DEF InstallerStep

\* Only AddRule and RemoveRule touch the rules, and only RemoveRule and a boot the history of netsh.
LEMMA RulesChanged ==
  ASSUME [Next]_vars
  PROVE  /\ UNCHANGED rules \/ AddRule \/ RemoveRule
         /\ UNCHANGED netshLost \/ RemoveRule \/ Reboot
<1>1. CASE UNCHANGED adminVars
  BY <1>1, AdminUnchanged
<1>2. CASE Reboot \/ Begin("config") \/ Begin("stop") \/ InstallConfig \/ AddRule
  BY <1>2 DEF Reboot, Begin, InstallConfig, AddRule
<1>3. CASE AdminFails \/ CreateService \/ ConfigureRecovery \/ StartService
  BY <1>3 DEF AdminFails, CreateService, ConfigureRecovery, StartService
<1>4. CASE StopForRemoval \/ DeleteService
  BY <1>4 DEF StopForRemoval, DeleteService
<1> QED
  BY AdminChanged, <1>1, <1>2, <1>3, <1>4 DEF InstallerStep

LEMMA RulesStep == AdminOK /\ RulesOK /\ [Next]_vars => RulesOK'
<1> SUFFICES ASSUME AdminOK, RulesOK, [Next]_vars PROVE RulesOK'
  OBVIOUS
<1>1. (rules \subseteq Protocols \X RecPorts)'
  <2>1. CASE UNCHANGED rules
    BY <2>1 DEF RulesOK
  <2>2. CASE AddRule
    <3>1. CASE chosen = Portless
      <4>1. UNCHANGED rules
        BY <2>2, <3>1 DEF AddRule, Finish, AdminOK
      <4> QED
        BY <4>1 DEF RulesOK
    <3>2. CASE chosen # Portless
      <4>1. chosen \in RecPorts
        BY <2>2, <3>2 DEF AddRule, Step, Finish, AdminOK, ConfigPorts
      <4>2. <<"TCP", chosen>> \in Protocols \X RecPorts /\ <<"UDP", chosen>> \in Protocols \X RecPorts
        BY <4>1 DEF Protocols
      <4>3. rules' = rules \union {<<"TCP", chosen>>} \/ rules' = rules \union {<<"UDP", chosen>>}
        BY <2>2, <3>2 DEF AddRule
      <4> QED
        BY <4>2, <4>3 DEF RulesOK
    <3> QED
      BY <3>1, <3>2
  <2>3. CASE RemoveRule
    <3>1. rules' \subseteq rules
      BY <2>3 DEF RemoveRule
    <3> QED
      BY <3>1 DEF RulesOK
  <2> QED
    BY RulesChanged, <2>1, <2>2, <2>3
<1>2. (netshLost \in BOOLEAN)'
  <2>1. CASE UNCHANGED netshLost
    BY <2>1 DEF RulesOK
  <2>2. CASE RemoveRule
    <3>1. UNCHANGED netshLost \/ netshLost' = TRUE
      BY <2>2 DEF RemoveRule
    <3> QED
      BY <3>1 DEF RulesOK
  <2>3. CASE Reboot
    BY <2>3 DEF Reboot
  <2> QED
    BY RulesChanged, <2>1, <2>2, <2>3
<1> QED
  BY <1>1, <1>2 DEF RulesOK

LEMMA CountsStep == CountsOK /\ [Next]_vars => CountsOK'
<1> SUFFICES ASSUME CountsOK, [Next]_vars PROVE CountsOK'
  OBVIOUS
<1>1. adminRuns' \in 0..MaxAdmin
  <2>1. CASE Begin("config") \/ Begin("stop")
    BY <2>1, HostServiceAssumption DEF Begin, CountsOK
  <2>2. CASE UNCHANGED adminRuns
    BY <2>2 DEF CountsOK
  <2>3. Reboot \/ InstallConfig \/ AddRule \/ RemoveRule => UNCHANGED adminRuns
    BY DEF Reboot, InstallConfig, AddRule, RemoveRule, Step, Finish
  <2>4. AdminFails \/ CreateService \/ ConfigureRecovery \/ StartService => UNCHANGED adminRuns
    BY DEF AdminFails, CreateService, ConfigureRecovery, StartService, Step, Finish
  <2>5. StopForRemoval \/ DeleteService => UNCHANGED adminRuns
    BY DEF StopForRemoval, DeleteService, Step, Finish
  <2> QED
    BY AdminChanged, AdminUnchanged, <2>1, <2>2, <2>3, <2>4, <2>5 DEF InstallerStep
<1>2. UNCHANGED faults \/ Fault
  <2>1. Load \/ Bind \/ ReportStopped \/ ReceiveStop \/ Crash \/ Reboot => UNCHANGED faults \/ Fault
    BY DEF Load, Bind, ReportStopped, ReceiveStop, Crash, Reboot
  <2>2. AutoStart \/ Operator \/ EditPort \/ OtherBinds \/ OtherReleases => UNCHANGED faults \/ Fault
    BY DEF AutoStart, Operator, EditPort, OtherBinds, OtherReleases
  <2>3. Begin("config") \/ Begin("stop") \/ InstallConfig \/ AddRule => UNCHANGED faults \/ Fault
    BY DEF Begin, InstallConfig, AddRule
  <2>4. AdminFails \/ CreateService \/ ConfigureRecovery \/ StartService => UNCHANGED faults \/ Fault
    BY DEF AdminFails, CreateService, ConfigureRecovery, StartService
  <2>5. StopForRemoval \/ DeleteService \/ GuestRestarts => UNCHANGED faults \/ Fault
    BY DEF StopForRemoval, DeleteService, GuestRestarts
  <2>6. RemoveRule => UNCHANGED faults \/ Fault
    BY DEF RemoveRule
  <2> QED
    BY NextCases, HostUnchanged, <2>1, <2>2, <2>3, <2>4, <2>5, <2>6
<1>3. faults' \in 0..MaxFaults
  BY <1>2, HostServiceAssumption DEF Fault, CountsOK
<1> QED
  BY <1>1, <1>3 DEF CountsOK

LEMMA TargetStep ==
  PortsOK /\ ListenOK /\ target \in RecPorts \union {None} /\ [Next]_vars
    => target' \in RecPorts \union {None}
<1> SUFFICES ASSUME PortsOK, ListenOK, target \in RecPorts \union {None}, [Next]_vars
             PROVE  target' \in RecPorts \union {None}
  OBVIOUS
<1>1. CASE Probe
  <2>1. target' \in HostAnswers \union busy
    BY <1>1 DEF Probe
  <2>2. HostAnswers \subseteq RecPorts \union {None}
    BY DEF HostAnswers, PortsOK, ListenOK, ConfigPorts
  <2> QED
    BY <2>1, <2>2 DEF PortsOK
<1>2. CASE UNCHANGED target \/ LoopEnds \/ GuestRestarts
  BY <1>2 DEF LoopEnds, GuestRestarts
<1> QED
  BY <1>1, <1>2 DEF Next, Guest, vars

LEMMA TypeStep == TypeOK /\ [Next]_vars => TypeOK'
<1> SUFFICES ASSUME TypeOK, [Next]_vars PROVE TypeOK'
  OBVIOUS
<1>1. /\ ServiceOK /\ FlagsOK /\ PortsOK /\ ListenOK /\ AdminOK /\ RulesOK /\ CountsOK
      /\ target \in RecPorts \union {None}
  BY TypeParts
<1>2. /\ ServiceOK' /\ FlagsOK' /\ PortsOK' /\ ListenOK' /\ AdminOK' /\ RulesOK' /\ CountsOK'
      /\ target' \in RecPorts \union {None}
  BY <1>1, ServiceStep, FlagsStep, PortsStep, ListenStep, AdminStep, RulesStep, CountsStep, TargetStep
<1> QED
  BY Zenon, <1>2
  DEF TypeOK, HostTypeOK, ServiceOK, FlagsOK, PortsOK, ListenOK, AdminOK, RulesOK, CountsOK

(* The service, its ports, its rules and the guest that looks for it are     *)
(* always in a state of their types: a process runs exactly while the        *)
(* manager says so, and no other program is bound to the port it serves.     *)
THEOREM TypeCorrect == Spec => []TypeOK
<1>1. Init => TypeOK
  BY TypeInit
<1>2. TypeOK /\ [Next]_vars => TypeOK'
  BY TypeStep
<1> QED
  BY <1>1, <1>2, PTL DEF Spec

-----------------------------------------------------------------------------
\* Removal and installation.

LEMMA OutcomeStep == AdminOK /\ OutcomeInv /\ [Next]_vars => OutcomeInv'
<1> SUFFICES ASSUME AdminOK, OutcomeInv, [Next]_vars PROVE OutcomeInv'
  OBVIOUS
<1> USE DEF OutcomeInv
<1>1. CASE UNCHANGED adminVars
  BY <1>1, AdminUnchanged
<1>2. CASE Reboot
  BY <1>2 DEF Reboot
<1>3. CASE Begin("config") \/ Begin("stop") \/ InstallConfig
  BY <1>3 DEF Begin, InstallConfig
<1>4. CASE AddRule \/ RemoveRule
  BY <1>4 DEF AddRule, RemoveRule, Step, Finish
<1>5. CASE AdminFails \/ CreateService
  BY <1>5 DEF AdminFails, CreateService, Step, Finish
<1>6. CASE ConfigureRecovery \/ StartService
  BY <1>6 DEF ConfigureRecovery, StartService, Step, Finish
<1>7. CASE StopForRemoval \/ DeleteService
  BY <1>7 DEF StopForRemoval, DeleteService, Step, Finish
<1> QED
  BY AdminChanged, <1>1, <1>2, <1>3, <1>4, <1>5, <1>6, <1>7 DEF InstallerStep

\* Every rule is one protocol's, so that without rules of either none is left.
LEMMA NoRules ==
  ASSUME RulesOK, RulesNamed("TCP") = {}, RulesNamed("UDP") = {}
  PROVE  rules = {}
<1>1. ASSUME NEW r \in rules PROVE FALSE
  <2>1. r[1] = "TCP" \/ r[1] = "UDP"
    BY <1>1 DEF RulesOK, Protocols
  <2> QED
    BY <1>1, <2>1 DEF RulesNamed
<1> QED
  BY <1>1

\* A step that makes no netsh call and ends no removal keeps RulesInv.
LEMMA RulesKept ==
  ASSUME RulesInv, UNCHANGED rules, UNCHANGED netshLost,
         admin' # "remove UDP", admin # "remove UDP",
         outcome' = "uninstalled" => outcome = "uninstalled"
  PROVE  RulesInv'
BY DEF RulesInv, RulesNamed

LEMMA RulesInvStep ==
  AdminOK /\ RulesOK /\ OutcomeInv /\ RulesInv /\ InstallInv /\ [Next]_vars => RulesInv'
<1> SUFFICES ASSUME AdminOK, RulesOK, OutcomeInv, RulesInv, InstallInv, [Next]_vars PROVE RulesInv'
  OBVIOUS
<1>1. CASE UNCHANGED adminVars
  BY <1>1, AdminUnchanged DEF RulesInv, RulesNamed
<1>2. CASE Reboot
  <2>1. CASE admin = "remove UDP"
    BY <1>2, <2>1 DEF Reboot, RulesInv
  <2>2. CASE admin = "remove TCP"
    BY <1>2, <2>2 DEF Reboot, RulesInv
  <2>3. CASE admin \notin {"remove TCP", "remove UDP"}
    <3>1. UNCHANGED rules /\ admin' = "idle" /\ (outcome' = outcome \/ outcome' = "failed")
      BY <1>2 DEF Reboot
    <3>2. netshLost' <=> netshLost
      BY <1>2, <2>3 DEF Reboot
    <3> QED
      BY <2>3, <3>1, <3>2 DEF RulesInv, RulesNamed
  <2> QED
    BY <2>1, <2>2, <2>3
<1>3. CASE Begin("config") \/ Begin("stop") \/ InstallConfig
  <2>1. UNCHANGED rules /\ UNCHANGED netshLost /\ admin \in {"idle", "config"}
    BY <1>3 DEF Begin, InstallConfig
  <2>2. admin' \in {"config", "stop", "create"} /\ outcome' \in {"begun", outcome}
    BY <1>3 DEF Begin, InstallConfig
  <2> QED
    BY <2>1, <2>2, RulesKept
<1>4. CASE AddRule
  <2>1. UNCHANGED netshLost /\ admin \in {"add TCP", "add UDP"} /\ admin' \in {"add UDP", "idle"}
    BY <1>4 DEF AddRule, Step, Finish
  <2>2. outcome' # "uninstalled"
    BY <1>4 DEF AddRule, Step, Finish, OutcomeInv
  <2>3. CASE UNCHANGED rules
    BY <2>1, <2>2, <2>3, RulesKept
  <2>4. CASE rules' # rules
    <3>1. <<"TCP", chosen>> \in rules'
      BY <1>4, <2>4 DEF AddRule, Step, Finish, InstallInv
    <3>2. <<"TCP", chosen>> \in RulesNamed("TCP")'
      BY <3>1 DEF RulesNamed
    <3> QED
      BY <2>1, <2>2, <3>2 DEF RulesInv
  <2> QED
    BY <2>3, <2>4
<1>5. CASE RemoveRule
  <2>1. PICK protocol \in Protocols :
          \/ /\ RulesNamed(protocol) # {}
             /\ rules' = rules \ RulesNamed(protocol) /\ UNCHANGED netshLost
             /\ \/ protocol = "TCP" /\ admin = "remove TCP" /\ admin' = "remove UDP" /\ UNCHANGED outcome
                \/ protocol = "UDP" /\ admin = "remove UDP" /\ admin' = "idle"
          \/ /\ RulesNamed(protocol) = {} /\ admin' = "idle"
             /\ UNCHANGED rules /\ UNCHANGED netshLost
             /\ \/ protocol = "TCP" /\ admin = "remove TCP"
                \/ protocol = "UDP" /\ admin = "remove UDP"
          \/ netshLost' = TRUE
    BY <1>5 DEF RemoveRule, Step, Finish, Protocols
  <2>2. CASE netshLost'
    BY <2>2 DEF RulesInv
  <2>3. CASE /\ protocol = "TCP" /\ rules' = rules \ RulesNamed("TCP") /\ UNCHANGED netshLost
             /\ admin = "remove TCP" /\ admin' = "remove UDP" /\ UNCHANGED outcome
    <3>1. RulesNamed("TCP")' = {}
      BY <2>3 DEF RulesNamed
    <3>2. outcome' = "begun"
      BY <2>3 DEF OutcomeInv
    <3> QED
      BY <2>3, <3>1, <3>2 DEF RulesInv
  <2>4. CASE /\ protocol = "UDP" /\ rules' = rules \ RulesNamed("UDP") /\ UNCHANGED netshLost
             /\ admin = "remove UDP" /\ admin' = "idle"
    <3>1. CASE netshLost
      BY <2>4, <3>1 DEF RulesInv
    <3>2. CASE ~netshLost
      <4>1. RulesNamed("TCP") = {}
        BY <2>4, <3>2 DEF RulesInv
      <4>2. RulesNamed("TCP")' = {} /\ RulesNamed("UDP")' = {} /\ RulesOK'
        BY <2>4, <4>1, RulesStep DEF RulesNamed
      <4>3. rules' = {}
        <5>1. ASSUME NEW r \in rules' PROVE FALSE
          <6>1. r[1] = "TCP" \/ r[1] = "UDP"
            BY <4>2, <5>1 DEF RulesOK, Protocols
          <6> QED
            BY <4>2, <5>1, <6>1 DEF RulesNamed
        <5> QED
          BY <5>1
      <4> QED
        BY <2>4, <4>2, <4>3 DEF RulesInv
    <3> QED
      BY <3>1, <3>2
  <2>5. CASE /\ RulesNamed(protocol) = {} /\ admin' = "idle" /\ UNCHANGED rules /\ UNCHANGED netshLost
             /\ \/ protocol = "TCP" /\ admin = "remove TCP"
                \/ protocol = "UDP" /\ admin = "remove UDP"
    <3>1. CASE netshLost
      BY <2>5, <3>1 DEF RulesInv
    <3>2. CASE ~netshLost
      <4>1. RulesNamed("TCP") = {} /\ RulesNamed("UDP") = {}
        BY <2>5, <3>2 DEF RulesInv
      <4>2. rules = {}
        BY <4>1, NoRules
      <4> QED
        BY <2>5, <4>2 DEF RulesInv, RulesNamed
    <3> QED
      BY <3>1, <3>2
  <2> QED
    BY <2>1, <2>2, <2>3, <2>4, <2>5
<1>6. CASE AdminFails
  <2>1. UNCHANGED rules /\ UNCHANGED netshLost /\ admin # "remove UDP" /\ admin' = "idle" /\ outcome' = "failed"
    BY <1>6 DEF AdminFails, Finish
  <2> QED
    BY <2>1, RulesKept
<1>7. CASE CreateService \/ ConfigureRecovery \/ StartService
  <2>1. UNCHANGED rules /\ UNCHANGED netshLost /\ admin # "remove UDP" /\ admin' # "remove UDP"
    BY <1>7 DEF CreateService, ConfigureRecovery, StartService, Step, Finish
  <2>2. outcome' \in {"failed", outcome}
    BY <1>7 DEF CreateService, ConfigureRecovery, StartService, Step, Finish
  <2> QED
    BY <2>1, <2>2, RulesKept
<1>8. CASE StopForRemoval \/ DeleteService
  <2>1. UNCHANGED rules /\ UNCHANGED netshLost /\ admin # "remove UDP" /\ admin' # "remove UDP"
    BY <1>8 DEF StopForRemoval, DeleteService, Step, Finish
  <2>2. outcome' \in {"failed", outcome}
    BY <1>8 DEF StopForRemoval, DeleteService, Step, Finish
  <2> QED
    BY <2>1, <2>2, RulesKept
<1> QED
  BY AdminChanged, <1>1, <1>2, <1>3, <1>4, <1>5, <1>6, <1>7, <1>8 DEF InstallerStep

\* Only a created service and a call of sc.exe change the failure actions.
LEMMA RecoveryChanged ==
  ASSUME [Next]_vars
  PROVE  UNCHANGED recovery \/ AdminFails \/ CreateService \/ ConfigureRecovery
<1>1. CASE Load \/ Bind \/ ReportStopped \/ ReceiveStop \/ Crash \/ Reboot
  BY <1>1 DEF Load, Bind, ReportStopped, ReceiveStop, Crash, Reboot
<1>2. CASE StartProcess \/ SendStop \/ StartService
  BY <1>2, ServiceUnchanged DEF StartProcess, SendStop, StartService
<1>3. CASE StopForRemoval \/ DeleteService
  BY <1>3, ServiceUnchanged DEF StopForRemoval, SendStop, DeleteService
<1> QED
  BY ServiceChanged, ServiceUnchanged, <1>1, <1>2, <1>3 DEF ProcessStep, InstallerStep

LEMMA RulesOfPortAre ==
  ASSUME NEW p
  PROVE  Protocols \X {p} \subseteq {<<"TCP", p>>, <<"UDP", p>>}
<1>1. ASSUME NEW r \in {"TCP", "UDP"} \X {p} PROVE r \in {<<"TCP", p>>, <<"UDP", p>>}
  BY <1>1
<1> QED
  BY <1>1 DEF Protocols

LEMMA InstallInvStep ==
  AdminOK /\ OutcomeInv /\ InstallInv /\ [Next]_vars => InstallInv'
<1> SUFFICES ASSUME AdminOK, OutcomeInv, InstallInv, [Next]_vars PROVE InstallInv'
  OBVIOUS
<1> USE DEF InstallInv, InstallComplete
<1>1. CASE UNCHANGED adminVars
  <2>1. UNCHANGED recovery
    <3>1. ~AdminFails /\ ~CreateService /\ ~ConfigureRecovery
      BY <1>1, AdminUnchanged DEF AdminFails, CreateService, ConfigureRecovery, Step, Finish
    <3> QED
      BY <3>1, RecoveryChanged
  <2> QED
    BY <1>1, <2>1, AdminUnchanged
<1>2. CASE Reboot
  <2>1. UNCHANGED recovery /\ UNCHANGED rules /\ UNCHANGED chosen
    BY <1>2 DEF Reboot
  <2>2. admin' = "idle" /\ outcome' \in {outcome, "failed"}
    BY <1>2 DEF Reboot
  <2> QED
    BY <2>1, <2>2
<1>3. CASE Begin("config") \/ Begin("stop") \/ InstallConfig
  BY <1>3 DEF Begin, InstallConfig, OutcomeInv
<1>4. CASE AddRule
  <2>1. UNCHANGED recovery /\ recovery
    BY <1>4, ServiceUnchanged DEF AddRule, Step, Finish
  <2>2. CASE admin = "add TCP"
    BY <1>4, <2>1, <2>2 DEF AddRule, Step, Finish, OutcomeInv
  <2>3. CASE admin = "add UDP"
    <3>1. admin' = "idle" /\ UNCHANGED chosen
      BY <1>4, <2>3 DEF AddRule, Step, Finish
    <3>2. {<<"TCP", chosen>>, <<"UDP", chosen>>} \subseteq rules'
      BY <1>4, <2>3 DEF AddRule, Step, Finish
    <3>3. Protocols \X {chosen} \subseteq rules'
      BY <3>2, RulesOfPortAre
    <3> QED
      BY <2>1, <3>1, <3>3
  <2> QED
    BY <1>4, <2>2, <2>3 DEF AddRule, Step, Finish
<1>5. CASE RemoveRule \/ AdminFails
  <2>1. admin' \in {"idle", "remove UDP"} /\ outcome' \in {"uninstalled", "failed", "begun"}
    BY <1>5 DEF RemoveRule, AdminFails, Step, Finish, OutcomeInv
  <2> QED
    BY <2>1
<1>6. CASE CreateService
  <2>1. admin' \in {"idle", "recovery"} /\ outcome' \in {"failed", "begun"}
    BY <1>6 DEF CreateService, Step, Finish, OutcomeInv
  <2> QED
    BY <2>1
<1>7. CASE ConfigureRecovery
  <2>1. recovery' = TRUE /\ admin' = "start" /\ outcome' = "begun"
    BY <1>7 DEF ConfigureRecovery, Step, OutcomeInv
  <2> QED
    BY <2>1
<1>8. CASE StartService
  <2>1. UNCHANGED recovery /\ recovery /\ admin' \in {"idle", "add TCP"} /\ outcome' \in {"failed", "begun"}
    BY <1>8, ServiceUnchanged DEF StartService, StartProcess, Step, Finish, OutcomeInv
  <2> QED
    BY <2>1
<1>9. CASE StopForRemoval \/ DeleteService
  <2>1. admin' \in {"idle", "delete", "remove TCP"} /\ outcome' \in {"failed", "begun"}
    BY <1>9 DEF StopForRemoval, DeleteService, Step, Finish, OutcomeInv
  <2> QED
    BY <2>1
<1> QED
  BY AdminChanged, <1>1, <1>2, <1>3, <1>4, <1>5, <1>6, <1>7, <1>8, <1>9 DEF InstallerStep

LEMMA IInvHolds == Spec => []IInv
<1>1. Init => IInv
  <2>1. Init => OutcomeInv /\ RulesInv /\ InstallInv
    BY DEF Init, HostInit, OutcomeInv, RulesInv, RulesNamed, InstallInv, InstallComplete
  <2> QED
    BY <2>1, TypeInit DEF IInv
<1>2. IInv /\ [Next]_vars => IInv'
  BY TypeParts, TypeStep, OutcomeStep, RulesInvStep, InstallInvStep DEF IInv
<1> QED
  BY <1>1, <1>2, PTL DEF Spec

(* Whatever configuration files, reboots and installations came before: a    *)
(* removal whose netsh calls were all made leaves no rule of any port.       *)
THEOREM RemovalComplete == Spec => []UninstallRemovesRules
<1>1. IInv => UninstallRemovesRules
  BY DEF IInv, RulesInv, UninstallRemovesRules
<1> QED
  BY <1>1, IInvHolds, PTL

(* An installation that reports success left failure actions and, unless its *)
(* configuration names no port, that port open for both protocols, and both  *)
(* stay so until another command begins, whatever files are edited.          *)
THEOREM InstallationComplete == Spec => []InstallComplete
<1>1. IInv => InstallComplete
  BY DEF IInv, InstallInv
<1> QED
  BY <1>1, IInvHolds, PTL
=============================================================================
