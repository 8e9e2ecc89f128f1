----------------------------- MODULE GuestAgent -----------------------------
(***************************************************************************)
(* The guest agent's concurrent tasks in one process                       *)
(* (src/src/bin/guest.rs): the connection loop that executes the host's    *)
(* commands (run_udp_loop), the loop that reclaims on its own              *)
(* (local_reclaim_loop, deciding by GuestLocalReclaimer::decide), and the  *)
(* task that reloads the configuration (spawn_config_reloader).  They      *)
(* share host_last_cmd and the runtime configuration.                      *)
(*                                                                         *)
(* An Instant is kept as its age, saturated at the delay it is compared    *)
(* with: a time that was never set behaves as one that is long past.       *)
(***************************************************************************)
EXTENDS Naturals, Sequences

CONSTANTS
  HostDefer,       \* host_defer: silence after a host command
  LocalCooldown,   \* cooldown between local reclaims
  SustainedTicks,  \* sustained_ticks
  HistoryMax       \* samples the local reclaimer keeps: 10 in the code

ASSUME DelaysAssumption == HostDefer \in Nat /\ LocalCooldown \in Nat
ASSUME SustainedAssumption == SustainedTicks \in Nat
ASSUME HistoryMaxAssumption == HistoryMax \in Nat \ {0}

VARIABLES
  conn,          \* where the connection loop stands
  rt_allow_drop, \* allow_drop of the loop's snapshot rt
  host_last_cmd, \* age of the shared stamp
  local,         \* where the local loop stands
  seen,          \* age of hlc, the local loop's copy of the stamp
  last_action,   \* age of the last local reclaim
  history,       \* the local reclaimer's samples, oldest first
  allow_drop,    \* allow_drop of the shared runtime configuration
  quiet,         \* history variable: age of the last command handled
  overtaken,     \* history variable: handled since the local loop copied the stamp
  lateDrops      \* history variable: drops run since allow_drop was revoked

stampVars == <<host_last_cmd, quiet, overtaken>>
connVars == <<conn, rt_allow_drop, stampVars, lateDrops>>
localVars == <<local, seen, last_action, history>>
vars == <<connVars, localVars, allow_drop>>

(* What decide distinguishes in a sample: a file cache below the moderate    *)
(* ratio, at it in a busy or an idle guest, or heavy (above the heavy ratio, *)
(* or moderate with little memory available).                                *)
Samples == {"low", "busy", "idle", "heavy"}

Actions == {"reclaim", "compact", "drop_caches"}

Older(age, delay) == IF age < delay THEN age + 1 ELSE delay

Init ==
  /\ conn = "top" /\ rt_allow_drop = FALSE
  /\ host_last_cmd = HostDefer /\ quiet = HostDefer /\ overtaken = FALSE
  /\ local = "sleep" /\ seen = HostDefer /\ last_action = LocalCooldown /\ history = <<>>
  /\ allow_drop \in BOOLEAN
  /\ lateDrops = 0

-----------------------------------------------------------------------------
\* Connection loop.

\* Mutant: a permission once seen is kept.
SnapshotKeeps ==
  /\ conn = "top"
  /\ conn' = "recv" /\ rt_allow_drop' = (rt_allow_drop \/ allow_drop)
  /\ UNCHANGED <<stampVars, lateDrops, localVars, allow_drop>>

\* The top of an iteration: the configuration is read once, metrics are sent.
Snapshot ==
  /\ conn = "top"
  /\ conn' = "recv" /\ rt_allow_drop' = allow_drop
  /\ UNCHANGED <<stampVars, lateDrops, localVars, allow_drop>>

NoCommand ==
  /\ conn = "recv"
  /\ conn' = "top"
  /\ UNCHANGED <<rt_allow_drop, stampVars, lateDrops, localVars, allow_drop>>

(* A new command starts to execute, under the permission of the snapshot;    *)
(* drop_caches without it is answered with an error.                         *)
StartCommand(action) ==
  /\ conn = "recv"
  /\ conn' = "exec"
  /\ lateDrops' = IF action = "drop_caches" /\ rt_allow_drop /\ ~allow_drop
                    THEN lateDrops + 1 ELSE lateDrops
  /\ UNCHANGED <<rt_allow_drop, stampVars, localVars, allow_drop>>

\* A command has been handled; host_last_cmd is set.
Stamp == host_last_cmd' = 0 /\ quiet' = 0 /\ overtaken' = TRUE

\* The command is over and answered: only now is host_last_cmd set.
FinishCommand ==
  /\ conn = "exec"
  /\ conn' = "top" /\ Stamp
  /\ UNCHANGED <<rt_allow_drop, lateDrops, localVars, allow_drop>>

\* Mutant: an answer from the cache is not stamped.
AnswerUnstamped ==
  /\ conn = "recv"
  /\ conn' = "top" /\ quiet' = 0
  /\ UNCHANGED <<rt_allow_drop, host_last_cmd, overtaken, lateDrops, localVars, allow_drop>>

\* A command found in the cache is answered at once, and counts as one.
AnswerDuplicate ==
  /\ conn = "recv"
  /\ conn' = "top" /\ Stamp
  /\ UNCHANGED <<rt_allow_drop, lateDrops, localVars, allow_drop>>

-----------------------------------------------------------------------------
\* Local loop.

\* Mutant: the window is trimmed one sample too late.
PushedLate(s) ==
  IF Len(history) <= HistoryMax THEN Append(history, s) ELSE Append(Tail(history), s)

\* push: append, and drop the oldest beyond HistoryMax.
Pushed(s) ==
  IF Len(history) < HistoryMax THEN Append(history, s) ELSE Append(Tail(history), s)

Sustained(h) ==
  /\ Len(h) >= SustainedTicks
  /\ \A i \in (Len(h) - SustainedTicks + 1)..Len(h) : h[i] # "low"

\* Mutant: the comparison with host_defer is turned around.
DecidesWhileFresh ==
  /\ seen < HostDefer
  /\ last_action = LocalCooldown
  /\ history[Len(history)] \in {"idle", "heavy"}
  /\ Sustained(history)

\* GuestLocalReclaimer::decide, on the copy of the stamp and the window.
Decides ==
  /\ seen = HostDefer
  /\ last_action = LocalCooldown
  /\ history[Len(history)] \in {"idle", "heavy"}
  /\ Sustained(history)

(* A tick: push a sample and copy the stamp, whose mutex is free again       *)
(* afterwards.  A sample that cannot be taken leaves everything as it is.    *)
LocalSample(s) ==
  /\ local = "sleep"
  /\ local' = "decide" /\ seen' = host_last_cmd /\ overtaken' = FALSE
  /\ history' = Pushed(s)
  /\ UNCHANGED <<conn, rt_allow_drop, host_last_cmd, quiet, lateDrops, last_action, allow_drop>>

Decide ==
  /\ local = "decide"
  /\ IF Decides
       THEN local' = "start" /\ last_action' = 0
       ELSE local' = "sleep" /\ UNCHANGED last_action
  /\ UNCHANGED <<connVars, seen, history, allow_drop>>

\* execute_reclaim is called.
StartReclaim ==
  /\ local = "start"
  /\ local' = "reclaim"
  /\ UNCHANGED <<connVars, seen, last_action, history, allow_drop>>

FinishLocal ==
  /\ local = "reclaim"
  /\ local' = "sleep"
  /\ UNCHANGED <<connVars, seen, last_action, history, allow_drop>>

-----------------------------------------------------------------------------
\* The reloader publishes a configuration with another allow_drop.
Reload ==
  /\ allow_drop' = ~allow_drop
  /\ lateDrops' = 0
  /\ UNCHANGED <<conn, rt_allow_drop, stampVars, localVars>>

Tick ==
  /\ host_last_cmd' = Older(host_last_cmd, HostDefer)
  /\ quiet' = Older(quiet, HostDefer)
  /\ seen' = Older(seen, HostDefer)
  /\ last_action' = Older(last_action, LocalCooldown)
  /\ UNCHANGED <<conn, rt_allow_drop, overtaken, lateDrops, local, history, allow_drop>>

\* The process is restarted: every task begins anew and no stamp is set.
Restart ==
  /\ conn' = "top" /\ rt_allow_drop' = FALSE
  /\ host_last_cmd' = HostDefer /\ quiet' = HostDefer /\ overtaken' = FALSE
  /\ local' = "sleep" /\ seen' = HostDefer
  /\ last_action' = LocalCooldown /\ history' = <<>>
  /\ lateDrops' = 0
  /\ UNCHANGED allow_drop

Connection ==
  Snapshot \/ NoCommand \/ FinishCommand \/ AnswerDuplicate
    \/ \E a \in Actions : StartCommand(a)

LocalLoop == Decide \/ StartReclaim \/ FinishLocal \/ \E s \in Samples : LocalSample(s)

Next == Connection \/ LocalLoop \/ Reload \/ Tick \/ Restart

Spec == Init /\ [][Next]_vars

\* Both loops are tasks of a running runtime, and time passes.
FairSpec == Spec /\ WF_vars(Connection) /\ WF_vars(LocalLoop) /\ WF_vars(Tick)

-----------------------------------------------------------------------------
TypeOK ==
  /\ conn \in {"top", "recv", "exec"}
  /\ rt_allow_drop \in BOOLEAN /\ allow_drop \in BOOLEAN
  /\ host_last_cmd \in 0..HostDefer /\ quiet \in 0..HostDefer /\ overtaken \in BOOLEAN
  /\ local \in {"sleep", "decide", "start", "reclaim"} /\ seen \in 0..HostDefer
  /\ last_action \in 0..LocalCooldown
  /\ history \in Seq(Samples) /\ Len(history) <= HistoryMax
  /\ lateDrops \in Nat

(* Revoking allow_drop while the agent runs lets at most one more            *)
(* drop_caches through: the one an iteration that had already read its       *)
(* configuration is about to execute (run_udp_loop).                         *)
AtMostOneLateDrop == lateDrops <= 1

(* The local loop starts no reclaim within HostDefer of a command the agent  *)
(* handled, be it executed, refused or answered from the cache, unless the   *)
(* loop had copied the stamp before: a command handled between that copy and *)
(* the start of the reclaim does not stop this one reclaim (guest.rs:1044).  *)
LocalYields ==
  [][ local = "start" /\ local' = "reclaim" => quiet = HostDefer \/ overtaken ]_vars

(* With a host that stays silent and a file cache that stays high, the local *)
(* loop reclaims again and again: it becomes the sole reclamation authority  *)
(* (guest.rs:1018).                                                          *)
PressureStays == history # <<>> /\ history[Len(history)] \in {"idle", "heavy"}

LocalTakesOver ==
  <>[](quiet = HostDefer /\ PressureStays) => []<>(local = "reclaim")

(* What the comment on the local loop says (guest.rs:1017): while the host   *)
(* is connected and issuing commands, the loop stays silent, so it does not  *)
(* start a reclaim while one of them executes.                               *)
SilentDuringCommands ==
  [][ local = "start" /\ local' = "reclaim" => conn # "exec" ]_vars

(* What the comment on sustained_ticks says (elastic_reclaim.rs:531): it is  *)
(* the number of consecutive ticks needed before acting, so that with no     *)
(* host the loop acts in the end while every tick finds the cache high.      *)
ActsAfterSustainedTicks == LocalTakesOver
=============================================================================
