-------------------------- MODULE ElasticReclaimer --------------------------
(***************************************************************************)
(* The host's decision engine (src/src/elastic_reclaim.rs,                 *)
(* ElasticReclaimer) as it is driven for one guest: every metrics message  *)
(* is pushed and then decided on (src/src/bin/host/main.rs,                *)
(* process_elastic_metrics), with time passing in between.                 *)
(*                                                                         *)
(* `commands' is a history variable: it records each command the engine    *)
(* returned, the tier whose cooldown it charged, when, and on what         *)
(* evidence.  No action reads it.                                          *)
(***************************************************************************)
EXTENDS PressureScore

CONSTANTS
  HistoryMax,   \* samples kept: 10 in the code
  MaxTime       \* bound on the clock

ASSUME HistoryMaxAssumption == HistoryMax \in Nat \ {0}
ASSUME MaxTimeAssumption == MaxTime \in Nat

VARIABLES
  history,      \* metrics_history, oldest first
  last_time,    \* last_moderate_time, last_heavy_time, last_critical_time
  now,          \* Instant::now()
  commands      \* history variable: the commands decided so far

vars == <<history, last_time, now, commands>>

Tiers == {"moderate", "heavy", "critical"}
Never == -1     \* Option::None of a last_*_time

Cooldown(tier) ==
  IF tier = "moderate" THEN Config["cooldown_moderate"]
  ELSE IF tier = "heavy" THEN Config["cooldown_heavy"] ELSE Config["cooldown_critical"]

CooldownElapsed(tier) ==
  last_time[tier] = Never \/ now - last_time[tier] >= Cooldown(tier)

-----------------------------------------------------------------------------
Init ==
  /\ history = <<>>
  /\ last_time = [tier \in Tiers |-> Never]
  /\ now = 0
  /\ commands = {}

\* Mutant: the window is trimmed one sample too late.
PushedLate(m) ==
  IF Len(history) <= HistoryMax THEN Append(history, m) ELSE Append(Tail(history), m)

\* push_metrics: append, and drop the oldest beyond HistoryMax.
Pushed(m) ==
  IF Len(history) < HistoryMax THEN Append(history, m) ELSE Append(Tail(history), m)

\* A command charges its tier's cooldown in the step that decides it.
Issue(tier, action, bytes, m) ==
  /\ last_time' = [last_time EXCEPT ![tier] = now]
  /\ commands' = commands \union
       {[tier |-> tier, action |-> action, bytes |-> bytes, at |-> now, on |-> m]}

NoAction == UNCHANGED <<last_time, commands>>

IssueReclaim(tier, fraction, capRatio, m) ==
  Issue(tier, "reclaim", ReclaimBytes(m, fraction, capRatio), m)

DecideModerate(m) ==
  IF CooldownElapsed("moderate")
    THEN IssueReclaim("moderate", Config["reclaim_ratio_moderate"],
                      Config["reclaim_cap_moderate"], m)
    ELSE NoAction

\* The arm of a Heavy level: compaction once two dimensions are sustained.
DecideHeavy(h, m) ==
  IF ~CooldownElapsed("heavy") THEN NoAction
  ELSE IF SustainedPressure(h) >= 2 THEN Issue("heavy", "compact", 0, m)
  ELSE IssueReclaim("heavy", Config["reclaim_ratio_heavy"], Config["reclaim_cap_heavy"], m)

\* Mutant: the fallback forgets the heavy cooldown.
FallbackAlways(m) ==
  IssueReclaim("heavy", Config["reclaim_ratio_heavy"], Config["reclaim_cap_heavy"], m)

FallbackHeavy(m) ==
  IF CooldownElapsed("heavy")
    THEN IssueReclaim("heavy", Config["reclaim_ratio_heavy"], Config["reclaim_cap_heavy"], m)
    ELSE NoAction

\* Mutant: the guest need not be idle.
CriticalWhenBusy(m) ==
  IF CooldownElapsed("critical") THEN Issue("critical", "drop_caches", 0, m) ELSE FallbackHeavy(m)

\* Mutant: the critical cooldown is charged before the guest is found busy.
CriticalChargedEarly(m) ==
  IF ~CooldownElapsed("critical") THEN FallbackHeavy(m)
  ELSE IF IsSystemIdle(m) THEN Issue("critical", "drop_caches", 0, m)
  ELSE last_time' = [last_time EXCEPT !["critical"] = now] /\ UNCHANGED commands

DecideCritical(m) ==
  IF CooldownElapsed("critical") /\ IsSystemIdle(m)
    THEN Issue("critical", "drop_caches", 0, m)
    ELSE FallbackHeavy(m)

\* One metrics message: push_metrics, then decide_action on the newest sample.
Metrics(m) ==
  LET h     == Pushed(m)
      level == PressureLevel(h)
  IN  /\ history' = h
      /\ \/ level \in {"None", "Mild"} /\ NoAction
         \/ level = "Moderate" /\ DecideModerate(m)
         \/ level = "Heavy" /\ DecideHeavy(h, m)
         \/ level = "Critical" /\ DecideCritical(m)
      /\ UNCHANGED now

Tick ==
  /\ now < MaxTime
  /\ now' = now + 1
  /\ UNCHANGED <<history, last_time, commands>>

Next == Tick \/ \E m \in Samples : Metrics(m)

Spec == Init /\ [][Next]_vars

-----------------------------------------------------------------------------
Command ==
  [tier : Tiers, action : {"reclaim", "compact", "drop_caches"},
   bytes : Int, at : Int, on : Samples]

\* The variables stay in their types, and the window never outgrows its bound.
TypeOK ==
  /\ history \in Seq(Samples)
  /\ Len(history) <= HistoryMax
  /\ last_time \in [Tiers -> Int]
  /\ now \in Nat
  /\ commands \subseteq Command

(* Two commands of one tier are at least that tier's cooldown apart, however *)
(* the pressure level moved in between: a Heavy level and the fallback of a  *)
(* Critical level draw on one heavy cooldown (decide_action, fallback_heavy).*)
TierSpacing ==
  \A c, d \in commands :
    c.tier = d.tier /\ c # d =>
      c.at - d.at >= Cooldown(c.tier) \/ d.at - c.at >= Cooldown(c.tier)

(* A cooldown runs exactly from the last command of its tier: none is        *)
(* charged by a decision that sends nothing, and no command escapes one.     *)
CooldownsMatchCommands ==
  \A tier \in Tiers :
    LET times == {c.at : c \in {d \in commands : d.tier = tier}}
    IN  IF times = {} THEN last_time[tier] = Never
        ELSE last_time[tier] \in times /\ \A t \in times : t <= last_time[tier]

(* drop_caches is decided only on a sample that passes the heavy gap         *)
(* threshold, a host above 90 %, a VM above 85 % of its .wslconfig limit and *)
(* a cache above 60 %, in an idle guest: the 3.5 boundary leaves no room for *)
(* less.  In particular a host with no memory= limit never sends one.        *)
DropEvidence(m) ==
  /\ \/ GapAtLeast(m, Config["gap_ratio_heavy"])
     \/ GapAtLeast(m, Config["gap_ratio_critical"])
  /\ HostUsedExceeds(m, 900)
  /\ VmExceeds(m, 850)
  /\ CacheExceeds(m, 600)
  /\ IsSystemIdle(m)

DropJustified ==
  \A c \in commands : c.action = "drop_caches" => DropEvidence(c.on)

(* No single dimension brings a command about: the sample behind each one    *)
(* scores in two of gap, host memory, .wslconfig limit and cache, so that a  *)
(* host that cannot read its own memory (all zero off Windows) stays silent. *)
ScoringDims(m) ==
  {d \in {"gap", "host", "wsl", "cache"} :
     \/ d = "gap" /\ GapScore(m) > 0
     \/ d = "host" /\ HostScore(m) > 0
     \/ d = "wsl" /\ WslScore(m) > 0
     \/ d = "cache" /\ CacheScore(m) > 0}

CorroboratedPressure ==
  \A c \in commands : \E d, e \in ScoringDims(c.on) : d # e

(* The baseline is left alone but for the floor: a reclaim asks for no more  *)
(* than the gap above the baseline, or for the floor when even that is more  *)
(* than the gap (reclaim_action; baseline_gap "should never be reclaimed",   *)
(* elastic_reclaim.rs:38).                                                   *)
ReclaimWithinGap ==
  \A c \in commands : c.action = "reclaim" =>
    \/ c.bytes <= EffectiveGap(c.on)
    \/ c.bytes = Thousandths(c.on["host_memory_total"], Config["reclaim_floor_ratio"])
=============================================================================
