--------------------------- MODULE PressureScore ---------------------------
(***************************************************************************)
(* The host's five-dimension pressure score (src/src/elastic_reclaim.rs,   *)
(* ElasticReclaimer::score_metrics and its helpers) as operators on one    *)
(* metrics sample and on a window of samples.                              *)
(*                                                                         *)
(* Ratios are compared by cross multiplication: a threshold of 0.03 is the *)
(* integer 30, in thousandths.  A score is in hundredths of the code's, so *)
(* the weights 30 / 25 / 15 / 20 / 10 % are the integers 30 .. 10 and the  *)
(* level boundaries 3.5 / 2.5 / 1.5 / 0.5 are 350 .. 50.  Every score the  *)
(* code can produce is a multiple of 0.05, which its rounding to f32       *)
(* restores, so the integers lose nothing.                                 *)
(***************************************************************************)
EXTENDS Integers, Sequences

CONSTANTS
  Config,   \* ReclamationConfig: thresholds and ratios in thousandths
  Samples   \* the metrics samples the environment may report

ConfigFields ==
  {"baseline_gap",
   "gap_ratio_mild", "gap_ratio_moderate", "gap_ratio_heavy", "gap_ratio_critical",
   "host_memory_warning", "host_memory_pressure",
   "guest_cpu_idle", "guest_mem_available_idle_ratio",
   "reclaim_ratio_moderate", "reclaim_ratio_heavy",
   "reclaim_floor_ratio", "reclaim_cap_moderate", "reclaim_cap_heavy",
   "sustained_windows",
   "cooldown_moderate", "cooldown_heavy", "cooldown_critical"}

(* SystemMetrics.  limit = 0 stands for a missing memory= line in          *)
(* .wslconfig: score_metrics filters both None and Some(0).  The field gap *)
(* is computed from two others when the sample is built: see Gap.          *)
SampleFields ==
  {"vmmem_rss", "host_memory_total", "host_memory_avail", "limit",
   "guest_resident", "guest_file_cache",
   "guest_mem_total", "guest_mem_available", "guest_cpu"}

SystemMetrics == [SampleFields -> Nat]

ASSUME ConfigAssumption == Config \in [ConfigFields -> Nat]
ASSUME SamplesAssumption == Samples \subseteq SystemMetrics

-----------------------------------------------------------------------------
SaturatingSub(a, b) == IF a >= b THEN a - b ELSE 0

\* The ratio num / den, read as 0 when den is 0, against p thousandths.
AtLeast(num, den, p) == IF den > 0 THEN num * 1000 >= p * den ELSE 0 >= p
Exceeds(num, den, p) == den > 0 /\ num * 1000 > p * den

Gap(m) == SaturatingSub(m["vmmem_rss"], m["guest_resident"])
EffectiveGap(m) == SaturatingSub(Gap(m), Config["baseline_gap"])

GapAtLeast(m, p) == AtLeast(EffectiveGap(m), m["host_memory_total"], p)
HostUsedExceeds(m, p) ==
  Exceeds(m["host_memory_total"] - m["host_memory_avail"], m["host_memory_total"], p)
VmExceeds(m, p) == Exceeds(m["vmmem_rss"], m["limit"], p)
CacheExceeds(m, p) == Exceeds(m["guest_file_cache"], m["guest_resident"], p)

-----------------------------------------------------------------------------
\* The highest of four thresholds that is passed, tested from the top.
Grade(first, second, third, fourth) ==
  IF fourth THEN 4 ELSE IF third THEN 3 ELSE IF second THEN 2 ELSE IF first THEN 1 ELSE 0

GapScore(m) ==
  Grade(GapAtLeast(m, Config["gap_ratio_mild"]), GapAtLeast(m, Config["gap_ratio_moderate"]),
        GapAtLeast(m, Config["gap_ratio_heavy"]), GapAtLeast(m, Config["gap_ratio_critical"]))

HostScore(m) ==
  Grade(HostUsedExceeds(m, Config["host_memory_warning"]),
        HostUsedExceeds(m, Config["host_memory_pressure"]),
        HostUsedExceeds(m, 900), HostUsedExceeds(m, 950))

WslScore(m) ==
  Grade(VmExceeds(m, 700), VmExceeds(m, 850), VmExceeds(m, 950), VmExceeds(m, 980))

CacheScore(m) ==
  Grade(CacheExceeds(m, 400), CacheExceeds(m, 600), CacheExceeds(m, 800), CacheExceeds(m, 900))

-----------------------------------------------------------------------------
\* The predicates a window of samples is tested for.
SustainedDims ==
  {"gap", "host", "cache"}

Sustains(dim, m) ==
  \/ dim = "gap"   /\ GapAtLeast(m, Config["gap_ratio_moderate"])
  \/ dim = "host"  /\ HostUsedExceeds(m, Config["host_memory_pressure"])
  \/ dim = "cache" /\ CacheExceeds(m, 600)

\* Indices of the last n samples of h.
LastIndices(h, n) == (Len(h) - n + 1) .. Len(h)

\* dim has been above its threshold for the last sustained_windows samples.
HasSustained(h, dim) ==
  /\ Len(h) >= Config["sustained_windows"]
  /\ \A i \in LastIndices(h, Config["sustained_windows"]) : Sustains(dim, h[i])

\* check_sustained_pressure: how many of the three dimensions.
Bit(b) == IF b THEN 1 ELSE 0
SustainedPressure(h) ==
  Bit(HasSustained(h, "gap")) + Bit(HasSustained(h, "host")) + Bit(HasSustained(h, "cache"))

Score(m, sustained) ==
  30 * GapScore(m) + 25 * HostScore(m) + 15 * WslScore(m) + 20 * CacheScore(m) + 10 * sustained

Levels == {"None", "Mild", "Moderate", "Heavy", "Critical"}

\* Mutant: the boundaries are shifted by one level.
ScoreToLevelShifted(score) ==
  IF score >= 250 THEN "Critical"
  ELSE IF score >= 150 THEN "Heavy"
  ELSE IF score >= 50 THEN "Moderate" ELSE "Mild"

ScoreToLevel(score) ==
  IF score >= 350 THEN "Critical"
  ELSE IF score >= 250 THEN "Heavy"
  ELSE IF score >= 150 THEN "Moderate"
  ELSE IF score >= 50 THEN "Mild" ELSE "None"

Latest(h) == h[Len(h)]

PressureLevel(h) ==
  IF h = <<>> THEN "None" ELSE ScoreToLevel(Score(Latest(h), SustainedPressure(h)))

-----------------------------------------------------------------------------
\* is_system_idle: low CPU and enough memory headroom in the guest.
HeadroomOK(m) ==
  LET ratio == Config["guest_mem_available_idle_ratio"]
      total == m["guest_mem_total"]
  IN  \/ total = 0
      \/ m["guest_mem_available"] > 0 /\ AtLeast(m["guest_mem_available"], total, ratio)
      \/ /\ m["guest_mem_available"] = 0
         /\ AtLeast(SaturatingSub(total, m["guest_resident"]), total, ratio)

IsSystemIdle(m) == m["guest_cpu"] < Config["guest_cpu_idle"] /\ HeadroomOK(m)

\* reclaim_action: a fraction of the effective gap, clamped between the floor
\* and the cap, the cap raised to the floor when it is below it.
Larger(a, b)  == IF a >= b THEN a ELSE b
Smaller(a, b) == IF a <= b THEN a ELSE b
Thousandths(amount, p) == (amount * p) \div 1000

\* Mutant: the baseline is not subtracted from the gap.
ReclaimBytesOfGap(m, fraction, capRatio) ==
  LET floor == Thousandths(m["host_memory_total"], Config["reclaim_floor_ratio"])
      cap   == Larger(Thousandths(m["host_memory_total"], capRatio), floor)
  IN  Larger(floor, Smaller(cap, Thousandths(Gap(m), fraction)))

ReclaimBytes(m, fraction, capRatio) ==
  LET floor == Thousandths(m["host_memory_total"], Config["reclaim_floor_ratio"])
      cap   == Larger(Thousandths(m["host_memory_total"], capRatio), floor)
  IN  Larger(floor, Smaller(cap, Thousandths(EffectiveGap(m), fraction)))
=============================================================================
