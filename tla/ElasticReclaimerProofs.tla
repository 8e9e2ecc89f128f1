----------------------- MODULE ElasticReclaimerProofs -----------------------
(***************************************************************************)
(* Theorems about the decision engine, for every configuration, every set  *)
(* of samples, every window length and every clock bound.                  *)
(***************************************************************************)
EXTENDS ElasticReclaimer, SequenceTheorems, TLAPS

-----------------------------------------------------------------------------
\* Typing of the operators on a sample.

LEMMA ConfigValues ==
  ASSUME NEW f \in ConfigFields PROVE Config[f] \in Nat
BY ConfigAssumption

LEMMA CooldownType ==
  ASSUME NEW tier \in Tiers PROVE Cooldown(tier) \in Nat
BY ConfigAssumption DEF Cooldown, Tiers, ConfigFields

LEMMA SampleValues ==
  ASSUME NEW m \in Samples, NEW f \in SampleFields PROVE m[f] \in Nat
BY SamplesAssumption DEF SystemMetrics

LEMMA EffectiveGapType ==
  ASSUME NEW m \in Samples PROVE EffectiveGap(m) \in Nat
<1>1. m["vmmem_rss"] \in Nat /\ m["guest_resident"] \in Nat
  BY SampleValues DEF SampleFields
<1>2. Config["baseline_gap"] \in Nat
  BY ConfigValues DEF ConfigFields
<1> QED BY <1>1, <1>2 DEF EffectiveGap, Gap, SaturatingSub

LEMMA ReclaimBytesType ==
  ASSUME NEW m \in Samples, NEW fraction \in Nat, NEW capRatio \in Nat
  PROVE  ReclaimBytes(m, fraction, capRatio) \in Int
<1>1. m["host_memory_total"] \in Nat
  BY SampleValues DEF SampleFields
<1>2. Config["reclaim_floor_ratio"] \in Nat
  BY ConfigValues DEF ConfigFields
<1>3. EffectiveGap(m) \in Nat
  BY EffectiveGapType
<1>4. \A a, p \in Nat : Thousandths(a, p) \in Int
  BY DEF Thousandths
<1>5. \A a, b \in Int : Larger(a, b) \in Int /\ Smaller(a, b) \in Int
  BY DEF Larger, Smaller
<1> QED BY <1>1, <1>2, <1>3, <1>4, <1>5 DEF ReclaimBytes

\* A fraction of at most one whole takes no more than the whole.
LEMMA FractionBelow ==
  ASSUME NEW a \in Nat, NEW p \in Nat, p <= 1000
  PROVE  Thousandths(a, p) <= a
<1>1. \A d \in Nat : a * d >= 0
  OBVIOUS
<1>2. PICK d \in Nat : p + d = 1000
  BY 1000 - p \in Nat
<1>3. a * p + a * d = a * 1000
  BY <1>2
<1>4. a * p \in Int /\ a * d \in Int /\ a * p <= a * 1000
  BY <1>1, <1>3
<1> QED BY <1>4 DEF Thousandths

FractionsBelowOne ==
  Config["reclaim_ratio_moderate"] <= 1000 /\ Config["reclaim_ratio_heavy"] <= 1000

Sized(m, bytes) ==
  \/ bytes <= EffectiveGap(m)
  \/ bytes = Thousandths(m["host_memory_total"], Config["reclaim_floor_ratio"])

LEMMA ReclaimBytesSized ==
  ASSUME NEW m \in Samples, NEW fraction \in Nat, fraction <= 1000, NEW capRatio \in Nat
  PROVE  Sized(m, ReclaimBytes(m, fraction, capRatio))
<1>1. Thousandths(EffectiveGap(m), fraction) <= EffectiveGap(m)
  BY EffectiveGapType, FractionBelow
<1>2. m["host_memory_total"] \in Nat /\ Config["reclaim_floor_ratio"] \in Nat
  BY SampleValues, ConfigValues DEF SampleFields, ConfigFields
<1>3. \A a, p \in Nat : Thousandths(a, p) \in Int
  BY DEF Thousandths
<1> DEFINE floor == Thousandths(m["host_memory_total"], Config["reclaim_floor_ratio"])
           cap == Larger(Thousandths(m["host_memory_total"], capRatio), floor)
           part == Thousandths(EffectiveGap(m), fraction)
<1>4. floor \in Int /\ part \in Int /\ Thousandths(m["host_memory_total"], capRatio) \in Int
  BY <1>2, <1>3, EffectiveGapType
<1>5. cap \in Int
  BY <1>4 DEF Larger
<1>6. ReclaimBytes(m, fraction, capRatio) = Larger(floor, Smaller(cap, part))
  BY DEF ReclaimBytes
<1>7. Sized(m, floor)
  BY DEF Sized
<1>8. part <= EffectiveGap(m) /\ EffectiveGap(m) \in Nat
  BY <1>1, EffectiveGapType
<1> HIDE DEF floor, cap, part
<1>9. Smaller(cap, part) <= part /\ Smaller(cap, part) \in Int
  BY <1>4, <1>5 DEF Smaller
<1>10. Larger(floor, Smaller(cap, part)) \in {floor, Smaller(cap, part)}
  BY DEF Larger
<1>11. Smaller(cap, part) <= EffectiveGap(m)
  BY <1>4, <1>8, <1>9
<1>12. Sized(m, Smaller(cap, part))
  BY <1>11 DEF Sized
<1> QED BY <1>6, <1>7, <1>10, <1>12

LEMMA ScoreTypes ==
  ASSUME NEW m
  PROVE  /\ GapScore(m) \in 0..4 /\ HostScore(m) \in 0..4
         /\ WslScore(m) \in 0..4 /\ CacheScore(m) \in 0..4
BY DEF GapScore, HostScore, WslScore, CacheScore, Grade

LEMMA ScoreType ==
  ASSUME NEW m, NEW s \in 0..3 PROVE Score(m, s) \in Nat
<1>1. /\ GapScore(m) \in 0..4 /\ HostScore(m) \in 0..4
      /\ WslScore(m) \in 0..4 /\ CacheScore(m) \in 0..4
  BY ScoreTypes
<1> QED BY <1>1 DEF Score

LEMMA SustainedType ==
  ASSUME NEW h PROVE SustainedPressure(h) \in 0..3
BY DEF SustainedPressure, Bit

-----------------------------------------------------------------------------
(* What a level says about the sample it was computed from.                *)

(* A Critical level needs all four sample dimensions, each high: the total *)
(* of 390 exceeds the boundary of 350 by only 40.                          *)
LEMMA CriticalEvidence ==
  ASSUME NEW m, NEW s \in 0..3, ScoreToLevel(Score(m, s)) = "Critical"
  PROVE  /\ GapScore(m) >= 3 /\ HostScore(m) >= 3
         /\ WslScore(m) >= 2 /\ CacheScore(m) >= 2
<1>1. Score(m, s) >= 350
  BY DEF ScoreToLevel
<1> QED BY <1>1, ScoreTypes DEF Score

LEMMA ExceedsWeaken ==
  ASSUME NEW num \in Int, NEW den \in Int, NEW p \in Nat, NEW q \in Nat, p <= q,
         Exceeds(num, den, q)
  PROVE  Exceeds(num, den, p)
<1>1. den > 0 /\ num * 1000 > q * den
  BY DEF Exceeds
<1>2. q * den >= p * den
  BY <1>1
<1>3. num * 1000 \in Int /\ q * den \in Int /\ p * den \in Int
  OBVIOUS
<1>4. num * 1000 > p * den
  BY <1>1, <1>2, <1>3
<1> QED BY <1>1, <1>4 DEF Exceeds

LEMMA CriticalThresholds ==
  ASSUME NEW m \in Samples, NEW s \in 0..3,
         ScoreToLevel(Score(m, s)) = "Critical", IsSystemIdle(m)
  PROVE  DropEvidence(m)
<1>1. GapScore(m) >= 3 /\ HostScore(m) >= 3 /\ WslScore(m) >= 2 /\ CacheScore(m) >= 2
  BY CriticalEvidence
<1>2. GapAtLeast(m, Config["gap_ratio_heavy"]) \/ GapAtLeast(m, Config["gap_ratio_critical"])
  BY <1>1 DEF GapScore, Grade
<1>3. /\ m["host_memory_total"] \in Int
      /\ m["host_memory_total"] - m["host_memory_avail"] \in Int
      /\ m["vmmem_rss"] \in Int /\ m["limit"] \in Int
      /\ m["guest_file_cache"] \in Int /\ m["guest_resident"] \in Int
  BY SampleValues DEF SampleFields
<1>4. HostUsedExceeds(m, 900)
  <2>1. HostUsedExceeds(m, 900) \/ HostUsedExceeds(m, 950)
    BY <1>1 DEF HostScore, Grade
  <2> QED BY <2>1, <1>3, ExceedsWeaken DEF HostUsedExceeds
<1>5. VmExceeds(m, 850)
  <2>1. VmExceeds(m, 850) \/ VmExceeds(m, 950) \/ VmExceeds(m, 980)
    BY <1>1 DEF WslScore, Grade
  <2> QED BY <2>1, <1>3, ExceedsWeaken DEF VmExceeds
<1>6. CacheExceeds(m, 600)
  <2>1. CacheExceeds(m, 600) \/ CacheExceeds(m, 800) \/ CacheExceeds(m, 900)
    BY <1>1 DEF CacheScore, Grade
  <2> QED BY <2>1, <1>3, ExceedsWeaken DEF CacheExceeds
<1> QED BY <1>2, <1>4, <1>5, <1>6 DEF DropEvidence

(* One dimension alone stays below Moderate: the gap could reach 150 only    *)
(* with all three dimensions sustained, and then the host scores too.        *)
LEMMA TwoDimensions ==
  ASSUME NEW h \in Seq(Samples), Len(h) > 0, Config["sustained_windows"] > 0,
         PressureLevel(h) \in {"Moderate", "Heavy", "Critical"}
  PROVE  \E d, e \in ScoringDims(Latest(h)) : d # e
<1> DEFINE m == Latest(h)
           s == SustainedPressure(h)
<1>1. s \in 0..3
  BY SustainedType
<1>2. /\ GapScore(m) \in 0..4 /\ HostScore(m) \in 0..4
      /\ WslScore(m) \in 0..4 /\ CacheScore(m) \in 0..4
  BY ScoreTypes
<1>3. Score(m, s) >= 150
  <2>1. ScoreToLevel(Score(m, s)) \in {"Moderate", "Heavy", "Critical"}
    BY DEF PressureLevel
  <2>2. \A x : ScoreToLevel(x) \in {"Moderate", "Heavy", "Critical"} =>
                 x >= 350 \/ x >= 250 \/ x >= 150
    BY DEF ScoreToLevel
  <2>3. Score(m, s) \in Int
    BY <1>1, ScoreType
  <2> HIDE DEF m, s
  <2> QED BY <2>1, <2>2, <2>3
<1>4. s = 3 => HostScore(m) > 0
  <2> SUFFICES ASSUME s = 3 PROVE HostScore(m) > 0
    OBVIOUS
  <2>1. HasSustained(h, "host")
    BY DEF SustainedPressure, Bit
  <2>2. Len(h) \in Nat /\ Config["sustained_windows"] \in Nat
    BY LenProperties, ConfigValues DEF ConfigFields
  <2>3. Len(h) \in LastIndices(h, Config["sustained_windows"])
    BY <2>2 DEF LastIndices
  <2>4. Sustains("host", m)
    BY <2>1, <2>3 DEF HasSustained, Latest
  <2>5. HostUsedExceeds(m, Config["host_memory_pressure"])
    BY <2>4 DEF Sustains
  <2> QED BY <2>5 DEF HostScore, Grade
<1>5. \/ GapScore(m) > 0 /\ HostScore(m) > 0
      \/ GapScore(m) > 0 /\ WslScore(m) > 0
      \/ GapScore(m) > 0 /\ CacheScore(m) > 0
      \/ HostScore(m) > 0 /\ WslScore(m) > 0
      \/ HostScore(m) > 0 /\ CacheScore(m) > 0
      \/ WslScore(m) > 0 /\ CacheScore(m) > 0
  BY <1>1, <1>2, <1>3, <1>4 DEF Score
<1>6. /\ GapScore(m) > 0 => "gap" \in ScoringDims(m)
      /\ HostScore(m) > 0 => "host" \in ScoringDims(m)
      /\ WslScore(m) > 0 => "wsl" \in ScoringDims(m)
      /\ CacheScore(m) > 0 => "cache" \in ScoringDims(m)
  BY DEF ScoringDims
<1>7. "gap" # "host" /\ "gap" # "wsl" /\ "gap" # "cache" /\ "host" # "wsl"
      /\ "host" # "cache" /\ "wsl" # "cache"
  OBVIOUS
<1> HIDE DEF m
<1>8. \E d, e \in ScoringDims(m) : d # e
  BY <1>5, <1>6, <1>7
<1> QED BY <1>8 DEF m

-----------------------------------------------------------------------------
\* The window of samples.

LEMMA PushedProperties ==
  ASSUME history \in Seq(Samples), Len(history) <= HistoryMax, NEW m \in Samples
  PROVE  /\ Pushed(m) \in Seq(Samples)
         /\ Len(Pushed(m)) > 0 /\ Len(Pushed(m)) <= HistoryMax
         /\ Latest(Pushed(m)) = m
<1> USE HistoryMaxAssumption
<1>1. CASE Len(history) < HistoryMax
  <2>1. Pushed(m) = Append(history, m)
    BY <1>1 DEF Pushed
  <2> QED BY <1>1, <2>1, AppendProperties, LenProperties DEF Latest
<1>2. CASE ~(Len(history) < HistoryMax)
  <2>1. Pushed(m) = Append(Tail(history), m)
    BY <1>2 DEF Pushed
  <2>2. history # <<>> /\ Len(history) = HistoryMax
    BY <1>2, EmptySeq, LenProperties
  <2>3. Tail(history) \in Seq(Samples) /\ Len(Tail(history)) = HistoryMax - 1
    BY <2>2, HeadTailProperties
  <2> QED BY <2>1, <2>3, AppendProperties DEF Latest
<1> QED BY <1>1, <1>2

-----------------------------------------------------------------------------
(* Every metrics message either leaves the cooldowns and the log alone or    *)
(* issues one command, in a tier whose cooldown has elapsed, on evidence.    *)

Grounds(m, action, bytes) ==
  /\ Config["sustained_windows"] > 0 => \E d, e \in ScoringDims(m) : d # e
  /\ action = "drop_caches" => DropEvidence(m)
  /\ action = "reclaim" /\ FractionsBelowOne => Sized(m, bytes)

LEMMA MetricsCases ==
  ASSUME TypeOK, NEW m \in Samples, Metrics(m)
  PROVE  \/ NoAction
         \/ \E tier \in Tiers, action \in {"reclaim", "compact", "drop_caches"}, bytes \in Int :
              CooldownElapsed(tier) /\ Grounds(m, action, bytes) /\ Issue(tier, action, bytes, m)
<1> DEFINE h == Pushed(m)
           level == PressureLevel(h)
<1>1. h \in Seq(Samples) /\ Len(h) > 0 /\ Latest(h) = m
  BY PushedProperties DEF TypeOK
<1>2. /\ Config["reclaim_ratio_moderate"] \in Nat /\ Config["reclaim_cap_moderate"] \in Nat
      /\ Config["reclaim_ratio_heavy"] \in Nat /\ Config["reclaim_cap_heavy"] \in Nat
  BY ConfigValues DEF ConfigFields
<1>3. /\ ReclaimBytes(m, Config["reclaim_ratio_moderate"], Config["reclaim_cap_moderate"]) \in Int
      /\ ReclaimBytes(m, Config["reclaim_ratio_heavy"], Config["reclaim_cap_heavy"]) \in Int
  BY <1>2, ReclaimBytesType
<1>9. FractionsBelowOne =>
        /\ Sized(m, ReclaimBytes(m, Config["reclaim_ratio_moderate"], Config["reclaim_cap_moderate"]))
        /\ Sized(m, ReclaimBytes(m, Config["reclaim_ratio_heavy"], Config["reclaim_cap_heavy"]))
  BY <1>2, ReclaimBytesSized DEF FractionsBelowOne
<1>4. level \in {"Moderate", "Heavy", "Critical"} =>
        (Config["sustained_windows"] > 0 => \E d, e \in ScoringDims(m) : d # e)
  BY <1>1, TwoDimensions
<1>5. CASE level \in {"None", "Mild"} /\ NoAction
  BY <1>5
<1>6. CASE level = "Moderate" /\ DecideModerate(m)
  BY <1>3, <1>4, <1>9, <1>6 DEF DecideModerate, IssueReclaim, Grounds, Tiers
<1>7. CASE level = "Heavy" /\ DecideHeavy(h, m)
  BY <1>3, <1>4, <1>9, <1>7 DEF DecideHeavy, IssueReclaim, Grounds, Tiers
<1>8. CASE level = "Critical" /\ DecideCritical(m)
  <2>1. CASE CooldownElapsed("critical") /\ IsSystemIdle(m)
    <3>1. ScoreToLevel(Score(m, SustainedPressure(h))) = "Critical"
      BY <1>1, <1>8 DEF PressureLevel
    <3>2. DropEvidence(m)
      BY <2>1, <3>1, CriticalThresholds, SustainedType
    <3> QED BY <1>4, <1>8, <2>1, <3>2 DEF DecideCritical, Grounds, Tiers
  <2>2. CASE ~(CooldownElapsed("critical") /\ IsSystemIdle(m))
    BY <1>3, <1>4, <1>9, <1>8, <2>2 DEF DecideCritical, FallbackHeavy, IssueReclaim, Grounds, Tiers
  <2> QED BY <2>1, <2>2
<1> QED BY <1>5, <1>6, <1>7, <1>8 DEF Metrics

-----------------------------------------------------------------------------
(* THEOREM (typing): the variables keep their types and the window of        *)
(* samples its bound.                                                        *)
THEOREM TypeCorrect == Spec => []TypeOK
<1>1. Init => TypeOK
  BY HistoryMaxAssumption, EmptySeq DEF Init, TypeOK, Command, Never
<1>2. TypeOK /\ [Next]_vars => TypeOK'
  <2> SUFFICES ASSUME TypeOK, [Next]_vars PROVE TypeOK'
    OBVIOUS
  <2>1. CASE Tick
    BY <2>1 DEF Tick, TypeOK
  <2>2. ASSUME NEW m \in Samples, Metrics(m) PROVE TypeOK'
    <3>1. history' \in Seq(Samples) /\ Len(history') <= HistoryMax /\ now' = now
      BY <2>2, PushedProperties DEF Metrics, TypeOK
    <3>2. last_time' \in [Tiers -> Int] /\ commands' \subseteq Command
      <4>1. CASE NoAction
        BY <4>1 DEF NoAction, TypeOK
      <4>2. ASSUME NEW tier \in Tiers, NEW action \in {"reclaim", "compact", "drop_caches"},
                   NEW bytes \in Int, Issue(tier, action, bytes, m)
            PROVE  last_time' \in [Tiers -> Int] /\ commands' \subseteq Command
        BY <4>2 DEF Issue, TypeOK, Command
      <4> QED BY <2>2, <4>1, <4>2, MetricsCases
    <3> QED BY <3>1, <3>2 DEF TypeOK
  <2>3. CASE UNCHANGED vars
    BY <2>3 DEF vars, TypeOK
  <2> QED BY <2>1, <2>2, <2>3 DEF Next
<1> QED BY <1>1, <1>2, PTL DEF Spec

-----------------------------------------------------------------------------
(* The inductive invariant behind the spacing: a stamp is the time of the    *)
(* last command of its tier, and no stamp or command lies in the future.     *)
StampsCurrent ==
  /\ \A c \in commands : 0 <= c.at /\ c.at <= last_time[c.tier]
  /\ \A tier \in Tiers :
       /\ last_time[tier] <= now
       /\ \/ last_time[tier] = Never
          \/ \E c \in commands : c.tier = tier /\ c.at = last_time[tier]

SpacingInv == StampsCurrent /\ TierSpacing

LEMMA SpacingStep ==
  ASSUME TypeOK, SpacingInv, [Next]_vars
  PROVE  SpacingInv'
<1>1. CASE Tick
  BY <1>1 DEF Tick, SpacingInv, StampsCurrent, TierSpacing, TypeOK, Command
<1>2. ASSUME NEW m \in Samples, Metrics(m) PROVE SpacingInv'
  <2>1. now' = now
    BY <1>2 DEF Metrics
  <2>2. CASE NoAction
    BY <2>1, <2>2 DEF NoAction, SpacingInv, StampsCurrent, TierSpacing
  <2>3. ASSUME NEW tier \in Tiers, NEW action \in {"reclaim", "compact", "drop_caches"},
               NEW bytes \in Int, CooldownElapsed(tier), Issue(tier, action, bytes, m)
        PROVE  SpacingInv'
    <3> DEFINE new == [tier |-> tier, action |-> action, bytes |-> bytes, at |-> now, on |-> m]
    <3>1. /\ commands' = commands \union {new}
          /\ last_time' = [last_time EXCEPT ![tier] = now]
          /\ new.at = now /\ new.tier = tier
      BY <2>3 DEF Issue
    <3>2. \A c \in commands : c.at \in Int /\ c.tier \in Tiers
      BY DEF TypeOK, Command
    <3>3. \A c \in commands : c.tier = tier => now - c.at >= Cooldown(tier)
      <4>1. ASSUME NEW c \in commands, c.tier = tier PROVE now - c.at >= Cooldown(tier)
        <5>1. 0 <= c.at /\ c.at <= last_time[tier] /\ last_time[tier] \in Int
          BY <4>1 DEF SpacingInv, StampsCurrent, TypeOK
        <5>2. last_time[tier] # Never
          BY <5>1, <3>2 DEF Never
        <5>3. now - last_time[tier] >= Cooldown(tier)
          BY <2>3, <5>2 DEF CooldownElapsed
        <5> QED BY <5>1, <5>3, <3>2, CooldownType DEF TypeOK
      <4> QED BY <4>1
    <3>4. StampsCurrent'
      <4> HIDE DEF new
      <4>1. \A c \in commands' : 0 <= c.at /\ c.at <= last_time'[c.tier]
        BY <3>1, <3>2 DEF SpacingInv, StampsCurrent, TypeOK
      <4>2. ASSUME NEW t \in Tiers
            PROVE  /\ last_time'[t] <= now'
                   /\ \/ last_time'[t] = Never
                      \/ \E c \in commands' : c.tier = t /\ c.at = last_time'[t]
        BY <2>1, <3>1 DEF SpacingInv, StampsCurrent, TypeOK
      <4> QED BY <4>1, <4>2 DEF StampsCurrent
    <3>5. TierSpacing'
      <4> HIDE DEF new
      <4>1. ASSUME NEW c \in commands', NEW d \in commands', c.tier = d.tier, c # d
            PROVE  c.at - d.at >= Cooldown(c.tier) \/ d.at - c.at >= Cooldown(c.tier)
        BY <3>1, <3>3, <4>1 DEF SpacingInv, TierSpacing
      <4> QED BY <4>1 DEF TierSpacing
    <3> QED BY <3>4, <3>5 DEF SpacingInv
  <2> QED BY <1>2, <2>2, <2>3, MetricsCases
<1>3. CASE UNCHANGED vars
  BY <1>3 DEF vars, SpacingInv, StampsCurrent, TierSpacing
<1> QED BY <1>1, <1>2, <1>3 DEF Next

(* THEOREM (spacing): whatever samples arrive and whenever, two commands of  *)
(* one tier are at least its cooldown apart.                                 *)
THEOREM Spacing == Spec => []TierSpacing
<1>1. Init => SpacingInv
  BY DEF Init, SpacingInv, StampsCurrent, TierSpacing, Tiers, Never
<1>2. TypeOK /\ SpacingInv /\ [Next]_vars => SpacingInv'
  BY SpacingStep
<1>3. SpacingInv => TierSpacing
  BY DEF SpacingInv
<1> QED BY <1>1, <1>2, <1>3, TypeCorrect, PTL DEF Spec

(* THEOREM (cooldowns): a cooldown always runs from the last command of its  *)
(* tier: no decision charges one without sending a command.                  *)
THEOREM Cooldowns == Spec => []CooldownsMatchCommands
<1>1. Init => SpacingInv
  BY DEF Init, SpacingInv, StampsCurrent, TierSpacing, Tiers, Never
<1>2. TypeOK /\ SpacingInv /\ [Next]_vars => SpacingInv'
  BY SpacingStep
<1>3. TypeOK /\ SpacingInv => CooldownsMatchCommands
  <2> SUFFICES ASSUME TypeOK, SpacingInv, NEW tier \in Tiers
               PROVE  LET times == {c.at : c \in {d \in commands : d.tier = tier}}
                      IN  IF times = {} THEN last_time[tier] = Never
                          ELSE last_time[tier] \in times /\ \A t \in times : t <= last_time[tier]
    BY DEF CooldownsMatchCommands
  <2>1. \A c \in commands : c.tier = tier => 0 <= c.at /\ c.at <= last_time[tier] /\ c.at \in Int
    BY DEF SpacingInv, StampsCurrent, TypeOK, Command
  <2>2. \/ last_time[tier] = Never
        \/ \E c \in commands : c.tier = tier /\ c.at = last_time[tier]
    BY DEF SpacingInv, StampsCurrent
  <2>3. last_time[tier] = Never => \A c \in commands : c.tier # tier
    BY <2>1 DEF Never
  <2> QED BY <2>1, <2>2, <2>3
<1> QED BY <1>1, <1>2, <1>3, TypeCorrect, PTL DEF Spec

-----------------------------------------------------------------------------
EvidenceInv == \A c \in commands : Grounds(c.on, c.action, c.bytes)

LEMMA EvidenceCorrect == Spec => []EvidenceInv
<1>1. Init => EvidenceInv
  BY DEF Init, EvidenceInv
<1>2. TypeOK /\ EvidenceInv /\ [Next]_vars => EvidenceInv'
  <2> SUFFICES ASSUME TypeOK, EvidenceInv, [Next]_vars PROVE EvidenceInv'
    OBVIOUS
  <2>1. CASE UNCHANGED commands
    BY <2>1 DEF EvidenceInv
  <2>2. ASSUME NEW m \in Samples, Metrics(m) PROVE EvidenceInv'
    <3>1. ASSUME NEW tier \in Tiers, NEW action \in {"reclaim", "compact", "drop_caches"},
                 NEW bytes \in Int, Grounds(m, action, bytes), Issue(tier, action, bytes, m)
          PROVE  EvidenceInv'
      <4> DEFINE new == [tier |-> tier, action |-> action, bytes |-> bytes, at |-> now, on |-> m]
      <4>1. commands' = commands \union {new} /\ new.on = m /\ new.action = action /\ new.bytes = bytes
        BY <3>1 DEF Issue
      <4> HIDE DEF new
      <4> QED BY <3>1, <4>1 DEF EvidenceInv
    <3> QED BY <2>1, <2>2, <3>1, MetricsCases DEF NoAction
  <2> QED BY <2>1, <2>2 DEF Next, Tick, vars
<1> QED BY <1>1, <1>2, TypeCorrect, PTL DEF Spec

(* THEOREM (drop evidence): every drop_caches the engine decides rests on a  *)
(* sample high in all four of gap, host memory, .wslconfig limit and cache,  *)
(* taken in an idle guest.                                                   *)
THEOREM DropsJustified == Spec => []DropJustified
<1>1. EvidenceInv => DropJustified
  BY DEF EvidenceInv, Grounds, DropJustified
<1> QED BY <1>1, EvidenceCorrect, PTL

(* THEOREM (corroboration): with a sustained window of at least one sample,  *)
(* no command is ever decided on one dimension alone.                        *)
THEOREM Corroborated ==
  ASSUME Config["sustained_windows"] > 0
  PROVE  Spec => []CorroboratedPressure
<1>1. EvidenceInv => CorroboratedPressure
  BY DEF EvidenceInv, Grounds, CorroboratedPressure
<1> QED BY <1>1, EvidenceCorrect, PTL

(* THEOREM (size): as long as no reclaim ratio is above one, which the code   *)
(* does not check, a reclaim asks for no more than the gap above the baseline *)
(* or for the floor.                                                         *)
THEOREM ReclaimsSized ==
  ASSUME FractionsBelowOne
  PROVE  Spec => []ReclaimWithinGap
<1>1. EvidenceInv => ReclaimWithinGap
  BY DEF EvidenceInv, Grounds, Sized, ReclaimWithinGap
<1> QED BY <1>1, EvidenceCorrect, PTL
=============================================================================
