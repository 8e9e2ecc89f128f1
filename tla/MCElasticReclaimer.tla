------------------------ MODULE MCElasticReclaimer ------------------------
(***************************************************************************)
(* Constants for TLC: the default ratios of ReclamationConfig on a host of *)
(* 1000 units of memory, a window of two samples, short cooldowns in the   *)
(* order of the code's, and one sample for each region of the decision.    *)
(***************************************************************************)
EXTENDS ElasticReclaimer

MCConfig ==
  [baseline_gap |-> 60,
   gap_ratio_mild |-> 10, gap_ratio_moderate |-> 30,
   gap_ratio_heavy |-> 60, gap_ratio_critical |-> 120,
   host_memory_warning |-> 700, host_memory_pressure |-> 800,
   guest_cpu_idle |-> 50, guest_mem_available_idle_ratio |-> 150,
   reclaim_ratio_moderate |-> 200, reclaim_ratio_heavy |-> 500,
   reclaim_floor_ratio |-> 1, reclaim_cap_moderate |-> 8, reclaim_cap_heavy |-> 16,
   sustained_windows |-> 2,
   cooldown_moderate |-> 1, cooldown_heavy |-> 2, cooldown_critical |-> 3]

Sample(rss, avail, limit, resident, cache, guestAvail, cpu) ==
  [vmmem_rss |-> rss, host_memory_total |-> 1000, host_memory_avail |-> avail,
   limit |-> limit, guest_resident |-> resident, guest_file_cache |-> cache,
   guest_mem_total |-> 500, guest_mem_available |-> guestAvail, guest_cpu |-> cpu]

\* Moderate on a host at 96 % and a cache at 95 %, with no gap above the baseline
NoGap        == Sample(250, 40, 0, 200, 190, 300, 10)
\* Every dimension at its top except the .wslconfig limit, which is not set
HeavyNoLimit == Sample(500, 40, 0, 300, 285, 200, 10)
CriticalIdle == Sample(495, 40, 500, 300, 285, 200, 10)
CriticalBusy == Sample(495, 40, 500, 300, 285, 200, 900)
\* Off Windows the host reads zero for its own memory and for vmmem: no pressure
NoHost       == [Sample(0, 0, 0, 200, 190, 300, 10) EXCEPT !["host_memory_total"] = 0]

MCSamples ==
  {NoGap, HeavyNoLimit, CriticalIdle, CriticalBusy, NoHost}
=============================================================================
