-------------------------- MODULE CommandExecutor --------------------------
(***************************************************************************)
(* How the guest carries out a command (src/src/bin/guest.rs,              *)
(* execute_reclaim, execute_compact, execute_drop_caches): the chain from  *)
(* the memory.reclaim files over compaction to an error, and the bytes it  *)
(* reports as freed.  Two tasks execute at once: the connection loop, for  *)
(* the host, and the local reclaim loop, which only ever reclaims.         *)
(*                                                                         *)
(* The kernel is external: a write may succeed or fail, and a reclaim      *)
(* write shrinks the file cache by any amount in either case (it fails     *)
(* when it falls short).  The rest of the VM uses the same cache.          *)
(***************************************************************************)
EXTENDS Integers

CONSTANTS
  MaxPaths,    \* memory.reclaim files there may be: 2 in the code
  MaxCache,    \* bound on the size of the file cache
  MaxShrink    \* bound on the shrinkage during one execution

ASSUME PathsAssumption == MaxPaths \in Nat
ASSUME CacheAssumption == MaxCache \in Nat /\ MaxShrink \in Nat

VARIABLES
  caps,      \* CAPS, probed at startup
  cache,     \* size of the file cache
  pc,        \* where a task stands
  path,      \* index of the next memory.reclaim file
  before,    \* before_cache
  answer,    \* what the last execution returned
  writes,    \* history variable: successful writes of the current execution
  shrunk     \* history variable: shrinkage since the current execution began

vars == <<caps, cache, pc, path, before, answer, writes, shrunk>>

Tasks == {"host", "local"}
Actions == {"reclaim", "compact", "drop_caches"}
Capabilities == [paths : 0..MaxPaths, compact : BOOLEAN, drop : BOOLEAN]
NoAnswer == [status |-> "none", freed |-> 0, misread |-> FALSE]

\* What parse_meminfo yields: a failed read counts as an empty cache.
Readings == {cache, 0}

Freed(earlier, later) == IF earlier >= later THEN earlier - later ELSE 0

Init ==
  /\ caps \in Capabilities
  /\ cache \in 0..MaxCache
  /\ pc = [t \in Tasks |-> "idle"]
  /\ path = [t \in Tasks |-> 1]
  /\ before = [t \in Tasks |-> 0]
  /\ answer = [t \in Tasks |-> NoAnswer]
  /\ writes = [t \in Tasks |-> 0]
  /\ shrunk = [t \in Tasks |-> 0]

\* The cache loses d bytes, which every running execution witnesses.
CacheShrinks(d) ==
  /\ d \in 0..cache
  /\ \A u \in Tasks : pc[u] # "idle" => shrunk[u] + d <= MaxShrink
  /\ cache' = cache - d
  /\ shrunk' = [u \in Tasks |-> IF pc[u] = "idle" THEN shrunk[u] ELSE shrunk[u] + d]

Return(t, status, freed, misread) ==
  /\ pc' = [pc EXCEPT ![t] = "idle"]
  /\ answer' = [answer EXCEPT ![t] = [status |-> status, freed |-> freed, misread |-> misread]]

Wrote(t) == writes' = [writes EXCEPT ![t] = @ + 1]

-----------------------------------------------------------------------------
\* Mutant: the cache is measured once, not for every execution.
StartStale(t, a) ==
  /\ pc[t] = "idle"
  /\ t = "local" => a = "reclaim"
  /\ pc' = [pc EXCEPT ![t] = a]
  /\ path' = [path EXCEPT ![t] = 1]
  /\ \E r \in Readings : before' = [before EXCEPT ![t] = IF @ = 0 THEN r ELSE @]
  /\ answer' = [answer EXCEPT ![t] = NoAnswer]
  /\ writes' = [writes EXCEPT ![t] = 0]
  /\ shrunk' = [shrunk EXCEPT ![t] = 0]
  /\ UNCHANGED <<caps, cache>>

\* A command, or a decision of the local loop; a reclaim measures the cache.
Start(t, a) ==
  /\ pc[t] = "idle"
  /\ t = "local" => a = "reclaim"
  /\ pc' = [pc EXCEPT ![t] = a]
  /\ path' = [path EXCEPT ![t] = 1]
  /\ \E r \in Readings : before' = [before EXCEPT ![t] = IF a = "reclaim" THEN r ELSE 0]
  /\ answer' = [answer EXCEPT ![t] = NoAnswer]
  /\ writes' = [writes EXCEPT ![t] = 0]
  /\ shrunk' = [shrunk EXCEPT ![t] = 0]
  /\ UNCHANGED <<caps, cache>>

WriteReclaim(t) ==
  /\ pc[t] = "reclaim" /\ path[t] <= caps.paths
  /\ \E d \in 0..cache : CacheShrinks(d)
  /\ pc' = [pc EXCEPT ![t] = "settle"]
  /\ Wrote(t)
  /\ UNCHANGED <<caps, path, before, answer>>

\* Mutant: there is no end to the list of files.
ReclaimFailsOn(t) ==
  /\ pc[t] = "reclaim" /\ path[t] <= MaxPaths + 1
  /\ \E d \in 0..cache : CacheShrinks(d)
  /\ path' = [path EXCEPT ![t] = @ + 1]
  /\ UNCHANGED <<caps, pc, before, answer, writes>>

\* The write fails: on to the next file.
ReclaimFails(t) ==
  /\ pc[t] = "reclaim" /\ path[t] <= caps.paths
  /\ \E d \in 0..cache : CacheShrinks(d)
  /\ path' = [path EXCEPT ![t] = @ + 1]
  /\ UNCHANGED <<caps, pc, before, answer, writes>>

\* No file took the write: compaction instead, and its own write unchecked.
CompactInstead(t) ==
  /\ pc[t] = "reclaim" /\ path[t] > caps.paths /\ caps.compact
  /\ pc' = [pc EXCEPT ![t] = "settle"]
  /\ Wrote(t) \/ UNCHANGED writes
  /\ UNCHANGED <<caps, cache, path, before, answer, shrunk>>

NoInterface(t) ==
  /\ pc[t] = "reclaim" /\ path[t] > caps.paths /\ ~caps.compact
  /\ Return(t, "error", 0, FALSE)
  /\ UNCHANGED <<caps, cache, path, before, writes, shrunk>>

\* Mutant: after a successful write the loop goes on to the next file.
MeasureAndGoOn(t) ==
  /\ pc[t] = "settle"
  /\ path[t] <= caps.paths
  /\ pc' = [pc EXCEPT ![t] = "reclaim"]
  /\ path' = [path EXCEPT ![t] = @ + 1]
  /\ UNCHANGED <<caps, cache, before, answer, writes, shrunk>>

\* Two seconds later the cache is measured again and the difference returned.
Measure(t) ==
  /\ pc[t] = "settle"
  /\ \E r \in Readings : Return(t, "ok", Freed(before[t], r), r # cache)
  /\ UNCHANGED <<caps, cache, path, before, writes, shrunk>>

Compact(t) ==
  /\ pc[t] = "compact"
  /\ \/ Return(t, "error", 0, FALSE) /\ UNCHANGED writes
     \/ /\ caps.compact
        /\ pc' = [pc EXCEPT ![t] = "compacting"]
        /\ Wrote(t) /\ UNCHANGED answer
  /\ UNCHANGED <<caps, cache, path, before, shrunk>>

FinishCompact(t) ==
  /\ pc[t] = "compacting"
  /\ Return(t, "ok", 0, FALSE)
  /\ UNCHANGED <<caps, cache, path, before, writes, shrunk>>

(* Not allowed, not available, or no shell to be had: an error.  Once the    *)
(* shell has run its exit status is not looked at.                           *)
DropCaches(t) ==
  /\ pc[t] = "drop_caches"
  /\ \/ Return(t, "error", 0, FALSE) /\ UNCHANGED <<cache, writes, shrunk>>
     \/ /\ caps.drop
        /\ Return(t, "ok", 0, FALSE)
        /\ \/ Wrote(t) /\ \E d \in 0..cache : CacheShrinks(d)
           \/ UNCHANGED <<cache, writes, shrunk>>
  /\ UNCHANGED <<caps, path, before>>

-----------------------------------------------------------------------------
\* The rest of the VM reads files and frees memory.
Environment ==
  /\ \/ cache' \in (cache + 1)..MaxCache /\ UNCHANGED shrunk
     \/ \E d \in 1..cache : CacheShrinks(d)
  /\ UNCHANGED <<caps, pc, path, before, answer, writes>>

\* The agent is restarted, in the middle of an execution perhaps.
Restart ==
  /\ caps' \in Capabilities
  /\ pc' = [t \in Tasks |-> "idle"]
  /\ answer' = [t \in Tasks |-> NoAnswer]
  /\ UNCHANGED <<cache, path, before, writes, shrunk>>

Step(t) ==
  \/ \E a \in Actions : Start(t, a)
  \/ WriteReclaim(t) \/ ReclaimFails(t) \/ CompactInstead(t) \/ NoInterface(t)
  \/ Measure(t)
  \/ Compact(t) \/ FinishCompact(t)
  \/ DropCaches(t)

Next == (\E t \in Tasks : Step(t)) \/ Environment \/ Restart

Spec == Init /\ [][Next]_vars

-----------------------------------------------------------------------------
Locations == {"idle", "reclaim", "settle", "compact", "compacting", "drop_caches"}
Answers == [status : {"none", "ok", "error"}, freed : Nat, misread : BOOLEAN]

\* A task never looks past the end of the list of files.
TypeOK ==
  /\ caps \in Capabilities
  /\ cache \in 0..MaxCache
  /\ pc \in [Tasks -> Locations]
  /\ path \in [Tasks -> 1..(MaxPaths + 1)]
  /\ before \in [Tasks -> 0..MaxCache]
  /\ answer \in [Tasks -> Answers]
  /\ writes \in [Tasks -> Nat]
  /\ shrunk \in [Tasks -> Nat]

(* An error tells the host that no interface took the command: nothing was   *)
(* written successfully on the way to it (execute_reclaim tries up to three  *)
(* interfaces before it gives up).                                           *)
ErrorMeansNotWritten ==
  \A t \in Tasks : answer[t].status = "error" => writes[t] = 0

(* One command is carried out once: falling back never adds a second         *)
(* successful write to a first, so no command reclaims its bytes twice       *)
(* (execute_reclaim).                                                        *)
OneWritePerCommand ==
  \A t \in Tasks : writes[t] <= 1

(* Bytes reported as freed did leave the cache while the command ran, though *)
(* another task or process may have had a hand in it; only a failed second   *)
(* reading of /proc/meminfo reports more (execute_reclaim).                  *)
FreedHasLeft ==
  \A t \in Tasks :
    answer[t].status = "ok" /\ ~answer[t].misread => answer[t].freed <= shrunk[t]

(* What the comment above the executors says (guest.rs:718-720): a reclaim   *)
(* is memory.reclaim, then compaction, then an error; a drop is sync and     *)
(* drop_caches or an error.  So ok stands for a write that succeeded.        *)
OkMeansWritten ==
  \A t \in Tasks : answer[t].status = "ok" => writes[t] > 0
=============================================================================
