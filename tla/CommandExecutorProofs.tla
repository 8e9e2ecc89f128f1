----------------------- MODULE CommandExecutorProofs -----------------------
(***************************************************************************)
(* Invariance proofs for CommandExecutor.                                  *)
(***************************************************************************)
EXTENDS CommandExecutor, TLAPS

\* What a shrinking cache does to the two variables it changes.
LEMMA Shrinking ==
  ASSUME TypeOK, NEW d, CacheShrinks(d)
  PROVE  /\ d \in Nat
         /\ cache' = cache - d
         /\ cache' \in 0..MaxCache
         /\ shrunk' \in [Tasks -> Nat]
         /\ \A u \in Tasks : shrunk'[u] = IF pc[u] = "idle" THEN shrunk[u] ELSE shrunk[u] + d
  BY CacheAssumption DEF CacheShrinks, TypeOK

\* The reading of a task lies within the bound on the cache.
LEMMA ReadingType == TypeOK => Readings \subseteq 0..MaxCache
  BY CacheAssumption DEF TypeOK, Readings

LEMMA FreedType == \A a, b \in Nat : Freed(a, b) \in Nat /\ Freed(a, b) <= a
  BY DEF Freed

\* Returning a definite answer keeps the two variables it changes in type.
LEMMA ReturnType ==
  ASSUME TypeOK, NEW t \in Tasks, NEW status \in {"ok", "error"}, Return(t, status, 0, FALSE)
  PROVE  pc' \in [Tasks -> Locations] /\ answer' \in [Tasks -> Answers]
<1>1. [status |-> status, freed |-> 0, misread |-> FALSE] \in Answers
  BY Zenon, 0 \in Nat, FALSE \in BOOLEAN, status \in {"none", "ok", "error"} DEF Answers
<1> QED
  BY <1>1 DEF Return, TypeOK, Locations

LEMMA TypeStep == TypeOK /\ [Next]_vars => TypeOK'
<1> SUFFICES ASSUME TypeOK, [Next]_vars PROVE TypeOK'
  OBVIOUS
<1> USE DEF Tasks
<1>1. ASSUME NEW t \in Tasks, NEW a \in Actions, Start(t, a) PROVE TypeOK'
  <2>1. PICK r \in Readings : before' = [before EXCEPT ![t] = IF a = "reclaim" THEN r ELSE 0]
    BY <1>1 DEF Start
  <2>2. r \in 0..MaxCache /\ 0 \in 0..MaxCache /\ 1 \in 1..(MaxPaths + 1)
    BY ReadingType, CacheAssumption, PathsAssumption
  <2>3. before' \in [Tasks -> 0..MaxCache]
    BY <2>1, <2>2 DEF TypeOK
  <2>4. pc' \in [Tasks -> Locations] /\ answer' \in [Tasks -> Answers]
    BY <1>1 DEF Start, TypeOK, Actions, Locations, Answers, NoAnswer
  <2> QED
    BY <1>1, <2>2, <2>3, <2>4 DEF Start, TypeOK
<1>2. ASSUME NEW t \in Tasks, WriteReclaim(t) PROVE TypeOK'
  <2>1. cache' \in 0..MaxCache /\ shrunk' \in [Tasks -> Nat]
    BY <1>2, Shrinking DEF WriteReclaim
  <2> QED
    BY <1>2, <2>1 DEF WriteReclaim, Wrote, TypeOK, Locations
<1>3. ASSUME NEW t \in Tasks, ReclaimFails(t) PROVE TypeOK'
  <2>1. cache' \in 0..MaxCache /\ shrunk' \in [Tasks -> Nat]
    BY <1>3, Shrinking DEF ReclaimFails
  <2>2. path[t] + 1 \in 1..(MaxPaths + 1)
    BY <1>3, PathsAssumption DEF ReclaimFails, TypeOK, Capabilities
  <2> QED
    BY <1>3, <2>1, <2>2 DEF ReclaimFails, TypeOK
<1>4. ASSUME NEW t \in Tasks, CompactInstead(t) PROVE TypeOK'
  BY <1>4 DEF CompactInstead, Wrote, TypeOK, Locations
<1>5. ASSUME NEW t \in Tasks, NoInterface(t) PROVE TypeOK'
  BY <1>5 DEF NoInterface, Return, TypeOK, Locations, Answers
<1>6. ASSUME NEW t \in Tasks, Measure(t) PROVE TypeOK'
  <2>1. PICK r \in Readings : Return(t, "ok", Freed(before[t], r), r # cache)
    BY <1>6 DEF Measure
  <2>2. Freed(before[t], r) \in Nat
    <3>1. r \in 0..MaxCache /\ before[t] \in 0..MaxCache
      BY ReadingType DEF TypeOK
    <3>2. r \in Nat /\ before[t] \in Nat
      BY <3>1, CacheAssumption
    <3> QED
      BY <3>2, FreedType
  <2>3. (r # cache) \in BOOLEAN
    OBVIOUS
  <2>4. [status |-> "ok", freed |-> Freed(before[t], r), misread |-> (r # cache)] \in Answers
    BY <2>2, <2>3, Zenon DEF Answers
  <2>5. answer' \in [Tasks -> Answers] /\ pc' \in [Tasks -> Locations]
    BY <2>1, <2>4 DEF Return, TypeOK, Locations
  <2> QED
    BY <1>6, <2>5 DEF Measure, TypeOK
<1>7. ASSUME NEW t \in Tasks, Compact(t) PROVE TypeOK'
  <2>1. CASE Return(t, "error", 0, FALSE) /\ UNCHANGED writes
    <3>1. pc' \in [Tasks -> Locations] /\ answer' \in [Tasks -> Answers]
      BY <2>1, ReturnType
    <3> QED
      BY <1>7, <2>1, <3>1 DEF Compact, TypeOK
  <2>2. CASE pc' = [pc EXCEPT ![t] = "compacting"] /\ Wrote(t) /\ UNCHANGED answer
    BY <1>7, <2>2 DEF Compact, Wrote, TypeOK, Locations
  <2> QED
    BY <1>7, <2>1, <2>2 DEF Compact
<1>8. ASSUME NEW t \in Tasks, FinishCompact(t) PROVE TypeOK'
  BY <1>8 DEF FinishCompact, Return, TypeOK, Locations, Answers
<1>9. ASSUME NEW t \in Tasks, DropCaches(t) PROVE TypeOK'
  <2>1. pc' \in [Tasks -> Locations] /\ answer' \in [Tasks -> Answers]
    BY <1>9, ReturnType DEF DropCaches
  <2>2. writes' \in [Tasks -> Nat]
    <3>1. CASE Wrote(t)
      BY <3>1 DEF Wrote, TypeOK
    <3>2. CASE UNCHANGED writes
      BY <3>2 DEF TypeOK
    <3> QED
      BY <1>9, <3>1, <3>2 DEF DropCaches
  <2>3. cache' \in 0..MaxCache /\ shrunk' \in [Tasks -> Nat]
    BY <1>9, Shrinking DEF DropCaches, TypeOK
  <2> QED
    BY <1>9, <2>1, <2>2, <2>3 DEF DropCaches, TypeOK
<1>10. ASSUME Environment PROVE TypeOK'
  <2>1. cache' \in 0..MaxCache /\ shrunk' \in [Tasks -> Nat]
    BY <1>10, Shrinking, CacheAssumption DEF Environment, TypeOK
  <2> QED
    BY <1>10, <2>1 DEF Environment, TypeOK
<1>11. ASSUME Restart PROVE TypeOK'
  BY <1>11 DEF Restart, TypeOK, Locations, Answers, NoAnswer
<1>12. CASE UNCHANGED vars
  BY <1>12 DEF vars, TypeOK
<1> QED
  BY <1>1, <1>2, <1>3, <1>4, <1>5, <1>6, <1>7, <1>8, <1>9, <1>10, <1>11, <1>12
  DEF Next, Step

(* The variables stay in their types; in particular a task's index never     *)
(* passes the end of the list of memory.reclaim files (execute_reclaim).     *)
THEOREM TypeCorrect == Spec => []TypeOK
<1>1. Init => TypeOK
  BY PathsAssumption, CacheAssumption
  DEF Init, TypeOK, Locations, Answers, NoAnswer
<1> QED
  BY <1>1, TypeStep, PTL DEF Spec

-----------------------------------------------------------------------------
(* Before its write an execution has written nothing, afterwards once; and   *)
(* it has no answer until it is over.                                        *)
WritesOf(t) ==
  /\ writes[t] \in {0, 1}
  /\ pc[t] \in {"reclaim", "compact", "drop_caches"} => writes[t] = 0
  /\ pc[t] # "idle" => answer[t].status = "none"
  /\ answer[t].status = "error" => writes[t] = 0

WritesInv == \A t \in Tasks : WritesOf(t)

\* A task whose own variables do not change keeps its part of the invariant.
LEMMA WritesFrame ==
  ASSUME TypeOK, NEW t \in Tasks, NEW u \in Tasks, u # t, WritesInv, Step(t)
  PROVE  WritesOf(u)'
<1>1. pc'[u] = pc[u] /\ answer'[u] = answer[u] /\ writes'[u] = writes[u]
  BY DEF TypeOK, Step, Start, WriteReclaim, ReclaimFails, CompactInstead, NoInterface, Measure,
         Compact, FinishCompact, DropCaches, Return, Wrote
<1> QED
  BY <1>1 DEF WritesInv, WritesOf

LEMMA WritesStep == TypeOK /\ WritesInv /\ [Next]_vars => WritesInv'
<1> SUFFICES ASSUME TypeOK, WritesInv, [Next]_vars PROVE WritesInv'
  OBVIOUS
<1>1. ASSUME NEW t \in Tasks, Step(t) PROVE WritesInv'
  <2> USE DEF WritesOf, TypeOK
  <2>0. WritesOf(t)
    BY DEF WritesInv
  <2>1. ASSUME NEW a \in Actions, Start(t, a) PROVE WritesOf(t)'
    BY <2>1 DEF Start, NoAnswer
  <2>2. ASSUME WriteReclaim(t) PROVE WritesOf(t)'
    BY <2>0, <2>2 DEF WriteReclaim, Wrote
  <2>3. ASSUME ReclaimFails(t) PROVE WritesOf(t)'
    BY <2>0, <2>3 DEF ReclaimFails
  <2>4. ASSUME CompactInstead(t) PROVE WritesOf(t)'
    BY <2>0, <2>4 DEF CompactInstead, Wrote
  <2>5. ASSUME NoInterface(t) PROVE WritesOf(t)'
    BY <2>0, <2>5 DEF NoInterface, Return
  <2>6. ASSUME Measure(t) PROVE WritesOf(t)'
    BY <2>0, <2>6 DEF Measure, Return
  <2>7. ASSUME Compact(t) PROVE WritesOf(t)'
    BY <2>0, <2>7 DEF Compact, Return, Wrote
  <2>8. ASSUME FinishCompact(t) PROVE WritesOf(t)'
    BY <2>0, <2>8 DEF FinishCompact, Return
  <2>9. ASSUME DropCaches(t) PROVE WritesOf(t)'
    BY <2>0, <2>9 DEF DropCaches, Return, Wrote
  <2>10. WritesOf(t)'
    BY <1>1, <2>1, <2>2, <2>3, <2>4, <2>5, <2>6, <2>7, <2>8, <2>9 DEF Step
  <2> QED
    BY <1>1, <2>10, WritesFrame DEF WritesInv
<1>2. CASE Environment
  BY <1>2 DEF Environment, WritesInv, WritesOf
<1>3. CASE Restart
  BY <1>3 DEF Restart, WritesInv, WritesOf, NoAnswer
<1>4. CASE UNCHANGED vars
  BY <1>4 DEF vars, WritesInv, WritesOf
<1> QED
  BY <1>1, <1>2, <1>3, <1>4 DEF Next

LEMMA WritesCorrect == Spec => []WritesInv
<1>1. Init => WritesInv
  BY DEF Init, WritesInv, WritesOf, NoAnswer
<1> QED
  BY <1>1, WritesStep, TypeCorrect, PTL DEF Spec

(* An execution that returns an error has written nothing successfully, for  *)
(* any number of interfaces (execute_reclaim, execute_compact).              *)
THEOREM ErrorsHonest == Spec => []ErrorMeansNotWritten
<1>1. WritesInv => ErrorMeansNotWritten
  BY DEF WritesInv, WritesOf, ErrorMeansNotWritten
<1> QED
  BY <1>1, WritesCorrect, PTL

(* No execution writes successfully twice, however many interfaces it falls  *)
(* back through (execute_reclaim).                                           *)
THEOREM WrittenOnce == Spec => []OneWritePerCommand
<1>1. WritesInv => OneWritePerCommand
  BY DEF WritesInv, WritesOf, OneWritePerCommand
<1> QED
  BY <1>1, WritesCorrect, PTL

-----------------------------------------------------------------------------
(* What a reclaim measured first is still in the cache or has left it while  *)
(* the reclaim was running; a cache that grows only helps.                   *)
Accounted(t) ==
  /\ pc[t] \in {"reclaim", "settle"} => before[t] <= cache + shrunk[t]
  /\ pc[t] # "idle" => answer[t].status = "none"
  /\ answer[t].status = "ok" /\ ~answer[t].misread => answer[t].freed <= shrunk[t]

AccountInv == \A t \in Tasks : Accounted(t)

\* Shrinkage is on account, whatever task it belongs to.
LEMMA AccountShrinks ==
  ASSUME TypeOK, NEW d, CacheShrinks(d), NEW u \in Tasks, Accounted(u),
         before'[u] = before[u], answer'[u] = answer[u],
         pc'[u] \in {"reclaim", "settle"} => pc[u] \in {"reclaim", "settle"},
         pc'[u] # "idle" => pc[u] # "idle"
  PROVE  Accounted(u)'
<1>1. /\ d \in Nat /\ cache' = cache - d
      /\ shrunk'[u] = IF pc[u] = "idle" THEN shrunk[u] ELSE shrunk[u] + d
  BY Shrinking
<1>2. /\ cache \in Nat /\ shrunk[u] \in Nat /\ before[u] \in Nat /\ answer[u].freed \in Nat
  BY CacheAssumption DEF TypeOK, Answers
<1> QED
  BY <1>1, <1>2 DEF Accounted

\* Nothing of this account changes.
LEMMA AccountKept ==
  ASSUME NEW u \in Tasks, Accounted(u), before'[u] = before[u], answer'[u] = answer[u],
         pc'[u] \in {"reclaim", "settle"} => pc[u] \in {"reclaim", "settle"},
         pc'[u] # "idle" => pc[u] # "idle",
         UNCHANGED <<cache, shrunk>>
  PROVE  Accounted(u)'
  BY DEF Accounted

LEMMA AccountStep == TypeOK /\ AccountInv /\ [Next]_vars => AccountInv'
<1> SUFFICES ASSUME TypeOK, AccountInv, [Next]_vars, NEW u \in Tasks PROVE Accounted(u)'
  BY DEF AccountInv
<1>0. Accounted(u)
  BY DEF AccountInv
<1>1. ASSUME NEW t \in Tasks, NEW a \in Actions, Start(t, a) PROVE Accounted(u)'
  <2>1. CASE u = t
    <3>1. PICK r \in Readings : before' = [before EXCEPT ![t] = IF a = "reclaim" THEN r ELSE 0]
      BY <1>1 DEF Start
    <3>2. before'[t] <= cache /\ shrunk'[t] = 0 /\ answer'[t].status = "none" /\ cache' = cache
      BY <1>1, <3>1, CacheAssumption DEF Start, Readings, TypeOK, NoAnswer
    <3>3. cache \in Nat /\ before'[t] <= cache' + shrunk'[t]
      BY <3>2, CacheAssumption DEF TypeOK
    <3> QED
      BY <2>1, <3>2, <3>3 DEF Accounted
  <2>2. CASE u # t
    <3>1. /\ pc'[u] = pc[u] /\ before'[u] = before[u] /\ answer'[u] = answer[u]
          /\ cache' = cache /\ shrunk'[u] = shrunk[u]
      BY <1>1, <2>2 DEF Start, TypeOK
    <3> QED
      BY <1>0, <3>1 DEF Accounted
  <2> QED
    BY <2>1, <2>2
<1>2. ASSUME NEW t \in Tasks, WriteReclaim(t) PROVE Accounted(u)'
  BY <1>0, <1>2, AccountShrinks DEF WriteReclaim, TypeOK
<1>3. ASSUME NEW t \in Tasks, ReclaimFails(t) PROVE Accounted(u)'
  BY <1>0, <1>3, AccountShrinks DEF ReclaimFails, TypeOK
<1>4. ASSUME NEW t \in Tasks, CompactInstead(t) PROVE Accounted(u)'
  BY <1>0, <1>4, AccountKept DEF CompactInstead, TypeOK
<1>5. ASSUME NEW t \in Tasks, NoInterface(t) PROVE Accounted(u)'
  BY <1>0, <1>5 DEF NoInterface, Return, TypeOK, Accounted
<1>6. ASSUME NEW t \in Tasks, Measure(t) PROVE Accounted(u)'
  <2>1. PICK r \in Readings : Return(t, "ok", Freed(before[t], r), r # cache)
    BY <1>6 DEF Measure
  <2>2. CASE u = t
    <3> DEFINE wrong == r # cache
               freed == Freed(before[t], r)
    <3>0. /\ pc'[u] = "idle"
          /\ answer'[u] = [status |-> "ok", freed |-> freed, misread |-> wrong]
      BY <2>1, <2>2 DEF Return, TypeOK
    <3>1. pc'[u] = "idle" /\ answer'[u].freed = freed /\ answer'[u].misread = wrong
      <4> HIDE DEF wrong, freed
      <4> QED
        BY <3>0
    <3>2. r = cache => Freed(before[t], r) <= shrunk[t]
      <4>1. before[t] <= cache + shrunk[t]
        BY <1>0, <1>6, <2>2 DEF Accounted, Measure
      <4>2. cache \in Nat /\ before[t] \in Nat /\ shrunk[t] \in Nat
        BY CacheAssumption DEF TypeOK
      <4> QED
        BY <4>1, <4>2 DEF Freed
    <3>3. shrunk' = shrunk
      BY <1>6 DEF Measure
    <3>4. ~answer'[u].misread => r = cache
      BY <3>1, Zenon
    <3> QED
      BY <2>2, <3>1, <3>2, <3>3, <3>4 DEF Accounted
  <2>3. CASE u # t
    BY <1>0, <1>6, <2>1, <2>3 DEF Measure, Return, TypeOK, Accounted
  <2> QED
    BY <2>2, <2>3
<1>7. ASSUME NEW t \in Tasks, Compact(t) PROVE Accounted(u)'
  BY <1>0, <1>7 DEF Compact, Return, TypeOK, Accounted
<1>8. ASSUME NEW t \in Tasks, FinishCompact(t) PROVE Accounted(u)'
  <2>1. CASE u = t
    <3>1. pc'[u] = "idle" /\ answer'[u].freed = 0 /\ shrunk'[u] \in Nat
      BY <1>8, <2>1 DEF FinishCompact, Return, TypeOK
    <3> QED
      BY <3>1 DEF Accounted
  <2>2. CASE u # t
    BY <1>0, <1>8, <2>2 DEF FinishCompact, Return, TypeOK, Accounted
  <2> QED
    BY <2>1, <2>2
<1>9. ASSUME NEW t \in Tasks, DropCaches(t) PROVE Accounted(u)'
  <2>1. shrunk' \in [Tasks -> Nat]
    BY <1>9, Shrinking DEF DropCaches, TypeOK
  <2>2. CASE u = t
    <3>1. pc'[u] = "idle" /\ answer'[u].freed = 0
      BY <1>9, <2>2 DEF DropCaches, Return, TypeOK
    <3> QED
      BY <2>1, <3>1 DEF Accounted
  <2>3. CASE u # t
    <3>1. pc'[u] = pc[u] /\ before'[u] = before[u] /\ answer'[u] = answer[u]
      BY <1>9, <2>3 DEF DropCaches, Return, TypeOK
    <3>2. CASE UNCHANGED <<cache, shrunk>>
      BY <1>0, <3>1, <3>2, AccountKept
    <3>3. CASE \E d \in 0..cache : CacheShrinks(d)
      BY <1>0, <3>1, <3>3, AccountShrinks
    <3> QED
      BY <1>9, <3>2, <3>3 DEF DropCaches
  <2> QED
    BY <2>2, <2>3
<1>10. ASSUME Environment PROVE Accounted(u)'
  <2>1. CASE cache' \in (cache + 1)..MaxCache /\ UNCHANGED shrunk
    <3>1. cache \in Nat /\ before[u] \in Nat /\ shrunk[u] \in Nat /\ cache' >= cache /\ cache' \in Int
      BY <2>1, CacheAssumption DEF TypeOK
    <3> QED
      BY <1>0, <1>10, <2>1, <3>1 DEF Environment, Accounted
  <2>2. CASE \E d \in 1..cache : CacheShrinks(d)
    BY <1>0, <1>10, <2>2, AccountShrinks DEF Environment
  <2> QED
    BY <1>10, <2>1, <2>2 DEF Environment
<1>11. ASSUME Restart PROVE Accounted(u)'
  BY <1>11 DEF Restart, NoAnswer, Accounted
<1>12. CASE UNCHANGED vars
  BY <1>0, <1>12, AccountKept DEF vars
<1> QED
  BY <1>1, <1>2, <1>3, <1>4, <1>5, <1>6, <1>7, <1>8, <1>9, <1>10, <1>11, <1>12
  DEF Next, Step

(* What a reclaim reports as freed has left the cache while it ran, unless   *)
(* its second reading failed (execute_reclaim).                              *)
THEOREM FreedAccounted == Spec => []FreedHasLeft
<1>1. Init => AccountInv
  BY DEF Init, AccountInv, Accounted, NoAnswer
<1>2. AccountInv => FreedHasLeft
  BY DEF AccountInv, Accounted, FreedHasLeft
<1> QED
  BY <1>1, <1>2, AccountStep, TypeCorrect, PTL DEF Spec
=============================================================================
