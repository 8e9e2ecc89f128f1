-------------------------- MODULE GuestAgentProofs --------------------------
(***************************************************************************)
(* Theorems about the guest agent's tasks, for all delays, window lengths  *)
(* and numbers of sustained ticks.                                         *)
(***************************************************************************)
EXTENDS GuestAgent, SequenceTheorems, TLAPS

LEMMA EmptyHistory == <<>> \in Seq(Samples) /\ Len(<<>>) <= HistoryMax
<1>1. <<>> \in Seq(Samples) /\ Len(<<>>) = 0
  BY EmptySeq
<1> QED BY <1>1, HistoryMaxAssumption

LEMMA TypeStep == TypeOK /\ [Next]_vars => TypeOK'
<1> SUFFICES ASSUME TypeOK, [Next]_vars PROVE TypeOK'
  OBVIOUS
<1> USE DelaysAssumption, HistoryMaxAssumption DEF TypeOK
<1>1. CASE Snapshot \/ NoCommand \/ FinishCommand \/ AnswerDuplicate
  <2>1. overtaken' \in BOOLEAN
    BY <1>1, Zenon DEF Snapshot, NoCommand, FinishCommand, AnswerDuplicate, Stamp, stampVars
  <2> QED BY <1>1, <2>1
          DEF Snapshot, NoCommand, FinishCommand, AnswerDuplicate, Stamp, stampVars, localVars
<1>2. ASSUME NEW a \in Actions, StartCommand(a) PROVE TypeOK'
  BY <1>2 DEF StartCommand, stampVars, localVars
<1>3. ASSUME NEW s \in Samples, LocalSample(s) PROVE TypeOK'
  <2>1. history' \in Seq(Samples) /\ Len(history') <= HistoryMax
    <3>1. CASE Len(history) < HistoryMax
      BY <1>3, <3>1, AppendProperties, LenProperties DEF LocalSample, Pushed
    <3>2. CASE ~(Len(history) < HistoryMax)
      <4>1. history # <<>> /\ Len(history) = HistoryMax
        BY <3>2, EmptySeq, LenProperties
      <4>2. Tail(history) \in Seq(Samples) /\ Len(Tail(history)) = HistoryMax - 1
        BY <4>1, HeadTailProperties
      <4> QED BY <1>3, <3>2, <4>2, AppendProperties DEF LocalSample, Pushed
    <3> QED BY <3>1, <3>2
  <2> QED BY <1>3, <2>1 DEF LocalSample
<1>4. CASE Decide \/ StartReclaim \/ FinishLocal
  <2>1. last_action' \in 0..LocalCooldown
    BY <1>4 DEF Decide, StartReclaim, FinishLocal
  <2>2. local' \in {"sleep", "decide", "start", "reclaim"}
    BY <1>4 DEF Decide, StartReclaim, FinishLocal
  <2> QED BY <1>4, <2>1, <2>2 DEF Decide, StartReclaim, FinishLocal, connVars, stampVars
<1>5. CASE Reload
  BY <1>5 DEF Reload, stampVars, localVars
<1>6. CASE Tick
  BY <1>6 DEF Tick, Older
<1>7. CASE Restart
  <2>1. rt_allow_drop' \in BOOLEAN /\ allow_drop' \in BOOLEAN /\ overtaken' \in BOOLEAN
    BY <1>7, Zenon DEF Restart
  <2>2. /\ conn' = "top" /\ host_last_cmd' = HostDefer /\ quiet' = HostDefer
        /\ seen' = HostDefer
        /\ local' = "sleep" /\ last_action' = LocalCooldown /\ history' = <<>>
        /\ lateDrops' = 0
    BY <1>7 DEF Restart
  <2> QED BY <2>1, <2>2, EmptyHistory
<1>8. CASE UNCHANGED vars
  BY <1>8 DEF vars, connVars, stampVars, localVars
<1> QED BY <1>1, <1>2, <1>3, <1>4, <1>5, <1>6, <1>7, <1>8 DEF Next, Connection, LocalLoop

(* THEOREM (typing): the variables keep their types and the local window its *)
(* bound.                                                                    *)
THEOREM TypeCorrect == Spec => []TypeOK
<1>1. Init => TypeOK
  <2> SUFFICES ASSUME Init PROVE TypeOK
    OBVIOUS
  <2>1. rt_allow_drop \in BOOLEAN /\ allow_drop \in BOOLEAN /\ overtaken \in BOOLEAN
    BY Zenon DEF Init
  <2>2. /\ conn = "top" /\ host_last_cmd = HostDefer /\ quiet = HostDefer
        /\ seen = HostDefer
        /\ local = "sleep" /\ last_action = LocalCooldown /\ history = <<>>
        /\ lateDrops = 0
    BY DEF Init
  <2> QED BY <2>1, <2>2, DelaysAssumption, EmptyHistory DEF TypeOK
<1> QED BY <1>1, TypeStep, PTL DEF Spec

-----------------------------------------------------------------------------
(* A late drop was made under the snapshot of the current iteration, which   *)
(* is past its one command; the next snapshot has seen the revocation.       *)
LateDropInv ==
  /\ lateDrops <= 1
  /\ lateDrops = 1 => ~allow_drop /\ (conn = "recv" => ~rt_allow_drop)

(* THEOREM (late drops): after allow_drop is revoked, at most one more       *)
(* drop_caches is executed.                                                  *)
THEOREM LateDropsBounded == Spec => []AtMostOneLateDrop
<1>1. Init => LateDropInv
  BY DEF Init, LateDropInv
<1>2. TypeOK /\ LateDropInv /\ [Next]_vars => LateDropInv'
  <2> SUFFICES ASSUME TypeOK, LateDropInv, [Next]_vars PROVE LateDropInv'
    OBVIOUS
  <2> USE DEF LateDropInv, TypeOK
  <2>1. CASE Snapshot \/ NoCommand \/ FinishCommand \/ AnswerDuplicate
    BY <2>1 DEF Snapshot, NoCommand, FinishCommand, AnswerDuplicate
  <2>2. ASSUME NEW a \in Actions, StartCommand(a) PROVE LateDropInv'
    BY <2>2 DEF StartCommand
  <2>3. CASE LocalLoop
    BY <2>3 DEF LocalLoop, LocalSample, Decide, StartReclaim, FinishLocal, connVars
  <2>4. CASE Reload \/ Tick \/ Restart
    BY <2>4 DEF Reload, Tick, Restart
  <2>5. CASE UNCHANGED vars
    BY <2>5 DEF vars, connVars
  <2> QED BY <2>1, <2>2, <2>3, <2>4, <2>5 DEF Next, Connection
<1>3. LateDropInv => AtMostOneLateDrop
  BY DEF LateDropInv, AtMostOneLateDrop
<1> QED BY <1>1, <1>2, <1>3, TypeCorrect, PTL DEF Spec

-----------------------------------------------------------------------------
(* Every way to handle a command stamps it, and until a command overtakes    *)
(* it the local loop's copy is as good as the stamp: a reclaim decided on it *)
(* comes HostDefer after the last command.                                   *)
StampInv ==
  /\ host_last_cmd = quiet
  /\ local = "decide" /\ ~overtaken => seen = quiet
  /\ local = "start" /\ ~overtaken => quiet = HostDefer

LEMMA StampStep == DelaysAssumption /\ TypeOK /\ StampInv /\ [Next]_vars => StampInv'
<1> SUFFICES ASSUME DelaysAssumption, TypeOK, StampInv, [Next]_vars PROVE StampInv'
  OBVIOUS
<1> USE DEF StampInv
<1>1. CASE Snapshot \/ NoCommand \/ \E a \in Actions : StartCommand(a)
  BY <1>1 DEF Snapshot, NoCommand, StartCommand, stampVars, localVars
<1>2. CASE FinishCommand \/ AnswerDuplicate
  BY <1>2 DEF FinishCommand, AnswerDuplicate, Stamp
<1>3. CASE \E s \in Samples : LocalSample(s)
  BY <1>3 DEF LocalSample
<1>4. CASE Decide
  BY <1>4 DEF Decide, Decides, connVars, stampVars
<1>5. CASE StartReclaim \/ FinishLocal
  BY <1>5 DEF StartReclaim, FinishLocal, connVars, stampVars
<1>6. CASE Reload
  BY <1>6 DEF Reload, stampVars, localVars
<1>7. CASE Tick
  BY <1>7 DEF Tick, Older, TypeOK, DelaysAssumption
<1>8. CASE Restart
  BY <1>8 DEF Restart
<1>9. CASE UNCHANGED vars
  BY <1>9 DEF vars, connVars, stampVars, localVars
<1> QED BY <1>1, <1>2, <1>3, <1>4, <1>5, <1>6, <1>7, <1>8, <1>9
        DEF Next, Connection, LocalLoop

(* THEOREM (yielding): the local loop starts no reclaim within HostDefer of  *)
(* a command, except the one whose tick had copied the stamp before that     *)
(* command was handled.                                                      *)
THEOREM LocalLoopYields == Spec => LocalYields
<1>1. Init => StampInv
  BY DEF Init, StampInv
<1>2. StampInv /\ [Next]_vars =>
        [ local = "start" /\ local' = "reclaim" => quiet = HostDefer \/ overtaken ]_vars
  BY DEF StampInv
<1> QED BY <1>1, <1>2, StampStep, TypeCorrect, DelaysAssumption, PTL DEF Spec, LocalYields
=============================================================================
