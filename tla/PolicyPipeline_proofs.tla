----------------------- MODULE PolicyPipeline_proofs -----------------------
(***************************************************************************)
(* Proofs about PolicyPipeline, for any bounds: the model is used          *)
(* exclusively, the two action queues never drift apart, the warm start is *)
(* kept, and at most one stale action survives a policy change.            *)
(***************************************************************************)
EXTENDS PolicyPipeline, TLAPS

(* Who is using the model holds the mutex.                                 *)
Locked ==
  /\ control = "init" => mutex = "control"
  /\ rl = "forward" => mutex = "rl"

(* Before it has pushed its position, the run in flight still counts.      *)
BeforePush == {"admitted", "counting", "forward?", "forward", "compute", "pushPos"}

(* While the queues are drained no new run is admitted, so that the run in *)
(* flight adds at most one position between the drains of the two queues.  *)
Draining ==
  /\ control \in {"initWait", "init", "drainPos", "drainVel", "drainTau"} => ~rlInitDone
  /\ control = "drainVel" => /\ Len(pos) <= 1
                             /\ rl \in BeforePush => Len(pos) = 0

(* A policy that is being loaded is still within the bound.                *)
EpochLeft == control \in {"initWait", "init"} => epoch < MaxEpoch

IInv == TypeOK /\ Locked /\ Draining /\ EpochLeft /\ QueueSkew
-----------------------------------------------------------------------------
(* QueueSkew speaks of the lengths only.                                   *)
LEMMA Lengths ==
  ASSUME TypeOK
  PROVE  /\ Len(pos) \in Nat /\ Len(vel) \in Nat
         /\ Mid \in 0..1 /\ Popping \in 0..1
         /\ \A e \in Epochs : Append(pos, e) \in Seq(Epochs) /\ Len(Append(pos, e)) = Len(pos) + 1
         /\ \A e \in Epochs : Append(vel, e) \in Seq(Epochs) /\ Len(Append(vel, e)) = Len(vel) + 1
         /\ pos # <<>> => /\ Head(pos) \in Epochs /\ Tail(pos) \in Seq(Epochs)
                          /\ Len(Tail(pos)) = Len(pos) - 1 /\ Len(pos) > 0
         /\ vel # <<>> => /\ Head(vel) \in Epochs /\ Tail(vel) \in Seq(Epochs)
                          /\ Len(Tail(vel)) = Len(vel) - 1 /\ Len(vel) > 0
         /\ pos = <<>> => Len(pos) = 0
         /\ vel = <<>> => Len(vel) = 0
         /\ <<>> \in Seq(Epochs) /\ Len(<<>>) = 0
  BY DEF TypeOK, Mid, Popping

(* Steps of either thread that leave the queues and the points at which    *)
(* the skew is counted alone.                                              *)
LEMMA SkewUnchanged ==
  ASSUME IInv, UNCHANGED <<pos, vel, Mid, Popping>>,
         control' # "drainVel" => control # "drainVel"
  PROVE  QueueSkew'
  BY DEF IInv, QueueSkew

LEMMA EnterKeeps ==
  ASSUME IInv, Enter
  PROVE  IInv'
  <1> USE DEF IInv, Enter, ControlAt, RLAt, sharedVars, policyVars, queueVars, rlLocals, controlVars
  <1>1. TypeOK'
    <2>1. control' \in ControlPoints
      BY DEF ControlPoints
    <2>2. rlInitDone' \in BOOLEAN
      OBVIOUS
    <2>3. episode' \in 0..2
      OBVIOUS
    <2> QED
      BY <2>1, <2>2, <2>3 DEF TypeOK
  <1>2. Locked' /\ Draining' /\ EpochLeft'
    BY Lengths DEF Locked, Draining, EpochLeft, BeforePush
  <1>3. QueueSkew'
    BY SkewUnchanged DEF Mid, Popping
  <1> QED
    BY <1>1, <1>2, <1>3

LEMMA LockModelKeeps ==
  ASSUME IInv, LockModel
  PROVE  IInv'
  <1> USE DEF IInv, LockModel, ControlAt, RLAt, sharedVars, policyVars, queueVars, rlLocals, controlVars
  <1>1. TypeOK'
    BY DEF TypeOK, ControlPoints, RLPoints, Epochs
  <1>2. Locked' /\ Draining' /\ EpochLeft'
    BY Lengths DEF Locked, Draining, EpochLeft, BeforePush
  <1>3. QueueSkew'
    BY SkewUnchanged DEF Mid, Popping
  <1> QED
    BY <1>1, <1>2, <1>3

LEMMA HoldKeeps ==
  ASSUME IInv, Hold
  PROVE  IInv'
  <1> USE DEF IInv, Hold, ControlAt, RLAt, sharedVars, policyVars, queueVars, rlLocals, controlVars
  <1>1. TypeOK'
    BY DEF TypeOK, ControlPoints, RLPoints, Epochs
  <1>2. Locked' /\ Draining' /\ EpochLeft'
    BY Lengths DEF Locked, Draining, EpochLeft, BeforePush
  <1>3. QueueSkew'
    BY SkewUnchanged DEF Mid, Popping
  <1> QED
    BY <1>1, <1>2, <1>3

LEMMA EngageKeeps ==
  ASSUME IInv, Engage
  PROVE  IInv'
  <1> USE DEF IInv, Engage, ControlAt, RLAt, sharedVars, policyVars, queueVars, rlLocals, controlVars
  <1>1. TypeOK'
    BY DEF TypeOK, ControlPoints, RLPoints, Epochs
  <1>2. Locked' /\ Draining' /\ EpochLeft'
    BY Lengths DEF Locked, Draining, EpochLeft, BeforePush
  <1>3. QueueSkew'
    BY SkewUnchanged DEF Mid, Popping
  <1> QED
    BY <1>1, <1>2, <1>3

LEMMA LeaveKeeps ==
  ASSUME IInv, Leave
  PROVE  IInv'
  <1> USE DEF IInv, Leave, ControlAt, RLAt, sharedVars, policyVars, queueVars, rlLocals, controlVars
  <1>1. TypeOK'
    BY DEF TypeOK, ControlPoints, RLPoints, Epochs
  <1>2. Locked' /\ Draining' /\ EpochLeft'
    BY Lengths DEF Locked, Draining, EpochLeft, BeforePush
  <1>3. QueueSkew'
    BY SkewUnchanged DEF Mid, Popping
  <1> QED
    BY <1>1, <1>2, <1>3

LEMMA ToggleSimulationKeeps ==
  ASSUME IInv, ToggleSimulation
  PROVE  IInv'
  <1> USE DEF IInv, ToggleSimulation, ControlAt, RLAt, sharedVars, policyVars, queueVars, rlLocals, controlVars
  <1>1. TypeOK'
    BY DEF TypeOK, ControlPoints, RLPoints, Epochs
  <1>2. Locked' /\ Draining' /\ EpochLeft'
    BY Lengths DEF Locked, Draining, EpochLeft, BeforePush
  <1>3. QueueSkew'
    BY SkewUnchanged DEF Mid, Popping
  <1> QED
    BY <1>1, <1>2, <1>3

LEMMA InitSucceedsKeeps ==
  ASSUME IInv, InitSucceeds
  PROVE  IInv'
  <1> USE DEF IInv, InitSucceeds, ControlAt, RLAt, sharedVars, policyVars, queueVars, rlLocals, controlVars
  <1>0. epoch + 1 \in 0..MaxEpoch /\ HistoryLength \in 0..HistoryLength
    BY BoundsAssumption DEF EpochLeft, TypeOK, Epochs
  <1>1. TypeOK'
    BY <1>0 DEF ResetBuffers, TypeOK, ControlPoints, RLPoints, Epochs
  <1>2. Locked' /\ Draining' /\ EpochLeft'
    BY Lengths DEF Locked, Draining, EpochLeft, BeforePush
  <1>3. QueueSkew'
    BY SkewUnchanged DEF Mid, Popping
  <1> QED
    BY <1>1, <1>2, <1>3

LEMMA InitFailsKeeps ==
  ASSUME IInv, NEW f \in Failures, InitFails(f)
  PROVE  IInv'
  <1> USE DEF IInv, InitFails, ControlAt, RLAt, sharedVars, policyVars, queueVars, rlLocals, controlVars
  <1>0. HistoryLength \in 0..HistoryLength
    BY BoundsAssumption
  <1>1. TypeOK'
    BY <1>0 DEF ResetBuffers, TypeOK, ControlPoints, RLPoints, Epochs
  <1>2. Locked' /\ Draining' /\ EpochLeft'
    BY Lengths DEF Locked, Draining, EpochLeft, BeforePush
  <1>3. QueueSkew'
    BY SkewUnchanged DEF Mid, Popping
  <1> QED
    BY <1>1, <1>2, <1>3

LEMMA DrainPosKeeps ==
  ASSUME IInv, DrainPos
  PROVE  IInv'
  <1> USE DEF IInv, DrainPos, ControlAt, RLAt, sharedVars, policyVars, queueVars, rlLocals, controlVars
  <1>1. TypeOK'
    BY Lengths, BoundsAssumption DEF TypeOK, ControlPoints, RLPoints, Epochs
  <1>2. Locked' /\ Draining' /\ EpochLeft'
    BY Lengths DEF Locked, Draining, EpochLeft, BeforePush
  <1>3. QueueSkew'
    BY Lengths DEF QueueSkew, Mid, Popping
  <1> QED
    BY <1>1, <1>2, <1>3

LEMMA DrainVelKeeps ==
  ASSUME IInv, DrainVel
  PROVE  IInv'
  <1> USE DEF IInv, DrainVel, ControlAt, RLAt, sharedVars, policyVars, queueVars, rlLocals, controlVars
  <1>1. TypeOK'
    BY Lengths, BoundsAssumption DEF TypeOK, ControlPoints, RLPoints, Epochs
  <1>2. Locked' /\ Draining' /\ EpochLeft'
    BY Lengths DEF Locked, Draining, EpochLeft, BeforePush
  <1>3. QueueSkew'
    BY Lengths DEF Draining, BeforePush, QueueSkew, Mid, Popping
  <1> QED
    BY <1>1, <1>2, <1>3

LEMMA DrainTauKeeps ==
  ASSUME IInv, DrainTau
  PROVE  IInv'
  <1> USE DEF IInv, DrainTau, ControlAt, RLAt, sharedVars, policyVars, queueVars, rlLocals, controlVars
  <1>1. TypeOK'
    BY Lengths, BoundsAssumption DEF TypeOK, ControlPoints, RLPoints, Epochs
  <1>2. Locked' /\ Draining' /\ EpochLeft'
    BY Lengths DEF Locked, Draining, EpochLeft, BeforePush
  <1>3. QueueSkew'
    BY Lengths DEF QueueSkew, Mid, Popping
  <1> QED
    BY <1>1, <1>2, <1>3

LEMMA PopPosKeeps ==
  ASSUME IInv, PopPos
  PROVE  IInv'
  <1> USE DEF IInv, PopPos, ControlAt, RLAt, sharedVars, policyVars, queueVars, rlLocals, controlVars
  <1>1. TypeOK'
    <2>1. CASE pos = <<>>
      BY <2>1 DEF TypeOK, ControlPoints
    <2>2. CASE pos # <<>>
      <3>1. popped' \in Epochs /\ pos' \in Seq(Epochs)
        BY <2>2, Lengths
      <3>2. control' \in ControlPoints
        BY <2>2 DEF ControlPoints
      <3> QED
        BY <2>2, <3>1, <3>2 DEF TypeOK
    <2> QED
      BY <2>1, <2>2
  <1>2. Locked' /\ Draining' /\ EpochLeft'
    BY Lengths DEF Locked, Draining, EpochLeft, BeforePush
  <1>3. QueueSkew'
    BY Lengths DEF QueueSkew, Mid, Popping
  <1> QED
    BY <1>1, <1>2, <1>3

LEMMA PopVelKeeps ==
  ASSUME IInv, PopVel
  PROVE  IInv'
  <1> USE DEF IInv, PopVel, ControlAt, RLAt, sharedVars, policyVars, queueVars, rlLocals, controlVars
  <1>1. TypeOK'
    <2>1. control' \in ControlPoints
      BY DEF ControlPoints
    <2>2. CASE vel = <<>>
      BY <2>1, <2>2 DEF TypeOK
    <2>3. CASE vel # <<>>
      <3>1. popped \in Epochs /\ Head(vel) \in Epochs /\ Tail(vel) \in Seq(Epochs)
        BY <2>3, Lengths DEF TypeOK
      <3>2. applied' \in Epochs \X Epochs /\ vel' \in Seq(Epochs)
        BY <2>3, <3>1
      <3> QED
        BY <2>1, <3>2 DEF TypeOK
    <2> QED
      BY <2>2, <2>3
  <1>2. Locked' /\ Draining' /\ EpochLeft'
    BY Lengths DEF Locked, Draining, EpochLeft, BeforePush
  <1>3. QueueSkew'
    BY Lengths DEF QueueSkew, Mid, Popping
  <1> QED
    BY <1>1, <1>2, <1>3

LEMMA AdmitKeeps ==
  ASSUME IInv, Admit
  PROVE  IInv'
  <1> USE DEF IInv, Admit, ControlAt, RLAt, sharedVars, policyVars, queueVars, rlLocals, controlVars
  <1>1. TypeOK'
    BY DEF TypeOK, ControlPoints, RLPoints, Epochs
  <1>2. Locked' /\ Draining' /\ EpochLeft'
    BY Lengths DEF Locked, Draining, EpochLeft, BeforePush
  <1>3. QueueSkew'
    BY SkewUnchanged DEF Mid, Popping
  <1> QED
    BY <1>1, <1>2, <1>3

LEMMA ReadEpisodeKeeps ==
  ASSUME IInv, ReadEpisode
  PROVE  IInv'
  <1> USE DEF IInv, ReadEpisode, ControlAt, RLAt, sharedVars, policyVars, queueVars, rlLocals, controlVars
  <1>1. TypeOK'
    BY DEF TypeOK, ControlPoints, RLPoints, Epochs
  <1>2. Locked' /\ Draining' /\ EpochLeft'
    BY Lengths DEF Locked, Draining, EpochLeft, BeforePush
  <1>3. QueueSkew'
    BY SkewUnchanged DEF Mid, Popping
  <1> QED
    BY <1>1, <1>2, <1>3

LEMMA WriteEpisodeKeeps ==
  ASSUME IInv, WriteEpisode
  PROVE  IInv'
  <1> USE DEF IInv, WriteEpisode, ControlAt, RLAt, sharedVars, policyVars, queueVars, rlLocals, controlVars
  <1>1. TypeOK'
    BY DEF TypeOK, ControlPoints, RLPoints, Epochs
  <1>2. Locked' /\ Draining' /\ EpochLeft'
    BY Lengths DEF Locked, Draining, EpochLeft, BeforePush
  <1>3. QueueSkew'
    BY SkewUnchanged DEF Mid, Popping
  <1> QED
    BY <1>1, <1>2, <1>3

LEMMA ForwardLockedKeeps ==
  ASSUME IInv, ForwardLocked
  PROVE  IInv'
  <1> USE DEF IInv, ForwardLocked, ControlAt, RLAt, sharedVars, policyVars, queueVars, rlLocals, controlVars
  <1>1. TypeOK'
    BY DEF TypeOK, ControlPoints, RLPoints, Epochs
  <1>2. Locked' /\ Draining' /\ EpochLeft'
    BY Lengths DEF Locked, Draining, EpochLeft, BeforePush
  <1>3. QueueSkew'
    BY SkewUnchanged DEF Mid, Popping
  <1> QED
    BY <1>1, <1>2, <1>3

LEMMA ForwardBusyKeeps ==
  ASSUME IInv, ForwardBusy
  PROVE  IInv'
  <1> USE DEF IInv, ForwardBusy, ControlAt, RLAt, sharedVars, policyVars, queueVars, rlLocals, controlVars
  <1>1. TypeOK'
    BY DEF TypeOK, ControlPoints, RLPoints, Epochs
  <1>2. Locked' /\ Draining' /\ EpochLeft'
    BY Lengths DEF Locked, Draining, EpochLeft, BeforePush
  <1>3. QueueSkew'
    BY SkewUnchanged DEF Mid, Popping
  <1> QED
    BY <1>1, <1>2, <1>3

LEMMA ForwardCrashesKeeps ==
  ASSUME IInv, ForwardCrashes
  PROVE  IInv'
  <1> USE DEF IInv, ForwardCrashes, ControlAt, RLAt, sharedVars, policyVars, queueVars, rlLocals, controlVars
  <1>1. TypeOK'
    BY DEF TypeOK, ControlPoints, RLPoints, Epochs
  <1>2. Locked' /\ Draining' /\ EpochLeft'
    BY Lengths DEF Locked, Draining, EpochLeft, BeforePush
  <1>3. QueueSkew'
    BY SkewUnchanged DEF Mid, Popping
  <1> QED
    BY <1>1, <1>2, <1>3

LEMMA ComputeOutputKeeps ==
  ASSUME IInv, ComputeOutput
  PROVE  IInv'
  <1> USE DEF IInv, ComputeOutput, ControlAt, RLAt, sharedVars, policyVars, queueVars, rlLocals, controlVars
  <1>1. TypeOK'
    BY DEF TypeOK, ControlPoints, RLPoints, Epochs
  <1>2. Locked' /\ Draining' /\ EpochLeft'
    BY Lengths DEF Locked, Draining, EpochLeft, BeforePush
  <1>3. QueueSkew'
    BY SkewUnchanged DEF Mid, Popping
  <1> QED
    BY <1>1, <1>2, <1>3

LEMMA ForwardInfersKeeps ==
  ASSUME IInv, ForwardInfers
  PROVE  IInv'
  <1> USE DEF IInv, ForwardInfers, ControlAt, RLAt, sharedVars, policyVars, queueVars, rlLocals, controlVars
  <1>0. padding' \in 0..HistoryLength
    BY BoundsAssumption DEF TypeOK, AfterInsert
  <1>1. TypeOK'
    BY <1>0 DEF TypeOK, ControlPoints, RLPoints, Epochs
  <1>2. Locked' /\ Draining' /\ EpochLeft'
    BY Lengths DEF Locked, Draining, EpochLeft, BeforePush
  <1>3. QueueSkew'
    BY SkewUnchanged DEF Mid, Popping
  <1> QED
    BY <1>1, <1>2, <1>3

LEMMA PushPosKeeps ==
  ASSUME IInv, PushPos
  PROVE  IInv'
  <1> USE DEF IInv, PushPos, ControlAt, RLAt, sharedVars, policyVars, queueVars, rlLocals, controlVars
  <1>1. TypeOK'
    BY Lengths DEF TypeOK, ControlPoints, RLPoints, Epochs
  <1>2. Locked' /\ Draining' /\ EpochLeft'
    BY Lengths DEF Locked, Draining, EpochLeft, BeforePush
  <1>3. QueueSkew'
    BY Lengths DEF QueueSkew, Mid, Popping
  <1> QED
    BY <1>1, <1>2, <1>3

LEMMA PushVelKeeps ==
  ASSUME IInv, PushVel
  PROVE  IInv'
  <1> USE DEF IInv, PushVel, ControlAt, RLAt, sharedVars, policyVars, queueVars, rlLocals, controlVars
  <1>1. TypeOK'
    BY Lengths DEF TypeOK, ControlPoints, RLPoints, Epochs
  <1>2. Locked' /\ Draining' /\ EpochLeft'
    BY Lengths DEF Locked, Draining, EpochLeft, BeforePush
  <1>3. QueueSkew'
    BY Lengths DEF QueueSkew, Mid, Popping
  <1> QED
    BY <1>1, <1>2, <1>3

LEMMA PushTauKeeps ==
  ASSUME IInv, PushTau
  PROVE  IInv'
  <1> USE DEF IInv, PushTau, ControlAt, RLAt, sharedVars, policyVars, queueVars, rlLocals, controlVars
  <1>1. TypeOK'
    BY BoundsAssumption DEF TypeOK, ControlPoints, RLPoints, Epochs
  <1>2. Locked' /\ Draining' /\ EpochLeft'
    BY Lengths DEF Locked, Draining, EpochLeft, BeforePush
  <1>3. QueueSkew'
    BY SkewUnchanged DEF Mid, Popping
  <1> QED
    BY <1>1, <1>2, <1>3

-----------------------------------------------------------------------------
LEMMA InitEstablishesIInv ==
  Init => IInv
  <1> SUFFICES ASSUME Init PROVE IInv
    OBVIOUS
  <1>1. 0 \in Epochs /\ HistoryLength \in 0..HistoryLength /\ 0 \in 0..TauCap
    BY BoundsAssumption DEF Epochs
  <1>2. <<>> \in Seq(Epochs) /\ Len(<<>>) = 0 /\ <<0, 0>> \in Epochs \X Epochs
    BY <1>1
  <1>3. /\ control \in ControlPoints /\ rl \in RLPoints
        /\ rlInitDone \in BOOLEAN /\ simRunning \in BOOLEAN
        /\ mutex \in {"free", "control", "rl"} /\ model \in {"none", "invalid", "valid"}
    BY DEF Init, ControlPoints, RLPoints
  <1>4. episode \in 0..2 /\ counted \in 0..2 /\ padding \in 0..HistoryLength /\ tau \in 0..TauCap
    BY <1>1 DEF Init
  <1>5. TypeOK
    BY <1>1, <1>2, <1>3, <1>4 DEF Init, TypeOK
  <1>6. Locked /\ Draining /\ EpochLeft /\ QueueSkew
    BY <1>2 DEF Init, Locked, Draining, EpochLeft, QueueSkew, Mid, Popping
  <1> QED
    BY <1>5, <1>6 DEF IInv

LEMMA StutteringKeeps ==
  ASSUME IInv, UNCHANGED vars
  PROVE  IInv'
  <1> USE DEF IInv, vars, sharedVars, policyVars, queueVars, rlLocals, controlVars
  <1>1. TypeOK'
    BY DEF TypeOK
  <1>2. Locked' /\ Draining' /\ EpochLeft'
    BY DEF Locked, Draining, EpochLeft
  <1>3. QueueSkew'
    BY SkewUnchanged DEF Mid, Popping
  <1> QED
    BY <1>1, <1>2, <1>3

LEMMA NextKeepsIInv ==
  IInv /\ [Next]_vars => IInv'
  <1> SUFFICES ASSUME IInv, [Next]_vars PROVE IInv'
    OBVIOUS
  <1>1. CASE Control
    BY <1>1, EnterKeeps, LockModelKeeps, InitSucceedsKeeps, InitFailsKeeps,
       DrainPosKeeps, DrainVelKeeps, DrainTauKeeps, HoldKeeps, EngageKeeps,
       PopPosKeeps, PopVelKeeps, LeaveKeeps DEF Control
  <1>2. CASE ToggleSimulation
    BY <1>2, ToggleSimulationKeeps
  <1>3. CASE RunModel
    BY <1>3, AdmitKeeps, ReadEpisodeKeeps, WriteEpisodeKeeps, ForwardLockedKeeps,
       ForwardBusyKeeps, ForwardInfersKeeps, ForwardCrashesKeeps, ComputeOutputKeeps,
       PushPosKeeps, PushVelKeeps, PushTauKeeps DEF RunModel
  <1>4. CASE Crashed \/ UNCHANGED vars
    BY <1>4, StutteringKeeps DEF Crashed
  <1> QED
    BY <1>1, <1>2, <1>3, <1>4 DEF Next

(* The hand-over keeps the inductive invariant: who uses the model holds   *)
(* model_mutex, no run is admitted while the queues are drained, and the   *)
(* queues stay together.                                                   *)
THEOREM Invariance ==
  Spec => []IInv
  <1> QED
    BY InitEstablishesIInv, NextKeepsIInv, PTL DEF Spec

(* Every shared member keeps its type, whatever the threads interleave.    *)
THEOREM TypeCorrect ==
  Spec => []TypeOK
  <1>1. IInv => TypeOK
    BY DEF IInv
  <1> QED
    BY <1>1, Invariance, PTL

(* InitRL never replaces the model, or its history, under a running        *)
(* Forward.                                                                *)
THEOREM ModelIsExclusive ==
  Spec => []ModelExclusive
  <1>1. IInv => ModelExclusive
    BY DEF IInv, Locked, ModelExclusive
  <1> QED
    BY <1>1, Invariance, PTL

(* The positions and the velocities RLControl pairs are never more than    *)
(* one run apart, however the pushes, the pops and the drains interleave.  *)
THEOREM QueuesStayTogether ==
  Spec => []QueueSkew
  <1>1. IInv => QueueSkew
    BY DEF IInv
  <1> QED
    BY <1>1, Invariance, PTL
-----------------------------------------------------------------------------
(* The warm start.  Who holds the mutex is using the model; an Enter that  *)
(* found no run in flight finds none until the policy is engaged; and as   *)
(* long as there is padding, the run in flight is the first of its episode.*)
LockUsed ==
  /\ mutex = "control" => control = "init"
  /\ mutex = "rl" => rl \in {"forward", "crashed"}

QuietInit ==
  ~raced /\ control \in {"initWait", "init"} => rl = "idle" /\ episode = 0

FirstRun ==
  WarmStart /\ ~raced /\ padding # 0 =>
    /\ rl \in {"idle", "admitted", "counting", "forward?", "forward", "crashed"}
    /\ rl \in {"idle", "admitted", "counting"} => episode = 0
    /\ rl = "counting" => counted = 0
    /\ rl \in {"forward?", "forward"} => episode <= 1

WInv == LockUsed /\ QuietInit /\ FirstRun

LEMMA InitEstablishesWInv ==
  Init => WInv
  BY DEF Init, WInv, LockUsed, QuietInit, FirstRun

LEMMA ControlKeepsWInv ==
  ASSUME IInv, WInv, Control
  PROVE  WInv'
  <1> USE DEF WInv, LockUsed, QuietInit, ControlAt, Alive, sharedVars, policyVars, queueVars,
              rlLocals, controlVars
  <1>1. CASE Enter
    BY <1>1 DEF Enter, FirstRun
  <1>2. CASE LockModel
    BY <1>2 DEF LockModel, FirstRun
  <1>3. CASE InitSucceeds
    BY <1>3 DEF InitSucceeds, FirstRun
  <1>4. CASE \E f \in Failures : InitFails(f)
    BY <1>4 DEF InitFails, FirstRun
  <1>5. CASE DrainPos \/ DrainVel \/ DrainTau \/ Hold \/ Engage \/ PopPos \/ PopVel \/ Leave
    <2>1. UNCHANGED <<rl, episode, counted, padding, mutex, raced>>
      BY <1>5 DEF DrainPos, DrainVel, DrainTau, Hold, Engage, PopPos, PopVel, Leave
    <2>2. control \notin {"initWait", "init"} /\ control' \notin {"initWait", "init"}
      BY <1>5 DEF DrainPos, DrainVel, DrainTau, Hold, Engage, PopPos, PopVel, Leave
    <2> QED
      BY <2>1, <2>2 DEF FirstRun
  <1> QED
    BY <1>1, <1>2, <1>3, <1>4, <1>5 DEF Control

LEMMA RunModelKeepsWInv ==
  ASSUME IInv, WInv, RunModel
  PROVE  WInv'
  <1> USE DEF IInv, WInv, LockUsed, QuietInit, FirstRun, RLAt, sharedVars, policyVars, queueVars,
              rlLocals, controlVars
  <1>1. CASE Admit
    BY <1>1 DEF Admit, Draining
  <1>2. CASE ReadEpisode
    BY <1>2 DEF ReadEpisode
  <1>3. CASE WriteEpisode
    BY <1>3 DEF WriteEpisode
  <1>4. CASE ForwardLocked
    BY <1>4 DEF ForwardLocked
  <1>5. CASE ForwardBusy
    BY <1>5 DEF ForwardBusy, TypeOK
  <1>6. CASE ForwardInfers
    BY <1>6 DEF ForwardInfers, AfterInsert, Locked
  <1>7. CASE ForwardCrashes
    BY <1>7 DEF ForwardCrashes
  <1>8. CASE ComputeOutput \/ PushPos \/ PushVel \/ PushTau
    BY <1>8 DEF ComputeOutput, PushPos, PushVel, PushTau
  <1> QED
    BY <1>1, <1>2, <1>3, <1>4, <1>5, <1>6, <1>7, <1>8 DEF RunModel

LEMMA NextKeepsWInv ==
  IInv /\ WInv /\ [Next]_vars => WInv'
  <1> SUFFICES ASSUME IInv, WInv, [Next]_vars PROVE WInv'
    OBVIOUS
  <1>1. CASE ToggleSimulation
    BY <1>1 DEF ToggleSimulation, WInv, LockUsed, QuietInit, FirstRun, policyVars, rlLocals,
                controlVars
  <1>2. CASE Crashed \/ UNCHANGED vars
    BY <1>2 DEF Crashed, vars, sharedVars, policyVars, rlLocals, controlVars, WInv, LockUsed,
                QuietInit, FirstRun
  <1> QED
    BY <1>1, <1>2, ControlKeepsWInv, RunModelKeepsWInv DEF Next

(* A policy that asks for a warm start never infers on the zero padding,   *)
(* unless a run was in flight when RLLocomotion was entered.               *)
THEOREM WarmStartKept ==
  Spec => HistoryWarm
  <1>1. IInv /\ WInv /\ [Next]_vars
        => [rl = "forward" /\ rl' = "compute" /\ WarmStart /\ ~raced => padding' = 0]_vars
    <2> SUFFICES ASSUME IInv, WInv, [Next]_vars,
                        rl = "forward", rl' = "compute", WarmStart, ~raced
                 PROVE  padding' = 0
      OBVIOUS
    <2>1. ForwardInfers
      BY DEF Next, Control, RunModel, Crashed, vars, Alive, RLAt, ToggleSimulation, Enter,
             LockModel, InitSucceeds, InitFails, DrainPos, DrainVel, DrainTau, Hold, Engage,
             PopPos, PopVel, Leave, Admit, ReadEpisode, WriteEpisode, ForwardLocked,
             ForwardBusy, ForwardCrashes, ComputeOutput, PushPos, PushVel, PushTau
    <2> QED
      BY <2>1 DEF ForwardInfers, AfterInsert, WInv, FirstRun
  <1> QED
    BY <1>1, Invariance, InitEstablishesWInv, NextKeepsWInv, PTL DEF Spec, HistoryWarm
-----------------------------------------------------------------------------
(* The stale action.  From the end of the drain of the positions until the *)
(* policy is left, the action of an earlier policy is in the queue or still*)
(* to be pushed by the run in flight, not both: a later run computes its   *)
(* own, since only InitRL keeps it from the model.                         *)
Drained == control \in {"drainVel", "drainTau", "run", "popPos", "popVel"}

StaleInFlight == (rl = "compute" /\ result # epoch) \/ (rl = "pushPos" /\ output # epoch)

SInv ==
  Drained =>
    /\ \A i, j \in Stale(pos) : i = j
    /\ StaleInFlight => Stale(pos) = {}

(* Steps that leave the queue of positions alone.                          *)
LEMMA QueueUnchangedKeepsSInv ==
  ASSUME SInv, Drained' => Drained, UNCHANGED <<pos, epoch>>, StaleInFlight' => StaleInFlight
  PROVE  SInv'
  BY DEF SInv, Stale

LEMMA ControlKeepsSInv ==
  ASSUME IInv, SInv, Control
  PROVE  SInv'
  <1> USE DEF Drained, StaleInFlight, ControlAt, policyVars, queueVars, rlLocals
  <1>1. CASE \/ Enter \/ LockModel \/ InitSucceeds \/ \E f \in Failures : InitFails(f)
             \/ Hold
    BY <1>1 DEF Enter, LockModel, InitSucceeds, InitFails, Hold, SInv
  <1>2. CASE DrainVel \/ DrainTau \/ Engage \/ PopVel \/ Leave
    BY <1>2, QueueUnchangedKeepsSInv DEF DrainVel, DrainTau, Engage, PopVel, Leave
  <1>3. CASE DrainPos
    BY <1>3 DEF DrainPos, SInv, Stale
  <1>4. CASE PopPos
    <2>1. CASE pos = <<>>
      BY <1>4, <2>1, QueueUnchangedKeepsSInv DEF PopPos
    <2>2. CASE pos # <<>>
      <3>1. /\ pos \in Seq(Epochs) /\ pos' = Tail(pos) /\ UNCHANGED <<rl, epoch, result, output>>
            /\ Drained
        BY <1>4, <2>2 DEF PopPos, IInv, TypeOK
      <3>2. \A i \in Stale(pos)' : i + 1 \in Stale(pos) /\ i \in Int
        BY <2>2, <3>1 DEF Stale
      <3> QED
        BY <3>1, <3>2 DEF SInv, Stale
    <2> QED
      BY <2>1, <2>2
  <1> QED
    BY <1>1, <1>2, <1>3, <1>4 DEF Control

LEMMA RunModelKeepsSInv ==
  ASSUME IInv, LockUsed, SInv, RunModel
  PROVE  SInv'
  <1> USE DEF Drained, StaleInFlight, RLAt, policyVars, queueVars, rlLocals
  <1>1. CASE Admit \/ ReadEpisode \/ WriteEpisode \/ ForwardLocked \/ ForwardCrashes
    BY <1>1, QueueUnchangedKeepsSInv
       DEF Admit, ReadEpisode, WriteEpisode, ForwardLocked, ForwardCrashes
  <1>2. CASE ForwardBusy
    <2>1. control = "init"
      BY <1>2 DEF ForwardBusy, LockUsed, IInv, TypeOK
    <2> QED
      BY <1>2, <2>1 DEF ForwardBusy, SInv
  <1>3. CASE ForwardInfers \/ ComputeOutput
    BY <1>3, QueueUnchangedKeepsSInv DEF ForwardInfers, ComputeOutput
  <1>4. CASE PushPos
    <2>1. /\ pos \in Seq(Epochs) /\ output \in Epochs /\ pos' = Append(pos, output)
          /\ UNCHANGED <<control, epoch, output>> /\ rl = "pushPos" /\ rl' = "pushVel"
      BY <1>4 DEF PushPos, IInv, TypeOK
    <2>2. Stale(pos)' = Stale(pos) \cup (IF output # epoch THEN {Len(pos) + 1} ELSE {})
      BY <2>1 DEF Stale
    <2> QED
      BY <2>1, <2>2 DEF SInv
  <1>5. CASE PushVel \/ PushTau
    BY <1>5, QueueUnchangedKeepsSInv DEF PushVel, PushTau
  <1> QED
    BY <1>1, <1>2, <1>3, <1>4, <1>5 DEF RunModel

LEMMA NextKeepsSInv ==
  IInv /\ LockUsed /\ SInv /\ [Next]_vars => SInv'
  <1> SUFFICES ASSUME IInv, LockUsed, SInv, [Next]_vars PROVE SInv'
    OBVIOUS
  <1>1. CASE ToggleSimulation
    BY <1>1, QueueUnchangedKeepsSInv
       DEF ToggleSimulation, Drained, StaleInFlight, policyVars, queueVars, rlLocals
  <1>2. CASE Crashed \/ UNCHANGED vars
    BY <1>2, QueueUnchangedKeepsSInv
       DEF Crashed, vars, Drained, StaleInFlight, policyVars, queueVars, rlLocals
  <1> QED
    BY <1>1, <1>2, ControlKeepsSInv, RunModelKeepsSInv DEF Next

(* However the drains of Enter race with a run in flight, at most one      *)
(* action of an earlier policy is left in the queue of positions.          *)
THEOREM StaleIsBounded ==
  Spec => []StaleBounded
  <1>1. Init => SInv
    BY DEF Init, SInv, Drained
  <1>2. WInv => LockUsed
    BY DEF WInv
  <1>3. SInv => StaleBounded
    BY DEF SInv, Drained, StaleBounded
  <1> QED
    BY <1>1, <1>2, <1>3, Invariance, InitEstablishesWInv, NextKeepsWInv, NextKeepsIInv,
       NextKeepsSInv, PTL DEF Spec
=============================================================================
