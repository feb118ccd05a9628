----------------------------- MODULE Mujoco_proofs ----------------------------
(***************************************************************************)
(* What is proved of the MuJoCo node: the handover of models from the      *)
(* physics thread to the viewer, the viewer's history, its keys and its    *)
(* mouse, and the joystick.  Each has its inductive invariant, its steps   *)
(* and its theorem.                                                        *)
(***************************************************************************)
EXTENDS MujocoNode, ViewerHistory, ViewerInput, SysJoystick, SequenceLemmas

(***** The handover of a model *******************************************)

(* The physics thread has a loaded model in its hands.                     *)
HandingOver == physics \in {"offer", "await", "install"}

(* The render thread has taken it.                                         *)
TakenOver == physics = "install" \/ (physics = "await" /\ loadrequest = 0)

(* What the pending request says of the load.                              *)
RequestMatches ==
  /\ physics \in {"load", "offer", "clear"} => loadrequest = 3
  /\ physics = "await" => loadrequest \in {0, 1, 2}
  /\ physics \notin {"load", "offer", "clear", "await"} => loadrequest = 0
  /\ loadrequest \in {1, 2} => offered = loading

(* Models are freed in the order they were loaded, each behind the back of *)
(* its successor only, but for the end of the program.                     *)
FreedInOrder ==
  /\ loading = IF HandingOver /\ cause # "first" THEN model + 1 ELSE model
  /\ HandingOver => loading # 0
  /\ cause = "first" /\ physics \in {"message", "load"} => loading = 0
  /\ physics # "gone" => \A k \in freed : k < model
  /\ physics \in {"free", "gone"} => exitrequest # 0
  /\ IF TakenOver THEN shown = loading ELSE shown \in {0, model}

HandoverInv == StatesTyped /\ RequestMatches /\ FreedInOrder
-----------------------------------------------------------------------------
LEMMA HandoverInitially == Init => HandoverInv
  <1> SUFFICES ASSUME Init PROVE HandoverInv
    OBVIOUS
  <1> USE DEF Init
  <1>1. StatesTyped
    BY BoundsAssumption DEF StatesTyped, Models
  <1>2. RequestMatches
    BY DEF RequestMatches
  <1>3. FreedInOrder
    BY DEF FreedInOrder, HandingOver, TakenOver
  <1> QED
    BY <1>1, <1>2, <1>3 DEF HandoverInv

LEMMA HandoverStep == HandoverInv /\ [Next]_vars => HandoverInv'
  <1> SUFFICES ASSUME HandoverInv, [Next]_vars PROVE HandoverInv'
    OBVIOUS
  <1> USE BoundsAssumption
          DEF HandoverInv, StatesTyped, RequestMatches, FreedInOrder, HandingOver, TakenOver, Models,
              models, requests, PhysicsGoes, MainGoes
  <1>1. CASE LoadMessage
    BY <1>1 DEF LoadMessage
  <1>2. CASE LoadModel
    <2>1. StatesTyped'
      BY <1>2 DEF LoadModel
    <2>2. RequestMatches'
      BY <1>2 DEF LoadModel
    <2>3. CASE PhysicsGoes("load", "clear") /\ UNCHANGED <<loading, model>>
      <3>1. FreedInOrder'
        BY <1>2, <2>3 DEF LoadModel
      <3> QED
        BY <2>1, <2>2, <3>1
    <2>4. CASE PhysicsGoes("load", "offer")
      <3>1. loading' = loading + 1 /\ model' = IF cause = "first" THEN loading + 1 ELSE model
        BY <1>2, <2>4 DEF LoadModel
      <3>2. UNCHANGED <<loadrequest, cause, shown, freed, exitrequest>>
        BY <1>2 DEF LoadModel
      <3>3. FreedInOrder'
        BY <2>4, <3>1, <3>2
      <3> QED
        BY <2>1, <2>2, <3>3
    <2> QED
      BY <1>2, <2>3, <2>4 DEF LoadModel
  <1>3. CASE Load
    BY <1>3 DEF Load
  <1>4. CASE Loaded
    BY <1>4 DEF Loaded
  <1>5. CASE Install
    BY <1>5 DEF Install, AfterLoad
  <1>6. CASE LoadMessageClear
    BY <1>6 DEF LoadMessageClear, AfterLoad
  <1>7. CASE TestDrop
    BY <1>7 DEF TestDrop
  <1>8. CASE TestReload
    BY <1>8 DEF TestReload
  <1>9. CASE PhysicsStep
    BY <1>9 DEF PhysicsStep
  <1>10. CASE PhysicsEnd
    <2>1. StatesTyped'
      <3>1. freed' \in SUBSET Models
        <4>1. model \in 0 .. MaxModels /\ freed \subseteq 1 .. MaxModels
          OBVIOUS
        <4>2. {model} \ {0} \subseteq 1 .. MaxModels
          BY <4>1
        <4>3. freed' = freed \cup ({model} \ {0})
          BY <1>10 DEF PhysicsEnd
        <4> HIDE DEF HandoverInv, StatesTyped, FreedInOrder, RequestMatches
        <4> QED
          BY <4>1, <4>2, <4>3
      <3> QED
        BY <1>10, <3>1 DEF PhysicsEnd
    <2>2. RequestMatches'
      BY <1>10 DEF PhysicsEnd
    <2>3. FreedInOrder'
      BY <1>10 DEF PhysicsEnd
    <2> QED
      BY <2>1, <2>2, <2>3
  <1>11. CASE Construct \/ SpinEnds \/ RenderSync \/ RenderTest \/ Destruct
    <2>1. CASE Construct
      BY <2>1 DEF Construct
    <2>2. CASE SpinEnds
      BY <2>2 DEF SpinEnds
    <2>3. CASE RenderSync
      BY <2>3 DEF RenderSync
    <2>4. CASE RenderTest
      BY <2>4 DEF RenderTest
    <2>5. CASE Destruct
      BY <2>5 DEF Destruct
    <2> QED
      BY <1>11, <2>1, <2>2, <2>3, <2>4, <2>5
  <1>12. CASE RenderLock
    BY <1>12 DEF RenderLock
  <1>13. CASE RenderLeave
    BY <1>13 DEF RenderLeave
  <1>14. CASE EventQuit \/ EventReload \/ EventFilesDrop
    <2>1. CASE EventQuit
      BY <2>1 DEF EventQuit
    <2>2. CASE EventReload
      BY <2>2 DEF EventReload
    <2>3. CASE EventFilesDrop
      BY <2>3 DEF EventFilesDrop
    <2> QED
      BY <1>14, <2>1, <2>2, <2>3
  <1>15. CASE signalHandler
    BY <1>15 DEF signalHandler
  <1>16. CASE ControlLock \/ RobotControl
    <2>1. StatesTyped'
      BY <1>16, ZenonT(30) DEF ControlLock, RobotControl
    <2>2. RequestMatches'
      BY <1>16 DEF ControlLock, RobotControl
    <2>3. FreedInOrder'
      BY <1>16 DEF ControlLock, RobotControl
    <2> QED
      BY <2>1, <2>2, <2>3
  <1>17. CASE UNCHANGED vars
    BY <1>17 DEF vars
  <1> QED
    BY <1>1, <1>2, <1>3, <1>4, <1>5, <1>6, <1>7, <1>8, <1>9, <1>10, <1>11, <1>12, <1>13,
       <1>14, <1>15, <1>16, <1>17 DEF Next, PhysicsUnlocked, PhysicsLocks, MainUnlocked, MainLocks,
                                   Events

LEMMA HandoverInvSafe == HandoverInv => ViewerModelLive /\ OfferIsAwaited /\ LabelMeansLoading
  BY DEF HandoverInv, StatesTyped, RequestMatches, FreedInOrder, HandingOver, TakenOver,
         ViewerModelLive, OfferIsAwaited, LabelMeansLoading, Models

(* The one Boolean, apart from the numbers.                                *)
DropTyped == droploadrequest \in BOOLEAN

LEMMA NextDropTyped == DropTyped /\ [Next]_vars => DropTyped'
  BY Zenon
     DEF DropTyped, Next, vars, PhysicsUnlocked, PhysicsLocks, MainUnlocked, MainLocks, Events, requests,
         LoadMessage, LoadModel, Load, Loaded, Install, LoadMessageClear, TestDrop, TestReload,
         PhysicsStep, PhysicsEnd, Construct, SpinEnds, RenderSync, RenderTest, Destruct,
         RenderLock, RenderLeave, EventQuit, EventReload, EventFilesDrop, signalHandler,
         ControlLock, RobotControl

(* The hand-over of a model between the physics thread and the render      *)
(* thread (PhysicsLoop, Simulate::Load, RenderLoop): no frame is drawn from*)
(* a model that was deleted, and the render thread takes the model the     *)
(* physics thread waits with, through any number of loads and failures.    *)
THEOREM HandoverIsSafe == Spec => []HandoverSafe
  <1>1. Spec => []HandoverInv
    BY HandoverInitially, HandoverStep, PTL DEF Spec
  <1>2. Init => DropTyped
    BY DEF Init, DropTyped
  <1>3. Spec => []DropTyped
    BY <1>2, NextDropTyped, PTL DEF Spec
  <1>4. HandoverInv /\ DropTyped => HandoverSafe
    BY HandoverInvSafe DEF HandoverSafe, DropTyped, HandoverInv, TypeOK
  <1> QED
    BY <1>1, <1>3, <1>4, PTL
-----------------------------------------------------------------------------
(***** The history *******************************************************)

(* The ring holds the log: the state k steps back is k places before the   *)
(* cursor.                                                                 *)
RingHoldsLog ==
  \A k \in 0 .. nhistory - 1 : log[k + 1] = history[RingIndex(history_cursor - k)]

(* What the scrubber shows, or will as soon as Sync has run.               *)
ScrubPending ==
  /\ ~polling => pending = {}
  /\ run /\ scrub_index < 0 => moved
  /\ ~run /\ scrub_index < 0 =>
       moved \/ "load_from_history" \in pending \/ data = log[1 - scrub_index]

HistoryInv == RingTyped /\ RingHoldsLog /\ ScrubPending
-----------------------------------------------------------------------------
(* "(i + n) % n" wraps at both ends of the ring.                           *)
LEMMA RingWraps ==
  ASSUME NEW i \in -nhistory .. nhistory
  PROVE  RingIndex(i) = IF i < 0 THEN i + nhistory ELSE IF i = nhistory THEN 0 ELSE i
  <1>1. nhistory \in Nat \ {0}
    BY HistoryAssumption
  <1>2. \A j \in 0 .. nhistory - 1 :
          j % nhistory = j /\ (j + nhistory) % nhistory = j /\ (2 * nhistory) % nhistory = 0
    BY <1>1
  <1> QED
    BY <1>1, <1>2 DEF RingIndex

LEMMA AddKeepsLog ==
  ASSUME RingTyped, RingHoldsLog, NEW state \in 0 .. MaxSteps, AddToHistory(state)
  PROVE  /\ RingHoldsLog'
         /\ history_cursor' \in 0 .. nhistory - 1
         /\ history' \in [0 .. nhistory - 1 -> 0 .. MaxSteps]
         /\ log' \in [1 .. nhistory -> 0 .. MaxSteps]
  <1>1. /\ nhistory \in Nat \ {0} /\ MaxSteps \in Nat
        /\ history_cursor \in 0 .. nhistory - 1
        /\ history \in [0 .. nhistory - 1 -> 0 .. MaxSteps]
        /\ log \in [1 .. nhistory -> 0 .. MaxSteps]
    BY HistoryAssumption DEF RingTyped
  <1>2. history_cursor' = IF history_cursor = nhistory - 1 THEN 0 ELSE history_cursor + 1
    BY <1>1, RingWraps DEF AddToHistory
  <1>3. history' = [history EXCEPT ![history_cursor'] = state]
    BY DEF AddToHistory
  <1>4. log' = [j \in 1 .. nhistory |-> IF j = 1 THEN state ELSE log[j - 1]]
    <2>1. log \in Seq(0 .. MaxSteps) /\ Len(log) = nhistory
      BY <1>1
    <2>2. <<state>> \o log \in Seq(0 .. MaxSteps) /\ Len(<<state>> \o log) = nhistory + 1
      BY <1>1, <2>1, SMTT(30)
    <2>3. \A j \in 1 .. nhistory : (<<state>> \o log)[j] = IF j = 1 THEN state ELSE log[j - 1]
      BY <1>1, <2>1
    <2>4. SubSeq(<<state>> \o log, 1, nhistory)
            = [j \in 1 .. nhistory |-> (<<state>> \o log)[j]]
      BY <1>1, <2>2
    <2> QED
      BY <2>3, <2>4 DEF AddToHistory
  <1>5. RingHoldsLog'
    <2> SUFFICES ASSUME NEW k \in 0 .. nhistory - 1
                 PROVE  log'[k + 1] = history'[RingIndex(history_cursor' - k)]
      BY DEF RingHoldsLog, RingIndex
    <2>1. RingIndex(history_cursor' - k)
            = IF history_cursor' - k < 0 THEN history_cursor' - k + nhistory
              ELSE history_cursor' - k
      BY <1>1, <1>2, RingWraps
    <2>2. CASE k = 0
      BY <1>1, <1>2, <1>3, <1>4, <2>1, <2>2
    <2>3. CASE k # 0
      <3>1. log'[k + 1] = log[k] /\ log[k] = history[RingIndex(history_cursor - (k - 1))]
        <4>1. k - 1 \in 0 .. nhistory - 1 /\ (k - 1) + 1 = k
          BY <1>1, <2>3
        <4>2. log[(k - 1) + 1] = history[RingIndex(history_cursor - (k - 1))]
          BY <4>1 DEF RingHoldsLog
        <4>3. log'[k + 1] = log[k]
          BY <1>1, <1>4, <2>3
        <4> QED
          BY <4>1, <4>2, <4>3
      <3>2. RingIndex(history_cursor - (k - 1))
              = IF history_cursor - (k - 1) < 0 THEN history_cursor - (k - 1) + nhistory
                ELSE history_cursor - (k - 1)
        BY <1>1, <2>3, RingWraps
      <3>3. RingIndex(history_cursor' - k) = RingIndex(history_cursor - (k - 1))
        <4>1. CASE history_cursor = nhistory - 1
          <5>1. history_cursor' = 0
            BY <1>2, <4>1
          <5> QED
            BY <1>1, <2>1, <2>3, <3>2, <4>1, <5>1
        <4>2. CASE history_cursor # nhistory - 1
          <5>1. history_cursor' = history_cursor + 1
            BY <1>2, <4>2
          <5> QED
            BY <1>1, <2>1, <2>3, <3>2, <5>1
        <4> QED
          BY <4>1, <4>2
      <3>4. /\ RingIndex(history_cursor' - k) # history_cursor'
            /\ RingIndex(history_cursor' - k) \in 0 .. nhistory - 1
        BY <1>1, <1>2, <2>1, <2>3, SMTT(30)
      <3> QED
        BY <1>1, <1>3, <3>1, <3>3, <3>4
    <2> QED
      BY <2>2, <2>3
  <1> QED
    BY <1>1, <1>2, <1>3, <1>4, <1>5, SMTT(30)

LEMMA HistoryInitially == HistoryInit => HistoryInv
  <1> SUFFICES ASSUME HistoryInit PROVE HistoryInv
    OBVIOUS
  <1> USE HistoryAssumption DEF HistoryInit
  <1>1. RingTyped
    BY DEF RingTyped, KeyState, PosedState
  <1>2. RingHoldsLog
    <2> SUFFICES ASSUME NEW k \in 0 .. nhistory - 1
                 PROVE  log[k + 1] = history[RingIndex(history_cursor - k)]
      BY DEF RingHoldsLog
    <2>1. RingIndex(0 - k) \in 0 .. nhistory - 1
      BY RingWraps
    <2> QED
      BY <2>1
  <1>3. ScrubPending
    BY DEF ScrubPending
  <1> QED
    BY <1>1, <1>2, <1>3 DEF HistoryInv

(* Steps that leave the ring alone.                                        *)
LEMMA RingKept ==
  ASSUME RingHoldsLog, UNCHANGED ring
  PROVE  RingHoldsLog'
  BY DEF RingHoldsLog, ring, RingIndex

LEMMA HistoryStep == HistoryInv /\ [HistoryNext]_historyVars => HistoryInv'
  <1> SUFFICES ASSUME HistoryInv, [HistoryNext]_historyVars PROVE HistoryInv'
    OBVIOUS
  <1>n. nhistory \in Nat \ {0} /\ MaxSteps \in Nat
    BY HistoryAssumption
  <1>i. RingTyped /\ RingHoldsLog /\ ScrubPending
    BY DEF HistoryInv
  <1> USE DEF KeyState, PosedState
  <1>1. CASE HistoryPhysicsStep
    <2>1. data' \in 0 .. MaxSteps /\ steps' \in 0 .. MaxSteps
      BY <1>n, <1>i, <1>1 DEF HistoryPhysicsStep, Stepped, RingTyped
    <2>2. RingTyped' /\ RingHoldsLog'
      <3>1. CASE AddToHistory(data')
        <4>1. /\ RingHoldsLog'
              /\ history_cursor' \in 0 .. nhistory - 1
              /\ history' \in [0 .. nhistory - 1 -> 0 .. MaxSteps]
              /\ log' \in [1 .. nhistory -> 0 .. MaxSteps]
          BY <1>i, <2>1, <3>1, AddKeepsLog
        <4>2. scrub_index' = scrub_index /\ pending' = pending
          BY <1>1 DEF HistoryPhysicsStep
        <4>3. scrub_index' \in 1 - nhistory .. 0 /\ data' \in 0 .. MaxSteps + 2
          BY <1>n, <1>i, <2>1, <4>2 DEF RingTyped
        <4>4. pending' \in SUBSET {"joint_sliders", "reset", "load_from_history", "load_key"}
          BY <1>i, <4>2 DEF RingTyped
        <4> QED
          BY <2>1, <4>1, <4>3, <4>4 DEF RingTyped
      <3>2. CASE UNCHANGED ring
        BY <1>n, <1>i, <1>1, <2>1, <3>2, RingKept DEF HistoryPhysicsStep, RingTyped, ring
      <3> QED
        BY <1>1, <3>1, <3>2 DEF HistoryPhysicsStep
    <2>3. ScrubPending'
      BY <1>i, <1>1 DEF HistoryPhysicsStep, ScrubPending
    <2> QED
      BY <2>2, <2>3 DEF HistoryInv
  <1>2. CASE HistoryLoad
    <2>1. RingTyped'
      BY <1>n, <1>i, <1>2 DEF HistoryLoad, RingTyped
    <2>2. RingHoldsLog'
      <3> SUFFICES ASSUME NEW k \in 0 .. nhistory - 1
                   PROVE  log'[k + 1] = history'[RingIndex(history_cursor' - k)]
        BY DEF RingHoldsLog, RingIndex
      <3>1. RingIndex(0 - k) \in 0 .. nhistory - 1
        BY <1>n, RingWraps
      <3> QED
        BY <1>n, <1>i, <1>2, <3>1 DEF HistoryLoad, RingTyped
    <2>3. ScrubPending'
      BY <1>i, <1>2 DEF HistoryLoad, ScrubPending
    <2> QED
      BY <2>1, <2>2, <2>3 DEF HistoryInv
  <1>3. CASE ResetKey
    <2>1. RingTyped' /\ RingHoldsLog'
      BY <1>n, <1>i, <1>3, RingKept DEF ResetKey, RingTyped, ring
    <2>2. ScrubPending'
      BY <1>i, <1>3 DEF ResetKey, ScrubPending
    <2> QED
      BY <2>1, <2>2 DEF HistoryInv
  <1>4. CASE EnterKey
    <2>1. RingTyped' /\ RingHoldsLog'
      BY <1>n, <1>i, <1>4, RingKept DEF EnterKey, RingTyped, ring
    <2>2. ScrubPending'
      <3>1. /\ pending = {} /\ pending' = {}
            /\ scrub_index' = scrub_index /\ data' = data /\ log' = log
        BY <1>i, <1>4 DEF EnterKey, ScrubPending, ring
      <3>2. moved' <=> moved \/ run'
        BY <1>4 DEF EnterKey
      <3>3. scrub_index < 0 => moved \/ data = log[1 - scrub_index]
        BY <1>i, <3>1 DEF ScrubPending
      <3> QED
        BY <3>1, <3>2, <3>3 DEF ScrubPending
    <2> QED
      BY <2>1, <2>2 DEF HistoryInv
  <1>5. CASE PollEvents
    <2>1. RingTyped' /\ RingHoldsLog'
      BY <1>n, <1>i, <1>5, RingKept DEF PollEvents, RingTyped, ring
    <2>2. ScrubPending'
      BY <1>i, <1>5 DEF PollEvents, ScrubPending, ring
    <2> QED
      BY <2>1, <2>2 DEF HistoryInv
  <1>6. CASE SpaceKey
    <2>1. RingTyped' /\ RingHoldsLog'
      BY <1>n, <1>i, <1>6, RingKept DEF SpaceKey, RingTyped, ring
    <2>2. ScrubPending'
      BY <1>n, <1>i, <1>6 DEF SpaceKey, ScrubPending, ring
    <2> QED
      BY <2>1, <2>2 DEF HistoryInv
  <1>7. CASE RightKey
    <2>1. CASE scrub_index < 0
      <3>1. UNCHANGED ring
        BY <1>7, <2>1 DEF RightKey
      <3>2. RingTyped'
        <4>1. scrub_index' \in 1 - nhistory .. 0
          BY <1>n, <1>i, <1>7, <2>1 DEF RightKey, RingTyped
        <4>2. pending' \in SUBSET {"joint_sliders", "reset", "load_from_history", "load_key"}
          BY <1>i, <1>7, <2>1 DEF RightKey, RingTyped
        <4> QED
          BY <1>i, <1>7, <2>1, <3>1, <4>1, <4>2 DEF RightKey, RingTyped, ring
      <3>3. ScrubPending'
        BY <1>i, <1>7, <2>1 DEF RightKey, ScrubPending
      <3> QED
        BY <1>i, <3>1, <3>2, <3>3, RingKept DEF HistoryInv
    <2>2. CASE ~(scrub_index < 0)
      <3>1. AddToHistory(data') /\ data' \in 0 .. MaxSteps /\ steps' \in 0 .. MaxSteps
        BY <1>n, <1>i, <1>7, <2>2 DEF RightKey, RingTyped, Stepped
      <3>2. RingTyped' /\ RingHoldsLog'
        <4>1. UNCHANGED <<scrub_index, pending>>
          BY <1>7, <2>2 DEF RightKey
        <4>2. /\ RingHoldsLog'
              /\ history_cursor' \in 0 .. nhistory - 1
              /\ history' \in [0 .. nhistory - 1 -> 0 .. MaxSteps]
              /\ log' \in [1 .. nhistory -> 0 .. MaxSteps]
          BY <1>i, <3>1, AddKeepsLog
        <4>3. data' \in 0 .. MaxSteps + 2
          BY <1>n, <3>1
        <4> QED
          BY <1>i, <3>1, <4>1, <4>2, <4>3 DEF RingTyped
      <3>3. ScrubPending'
        BY <1>i, <1>7, <2>2 DEF RightKey, ScrubPending
      <3> QED
        BY <3>2, <3>3 DEF HistoryInv
    <2> QED
      BY <2>1, <2>2
  <1>8. CASE LeftKey \/ HistorySlider
    <2>1. PICK index \in 1 - nhistory .. 0 : Scrub(index)
      BY <1>n, <1>i, <1>8 DEF LeftKey, HistorySlider, RingTyped
    <2>2. RingTyped' /\ RingHoldsLog'
      BY <1>n, <1>i, <2>1, RingKept DEF Scrub, RingTyped, ring
    <2>3. ScrubPending'
      BY <1>i, <2>1 DEF Scrub, ScrubPending
    <2> QED
      BY <2>2, <2>3 DEF HistoryInv
  <1>9. CASE SimulationButton \/ JointSlider
    <2>0. PICK work \in {"joint_sliders", "reset", "load_key"} : Asks(work)
      BY <1>9 DEF SimulationButton, JointSlider
    <2>1. RingTyped' /\ RingHoldsLog'
      BY <1>n, <1>i, <2>0, RingKept DEF Asks, RingTyped, ring
    <2>2. ScrubPending'
      BY <1>i, <2>0 DEF Asks, ScrubPending, ring
    <2> QED
      BY <2>1, <2>2 DEF HistoryInv
  <1>10. ASSUME NEW dragged \in BOOLEAN, Sync(dragged) PROVE HistoryInv'
    <2> DEFINE scrubbed == history[RingIndex(scrub_index + history_cursor)]
    <2>1. scrubbed = log[1 - scrub_index] /\ scrubbed \in 0 .. MaxSteps
      <3>1. -scrub_index \in 0 .. nhistory - 1
        BY <1>n, <1>i DEF RingTyped
      <3>2. log[-scrub_index + 1] = history[RingIndex(history_cursor - (-scrub_index))]
        BY <1>i, <3>1 DEF RingHoldsLog
      <3>3. /\ -scrub_index + 1 = 1 - scrub_index
            /\ history_cursor - (-scrub_index) = scrub_index + history_cursor
        BY <1>n, <1>i DEF RingTyped
      <3>4. 1 - scrub_index \in 1 .. nhistory
        BY <1>n, <1>i DEF RingTyped
      <3> QED
        BY <1>i, <3>2, <3>3, <3>4 DEF RingTyped
    <2>2. RingTyped' /\ RingHoldsLog'
      <3>1. UNCHANGED <<steps, ring>> /\ pending' = {} /\ scrub_index' \in {0, scrub_index}
        BY <1>10 DEF Sync
      <3>2. scrub_index' \in 1 - nhistory .. 0
        BY <1>n, <1>i, <3>1 DEF RingTyped
      <3>3. data' \in 0 .. MaxSteps + 2
        <4>1. history[RingIndex(0 + history_cursor)] \in 0 .. MaxSteps
          <5>1. RingIndex(0 + history_cursor) \in 0 .. nhistory - 1
            BY <1>n, <1>i, RingWraps DEF RingTyped
          <5> QED
            BY <1>i, <5>1 DEF RingTyped
        <4>2. data' \in {MaxSteps + 1, MaxSteps + 2, scrubbed,
                         history[RingIndex(0 + history_cursor)], 0, data}
          BY <1>10 DEF Sync
        <4> QED
          <5>1. scrubbed \in 0 .. MaxSteps /\ data \in 0 .. MaxSteps + 2
            BY <1>n, <1>i, <2>1 DEF RingTyped
          <5> HIDE DEF scrubbed
          <5> QED
            BY <1>n, <4>1, <4>2, <5>1
      <3> QED
        BY <1>i, <3>1, <3>2, <3>3, RingKept DEF RingTyped, ring
    <2>3. ScrubPending'
      <3>1. UNCHANGED <<run, log>> /\ pending' = {}
        BY <1>10 DEF Sync, ring
      <3>2. CASE "reset" \in pending
        <4>1. scrub_index' = 0
          BY <1>10, <3>2 DEF Sync
        <4> QED
          BY <3>1, <4>1 DEF ScrubPending
      <3>3. CASE "reset" \notin pending
        <4>1. scrub_index' = scrub_index
          BY <1>10, <3>3 DEF Sync
        <4>2. CASE moved'
          BY <3>1, <4>1, <4>2 DEF ScrubPending
        <4>3. CASE ~moved'
          <5>1. ~(dragged /\ ~run) /\ "load_key" \notin pending
            BY <1>10, <4>3 DEF Sync
          <5>2. CASE "load_from_history" \in pending
            <6>1. data' = scrubbed
              BY <1>10, <3>3, <5>1, <5>2 DEF Sync
            <6>2. run => ~moved
              BY <1>10, <3>3, <4>3 DEF Sync
            <6> QED
              BY <1>i, <2>1, <3>1, <4>1, <6>1, <6>2 DEF ScrubPending
          <5>3. CASE "load_from_history" \notin pending
            <6>1. ~moved /\ "joint_sliders" \notin pending
              BY <1>10, <3>3, <4>3, <5>3 DEF Sync
            <6>2. data' = data
              BY <1>10, <3>3, <5>1, <5>3, <6>1 DEF Sync
            <6> QED
              BY <1>i, <3>1, <4>1, <5>3, <6>1, <6>2 DEF ScrubPending
          <5> QED
            BY <5>2, <5>3
        <4> QED
          BY <4>2, <4>3
      <3> QED
        BY <3>2, <3>3
    <2> QED
      BY <2>2, <2>3 DEF HistoryInv
  <1>12. CASE RunRadio
    <2>1. RingTyped' /\ RingHoldsLog'
      BY <1>n, <1>i, <1>12, RingKept DEF RunRadio, RingTyped, ring
    <2>2. ScrubPending'
      <3>1. /\ polling' /\ pending' = pending
            /\ scrub_index' = scrub_index /\ data' = data /\ log' = log
        BY <1>12 DEF RunRadio, ring
      <3>2. (run' <=> ~run) /\ (moved' <=> moved \/ run')
        BY <1>12 DEF RunRadio
      <3>3. run /\ scrub_index < 0 => moved
        BY <1>i DEF ScrubPending
      <3> QED
        BY <3>1, <3>2, <3>3 DEF ScrubPending
    <2> QED
      BY <2>1, <2>2 DEF HistoryInv
  <1>11. CASE UNCHANGED historyVars
    <2>1. RingTyped' /\ RingHoldsLog'
      BY <1>n, <1>i, <1>11, RingKept DEF historyVars, RingTyped, ring
    <2>2. ScrubPending'
      BY <1>i, <1>11 DEF historyVars, ScrubPending, ring
    <2> QED
      BY <2>1, <2>2 DEF HistoryInv
  <1> QED
    BY <1>1, <1>2, <1>3, <1>4, <1>5, <1>6, <1>7, <1>8, <1>9, <1>10, <1>11, <1>12
       DEF HistoryNext

(* The flags, apart from the numbers.                                      *)
FlagsInv == FlagsTyped /\ PolicyRunsWithPhysics

LEMMA NextFlagsInv == FlagsInv /\ [HistoryNext]_historyVars => FlagsInv'
  <1> USE DEF FlagsInv, FlagsTyped, PolicyRunsWithPhysics
  <1>1. FlagsInv /\ (HistoryPhysicsStep \/ HistoryLoad \/ ResetKey \/ EnterKey) => FlagsInv'
    BY Zenon DEF HistoryPhysicsStep, HistoryLoad, ResetKey, EnterKey
  <1>2. FlagsInv /\ (PollEvents \/ SpaceKey \/ RunRadio \/ RightKey) => FlagsInv'
    BY Zenon DEF PollEvents, SpaceKey, RunRadio, RightKey
  <1>5. FlagsInv /\ (SimulationButton \/ JointSlider) => FlagsInv'
    BY Zenon DEF SimulationButton, JointSlider, Asks
  <1>6. ASSUME FlagsInv, NEW dragged \in BOOLEAN, Sync(dragged) PROVE FlagsInv'
    BY <1>6, Zenon DEF Sync
  <1>3. FlagsInv /\ (LeftKey \/ HistorySlider) => FlagsInv'
    BY Zenon DEF LeftKey, HistorySlider, Scrub
  <1>4. FlagsInv /\ UNCHANGED historyVars => FlagsInv'
    <2>1. UNCHANGED historyVars
            => UNCHANGED <<run, simulation_running, polling, moved, touched>>
      BY DEF historyVars
    <2> QED
      BY <2>1, Zenon
  <1> QED
    BY <1>1, <1>2, <1>3, <1>4, <1>5, <1>6 DEF HistoryNext

(* AddToHistory, LoadScrubState, the arrow keys, the history slider and    *)
(* every button of the viewer that moves the data or the run flag, against *)
(* Enter and R of RL_Sim: the scrubber shows the state it says, through    *)
(* every wrap of a ring of any length, until the data is moved under it;   *)
(* and physics and policy run and pause together from one Enter to the     *)
(* next, until the viewer or a divergence switches run alone.              *)
THEOREM ViewerHistoryIsSafe == HistorySpec => []ViewerHistorySafe
  <1>1. HistorySpec => []HistoryInv
    BY HistoryInitially, HistoryStep, PTL DEF HistorySpec
  <1>2. HistoryInit => FlagsInv
    BY Zenon DEF HistoryInit, FlagsInv, FlagsTyped, PolicyRunsWithPhysics
  <1>3. HistorySpec => []FlagsInv
    BY <1>2, NextFlagsInv, PTL DEF HistorySpec
  <1>4. HistoryInv => ScrubShowsHistory
    BY DEF HistoryInv, ScrubPending, ScrubShowsHistory
  <1>5. HistoryInv /\ FlagsInv => ViewerHistorySafe
    BY <1>4, Zenon DEF HistoryInv, FlagsInv, ViewerHistorySafe, HistoryTypeOK
  <1> QED
    BY <1>1, <1>3, <1>5, PTL
-----------------------------------------------------------------------------
(***** The keys and the mouse ********************************************)

(* A perturbation is asked for by a drag, and is pending only until Sync.  *)
AskedWhileDragging ==
  /\ newperturb /\ ~broken => dragrect = 3 /\ down # {}
  /\ frame = "free" => ~newperturb

InputInv == ViewerInputSafe /\ AskedWhileDragging
-----------------------------------------------------------------------------
LEMMA InputInitially == InputInit => InputInv
  <1> SUFFICES ASSUME InputInit PROVE InputInv
    OBVIOUS
  <1> USE InputAssumption DEF InputAssumption, InputInit
  <1>1. {active, newperturb, kept, broken} \subseteq BOOLEAN
    BY Zenon
  <1>2. cam.type = "free" /\ cam.id = 0
    BY DEF Free
  <1>3. InputTypeOK
    BY <1>1, <1>2 DEF InputTypeOK
  <1>4. MenuShowsCamera /\ CameraExists
    BY <1>2 DEF MenuShowsCamera, CameraExists, CameraIndex
  <1>5. ForceOnlyWhileDragging /\ AskedWhileDragging
    BY DEF ForceOnlyWhileDragging, AskedWhileDragging
  <1> QED
    BY <1>3, <1>4, <1>5 DEF InputInv, ViewerInputSafe

(* What the mouse and the camera's part of the invariant depend on.        *)
MouseInv == ForceOnlyWhileDragging /\ AskedWhileDragging
ViewInv == /\ cam.type \in {"free", "tracking", "fixed"} /\ cam.id \in Nat
           /\ camera \in Nat /\ ncam \in CameraCounts
           /\ MenuShowsCamera /\ CameraExists
PertTyped == /\ down \in SUBSET MouseButtons /\ dragrect \in {0, 1, 3}
             /\ select \in Bodies \cup {0}
             /\ {active, newperturb, kept, broken} \subseteq BOOLEAN
             /\ chosen \in {"none", "body", "look", "track"}

LEMMA InputInvParts ==
  /\ InputInv <=> MouseInv /\ ViewInv /\ PertTyped /\ frame \in {"free", "events"}
  /\ InputInv' <=> MouseInv' /\ ViewInv' /\ PertTyped' /\ frame' \in {"free", "events"}
  BY DEF InputInv, ViewerInputSafe, InputTypeOK, MouseInv, ViewInv, PertTyped

LEMMA MouseStep ==
  ASSUME InputInv,
         \/ \E button \in MouseButtons :
              \/ \E rect \in {0, 1, 3}, ctrl, alt, double \in BOOLEAN :
                   Press(button, rect, ctrl, alt, double)
              \/ Release(button)
         \/ WindowResize \/ SpaceStopsForce \/ PageUp
  PROVE  InputInv'
  <1>1. MouseInv /\ ViewInv /\ PertTyped /\ frame = "events" /\ frame' = frame
    BY InputInvParts DEF Press, Release, WindowResize, SpaceStopsForce, PageUp
  <1>2. ViewInv'
    BY <1>1 DEF ViewInv, MenuShowsCamera, CameraExists, CameraIndex, Press, Release,
                WindowResize, SpaceStopsForce, PageUp, view
  <1>3. MouseInv' /\ PertTyped'
    <2>1. ASSUME NEW button \in MouseButtons, NEW rect \in {0, 1, 3},
                 NEW ctrl \in BOOLEAN, NEW alt \in BOOLEAN, NEW double \in BOOLEAN,
                 Press(button, rect, ctrl, alt, double)
          PROVE  MouseInv' /\ PertTyped'
      <3> USE <1>1, <2>1 DEF Press, view
      <3>1. down' # {} /\ down' \in SUBSET MouseButtons /\ dragrect' \in {0, 1, 3}
        BY DEF PertTyped
      <3>2. {active', newperturb', kept', broken'} \subseteq BOOLEAN
        <4>1. newperturb' \in BOOLEAN
          OBVIOUS
        <4>2. broken' \in BOOLEAN
          OBVIOUS
        <4>3. active' \in BOOLEAN /\ kept' \in BOOLEAN
          BY DEF PertTyped
        <4> QED
          BY <4>1, <4>2, <4>3
      <3>3. chosen' \in {"none", "body", "look", "track"} /\ select' \in Bodies \cup {0}
        BY DEF PertTyped
      <3>4. MouseInv'
        <4>1. ASSUME newperturb', ~broken' PROVE dragrect' = 3
          <5>1. CASE rect = 3
            BY <5>1
          <5>2. CASE rect # 3
            BY <4>1, <5>2 DEF MouseInv, AskedWhileDragging
          <5> QED
            BY <5>1, <5>2
        <4>2. ASSUME active', ~broken' PROVE dragrect' = 3
          <5>1. active /\ ~broken /\ (dragrect = 3 => dragrect' = 3)
            BY <4>2
          <5> QED
            BY <5>1 DEF MouseInv, ForceOnlyWhileDragging
        <4> QED
          BY <3>1, <4>1, <4>2 DEF MouseInv, ForceOnlyWhileDragging, AskedWhileDragging
      <3> QED
        BY <3>1, <3>2, <3>3, <3>4 DEF PertTyped
    <2>2. ASSUME NEW button \in MouseButtons, Release(button)
          PROVE  MouseInv' /\ PertTyped'
      <3>1. MouseInv'
        BY <1>1, <2>2 DEF Release, MouseInv, ForceOnlyWhileDragging, AskedWhileDragging, view
      <3>2. PertTyped'
        BY <1>1, <2>2 DEF Release, PertTyped, view
      <3> QED
        BY <3>1, <3>2
    <2>3. CASE WindowResize
      <3>1. MouseInv'
        BY <1>1, <2>3 DEF WindowResize, MouseInv, ForceOnlyWhileDragging, AskedWhileDragging
      <3>2. broken' \in BOOLEAN
        BY <2>3 DEF WindowResize
      <3>3. PertTyped'
        BY <1>1, <2>3, <3>2 DEF WindowResize, PertTyped, view
      <3> QED
        BY <3>1, <3>3
    <2>4. CASE PageUp
      <3>1. MouseInv'
        BY <1>1, <2>4 DEF PageUp, MouseInv, ForceOnlyWhileDragging, AskedWhileDragging, mouse
      <3>2. active' \in BOOLEAN /\ select' \in Bodies \cup {0}
        BY <2>4 DEF PageUp
      <3>3. PertTyped'
        BY <1>1, <2>4, <3>2 DEF PageUp, PertTyped, mouse, view
      <3> QED
        BY <3>1, <3>3
    <2>5. CASE SpaceStopsForce
      <3>1. MouseInv'
        BY <1>1, <2>5
        DEF SpaceStopsForce, MouseInv, ForceOnlyWhileDragging, AskedWhileDragging, mouse
      <3>2. active' \in BOOLEAN /\ broken' \in BOOLEAN
        BY <2>5 DEF SpaceStopsForce
      <3>3. PertTyped'
        BY <1>1, <2>5, <3>2 DEF SpaceStopsForce, PertTyped, mouse, view
      <3> QED
        BY <3>1, <3>3
    <2> QED
      BY <2>1, <2>2, <2>3, <2>4, <2>5
  <1> QED
    BY <1>1, <1>2, <1>3, InputInvParts

LEMMA CameraStep ==
  ASSUME InputInv,
         CycleUp \/ CycleDown \/ EscapeKey \/ \E index \in 0 .. ncam + 1 : CameraMenu(index)
  PROVE  InputInv'
  <1>1. MouseInv /\ ViewInv /\ PertTyped /\ frame = "events" /\ frame' = frame
    BY InputInvParts DEF CycleUp, CycleDown, EscapeKey, CameraMenu
  <1>2. UNCHANGED <<mouse, ncam, kept, pert>>
    BY DEF CycleUp, CycleDown, EscapeKey, CameraMenu
  <1>3. MouseInv' /\ PertTyped'
    BY <1>1, <1>2 DEF MouseInv, ForceOnlyWhileDragging, AskedWhileDragging, PertTyped, mouse, pert
  <1>4. ncam \in Nat /\ camera \in Nat
    BY <1>1, InputAssumption DEF InputAssumption, ViewInv
  <1>5. ASSUME NEW index \in Nat, index >= 2, UseFixed(index), kept \/ index - 2 < ncam
        PROVE  ViewInv'
    <2>1. cam'.type = "fixed" /\ cam'.id = index - 2 /\ camera' = index
      BY <1>5 DEF UseFixed, Fixed
    <2>2. cam'.id \in Nat /\ CameraIndex(cam') = index
      BY <1>5, <2>1 DEF CameraIndex
    <2> QED
      BY <1>1, <1>2, <1>5, <2>1, <2>2 DEF ViewInv, MenuShowsCamera, CameraExists
  <1>6. ASSUME cam' = Free, camera' = 0
        PROVE  ViewInv'
    <2>1. cam'.type = "free" /\ cam'.id = 0 /\ CameraIndex(cam') = 0
      BY <1>6 DEF Free, CameraIndex
    <2> QED
      BY <1>1, <1>2, <1>6, <2>1 DEF ViewInv, MenuShowsCamera, CameraExists
  <1>7. /\ camera >= 2 => camera = 2 + cam.id /\ cam.type = "fixed" /\ cam.id \in Nat
        /\ camera >= 2 /\ ~kept => cam.id < ncam
    BY <1>1 DEF ViewInv, MenuShowsCamera, CameraExists, CameraIndex
  <1>8. ASSUME CycleUp PROVE ViewInv'
    <2> DEFINE index == IF camera < 2 \/ camera = 2 + ncam - 1 THEN 2 ELSE camera + 1
    <2>1. ncam > 0 /\ UseFixed(index)
      BY <1>8 DEF CycleUp
    <2>2. index \in Nat /\ index >= 2
      BY <1>4
    <2>3. kept \/ index - 2 < ncam
      BY <1>4, <1>7, <2>1
    <2> HIDE DEF index
    <2>4. PICK i \in Nat : i = index
      BY <2>2
    <2>5. i >= 2 /\ UseFixed(i) /\ (kept \/ i - 2 < ncam)
      BY <2>1, <2>2, <2>3, <2>4
    <2> QED
      BY <1>5, <2>5
  <1>9. ASSUME CycleDown PROVE ViewInv'
    <2> DEFINE index == IF camera <= 2 THEN 2 + ncam - 1 ELSE camera - 1
    <2>1. ncam > 0 /\ UseFixed(index)
      BY <1>9 DEF CycleDown
    <2>2. index \in Nat /\ index >= 2
      BY <1>4, <2>1
    <2>3. kept \/ index - 2 < ncam
      BY <1>4, <1>7, <2>1
    <2> HIDE DEF index
    <2>4. PICK i \in Nat : i = index
      BY <2>2
    <2>5. i >= 2 /\ UseFixed(i) /\ (kept \/ i - 2 < ncam)
      BY <2>1, <2>2, <2>3, <2>4
    <2> QED
      BY <1>5, <2>5
  <1>10. ASSUME EscapeKey PROVE ViewInv'
    <2>1. cam' = Free /\ camera' = 0
      BY <1>10 DEF EscapeKey
    <2> QED
      BY <1>6, <2>1
  <1>11. ASSUME NEW index \in 0 .. ncam + 1, CameraMenu(index)
         PROVE  ViewInv'
    <2>1. CASE index = 0
      BY <1>6, <1>11, <2>1 DEF CameraMenu
    <2>2. CASE index = 1 /\ ~(select > 0)
      BY <1>6, <1>11, <2>2 DEF CameraMenu
    <2>3. CASE index = 1 /\ select > 0
      <3>1. cam' = Track(select) /\ camera' = 1
        BY <1>11, <2>3 DEF CameraMenu
      <3>2. select \in Nat
        BY <1>1, InputAssumption DEF InputAssumption, PertTyped
      <3>3. cam'.type = "tracking" /\ cam'.id = select /\ CameraIndex(cam') = 1
        BY <3>1 DEF Track, CameraIndex
      <3> QED
        BY <1>1, <1>2, <3>1, <3>2, <3>3 DEF ViewInv, MenuShowsCamera, CameraExists
    <2>4. CASE index \notin {0, 1}
      <3>1. UseFixed(index)
        BY <1>11, <2>4 DEF CameraMenu
      <3>2. index \in Nat /\ index >= 2 /\ index - 2 < ncam
        BY <1>4, <2>4
      <3> QED
        BY <1>5, <3>1, <3>2
    <2> QED
      BY <2>1, <2>2, <2>3, <2>4
  <1>12. ViewInv'
    BY <1>8, <1>9, <1>10, <1>11
  <1> QED
    BY <1>1, <1>3, <1>12, InputInvParts

LEMMA LoadCamerasStep ==
  ASSUME InputInv, NEW count \in CameraCounts, NEW sameFile \in BOOLEAN,
         LoadCameras(count, sameFile)
  PROVE  InputInv'
  <1> USE DEF LoadCameras, UpdateSettings
  <1>1. MouseInv /\ ViewInv /\ PertTyped /\ frame = "free" /\ frame' = frame
    BY InputInvParts
  <1>2. count \in Nat /\ ncam \in Nat
    BY <1>1, InputAssumption DEF InputAssumption, ViewInv
  <1>3. cam'.type \in {"free", "tracking", "fixed"} /\ cam'.id \in Nat
    BY <1>1 DEF ViewInv, Free
  <1>4. CameraIndex(cam') \in Nat
    BY <1>3 DEF CameraIndex
  <1>5. CameraExists'
    <2> SUFFICES ASSUME cam'.type = "fixed", ~kept' PROVE cam'.id < count
      BY DEF CameraExists
    <2>1. sameFile /\ cam' = cam /\ ~kept /\ ~(count < ncam)
      BY DEF Free
    <2>2. cam.id < ncam /\ cam.id \in Nat
      BY <1>1, <2>1 DEF ViewInv, CameraExists
    <2> QED
      BY <1>2, <2>1, <2>2
  <1>6. ViewInv'
    BY <1>3, <1>4, <1>5 DEF ViewInv, MenuShowsCamera
  <1>7. MouseInv'
    BY <1>1 DEF MouseInv, ForceOnlyWhileDragging, AskedWhileDragging
  <1>8. PertTyped'
    <2>1. kept' \in BOOLEAN
      OBVIOUS
    <2> QED
      BY <1>1, <2>1 DEF PertTyped, mouse
  <1> QED
    BY <1>1, <1>6, <1>7, <1>8, InputInvParts

LEMMA FrameStep ==
  ASSUME InputInv, PollInput \/ SyncPerturb
  PROVE  InputInv'
  <1>1. MouseInv /\ ViewInv /\ PertTyped
    BY InputInvParts
  <1>2. CASE PollInput
    <2>1. MouseInv' /\ ViewInv' /\ PertTyped' /\ frame' = "events"
      BY <1>1, <1>2 DEF PollInput, mouse, view, pert, MouseInv, ForceOnlyWhileDragging,
         AskedWhileDragging, ViewInv, MenuShowsCamera, CameraExists, CameraIndex, PertTyped
    <2> QED
      BY <2>1, InputInvParts
  <1>3. CASE SyncPerturb
    <2>1. PICK body \in Bodies \cup {0} : Chosen(body)
      BY <1>3 DEF SyncPerturb
    <2>2. body \in Nat
      BY InputAssumption DEF InputAssumption
    <2>3. select' \in Bodies \cup {0} /\ (cam' = cam \/ cam' = Track(body))
      BY <1>1, <2>1 DEF Chosen, PertTyped
    <2>4. /\ cam'.type \in {"free", "tracking", "fixed"} /\ cam'.id \in Nat
          /\ cam'.type = "fixed" => cam' = cam
      BY <1>1, <2>2, <2>3 DEF ViewInv, Track
    <2>5. CameraIndex(cam') \in Nat
      BY <2>4 DEF CameraIndex
    <2>6. ViewInv'
      BY <1>1, <1>3, <2>4, <2>5 DEF ViewInv, MenuShowsCamera, CameraExists, SyncPerturb,
                                    UpdateSettings
    <2>7. MouseInv'
      BY <1>1, <1>3 DEF MouseInv, ForceOnlyWhileDragging, AskedWhileDragging, SyncPerturb, mouse
    <2>8. PertTyped'
      <3>1. active' \in BOOLEAN /\ newperturb' \in BOOLEAN
        BY <1>3 DEF SyncPerturb
      <3> QED
        BY <1>1, <1>3, <2>3, <3>1 DEF PertTyped, SyncPerturb, mouse
    <2>9. frame' = "free"
      BY <1>3 DEF SyncPerturb
    <2> QED
      BY <2>6, <2>7, <2>8, <2>9, InputInvParts
  <1> QED
    BY <1>2, <1>3

(* The viewer: the menu shows the camera in use, the camera exists, and a  *)
(* body is pushed only while a drag lasts, whatever the order of presses,  *)
(* releases, resizes, loads and frames.                                    *)
THEOREM ViewerInputIsSafe == InputSpec => []ViewerInputSafe
  <1>1. InputInv /\ [InputNext]_inputVars => InputInv'
    <2> SUFFICES ASSUME InputInv, [InputNext]_inputVars PROVE InputInv'
      OBVIOUS
    <2>1. CASE UNCHANGED inputVars
      BY <2>1 DEF inputVars, InputInv, ViewerInputSafe, InputTypeOK, MenuShowsCamera, CameraIndex,
                  CameraExists, ForceOnlyWhileDragging, AskedWhileDragging
    <2> QED
      BY <2>1, MouseStep, CameraStep, LoadCamerasStep, FrameStep DEF InputNext
  <1>2. InputInv => ViewerInputSafe
    BY DEF InputInv
  <1> QED
    BY <1>1, <1>2, InputInitially, PTL DEF InputSpec
-----------------------------------------------------------------------------
(***** The joystick ******************************************************)

(* FoldLeft takes the events from the left, one by one.                    *)
Folds(g, base, s, n) ==
  g = [S \in SUBSET (1..n) |-> IF S = {} THEN base ELSE UpdateState(g[S \ {Max(S)}], s[Max(S)])]

LEMMA FoldExists ==
  ASSUME NEW base, NEW s, NEW n \in Nat
  PROVE  \E g : Folds(g, base, s, n)
  <1> DEFINE T == {m \in Nat : \E g : Folds(g, base, s, m)}
  <1>1. 0 \in T
    <2> DEFINE g == [S \in SUBSET (1..0) |-> base]
    <2>1. SUBSET (1..0) = {{}}
      OBVIOUS
    <2>2. g = [S \in SUBSET (1..0) |-> IF S = {} THEN base ELSE UpdateState(g[S \ {Max(S)}], s[Max(S)])]
      BY <2>1
    <2> QED
      BY <2>2 DEF Folds
  <1>2. ASSUME NEW m \in Nat, m \in T
        PROVE  m + 1 \in T
    <2>1. PICK g : Folds(g, base, s, m)
      BY <1>2
    <2> DEFINE h == [S \in SUBSET (1..m + 1) |->
                      IF m + 1 \in S THEN UpdateState(g[S \ {m + 1}], s[m + 1]) ELSE g[S]]
    <2>2. ASSUME NEW S \in SUBSET (1..m + 1)
          PROVE  h[S] = IF S = {} THEN base ELSE UpdateState(h[S \ {Max(S)}], s[Max(S)])
      <3>1. CASE m + 1 \in S
        <4>1. Max(S) \in S /\ Max(S) >= m + 1
          <5>1. m + 1 \in Nat
            OBVIOUS
          <5> QED
            BY <3>1, <5>1, MaxOfIndices
        <4>2. Max(S) = m + 1
          <5>1. \A i \in 1..m + 1 : i >= m + 1 => i = m + 1
            OBVIOUS
          <5> QED
            BY <4>1, <5>1
        <4>3. S \ {m + 1} \in SUBSET (1..m + 1) /\ m + 1 \notin S \ {m + 1}
          OBVIOUS
        <4> QED
          BY <3>1, <4>2, <4>3
      <3>2. CASE m + 1 \notin S
        <4>1. S \in SUBSET (1..m)
          BY <3>2
        <4>2. h[S] = g[S]
          BY <3>2
        <4>3. CASE S = {}
          BY <2>1, <4>1, <4>2, <4>3 DEF Folds
        <4>4. CASE S # {}
          <5>1. S \ {Max(S)} \in SUBSET (1..m + 1) /\ m + 1 \notin S \ {Max(S)}
            BY <3>2
          <5>2. h[S \ {Max(S)}] = g[S \ {Max(S)}]
            BY <5>1
          <5>3. g[S] = UpdateState(g[S \ {Max(S)}], s[Max(S)])
            BY <2>1, <4>1, <4>4 DEF Folds
          <5> QED
            BY <4>2, <4>4, <5>2, <5>3
        <4> QED
          BY <4>3, <4>4
      <3> QED
        BY <3>1, <3>2
    <2>3. Folds(h, base, s, m + 1)
      BY <2>2 DEF Folds
    <2> QED
      BY <2>3
  <1> HIDE DEF T
  <1>3. n \in T
    BY <1>1, <1>2, InductionOnSet
  <1> QED
    BY <1>3 DEF T

LEMMA FoldAgrees ==
  ASSUME NEW base, NEW s, NEW t, NEW m \in Nat, NEW n \in Nat, m <= n,
         NEW g, NEW h, Folds(g, base, s, m), Folds(h, base, t, n),
         \A i \in 1..m : s[i] = t[i]
  PROVE  g[1..m] = h[1..m]
  <1> DEFINE T == {k \in Nat : k <= m => \A S \in SUBSET (1..k) : g[S] = h[S]}
  <1>1. 0 \in T
    <2>1. SUBSET (1..0) = {{}} /\ {} \in SUBSET (1..m) /\ {} \in SUBSET (1..n)
      OBVIOUS
    <2>2. g[{}] = base /\ h[{}] = base
      BY <2>1 DEF Folds
    <2> QED
      BY <2>1, <2>2
  <1>2. ASSUME NEW k \in Nat, k \in T
        PROVE  k + 1 \in T
    <2> SUFFICES \A S \in SUBSET (1..k + 1) : k + 1 <= m => g[S] = h[S]
      <3>1. k + 1 \in Nat
        OBVIOUS
      <3> QED
        BY <3>1
    <2> TAKE S \in SUBSET (1..k + 1)
    <2> HAVE k + 1 <= m
    <2>1. S \in SUBSET (1..m) /\ S \in SUBSET (1..n) /\ k <= m
      OBVIOUS
    <2>2. CASE S = {}
      BY <2>1, <2>2 DEF Folds
    <2>3. CASE S # {}
      <3>1. Max(S) \in S /\ \A i \in S : Max(S) >= i
        <4>1. k + 1 \in Nat
          OBVIOUS
        <4> QED
          BY <2>3, <4>1, MaxOfIndices
      <3>2. S \ {Max(S)} \in SUBSET (1..k)
        <4>1. ASSUME NEW i \in S \ {Max(S)}
              PROVE  i \in 1..k
          <5>1. i \in 1..k + 1 /\ Max(S) \in 1..k + 1 /\ Max(S) >= i /\ i # Max(S)
            BY <3>1
          <5> QED
            BY <5>1
        <4> QED
          BY <4>1
      <3>3. g[S \ {Max(S)}] = h[S \ {Max(S)}]
        BY <1>2, <2>1, <3>2
      <3>4. s[Max(S)] = t[Max(S)]
        BY <2>1, <3>1
      <3>5. g[S] = UpdateState(g[S \ {Max(S)}], s[Max(S)])
        BY <2>1, <2>3 DEF Folds
      <3>6. h[S] = UpdateState(h[S \ {Max(S)}], t[Max(S)])
        BY <2>1, <2>3 DEF Folds
      <3> QED
        BY <3>3, <3>4, <3>5, <3>6
    <2> QED
      BY <2>2, <2>3
  <1> HIDE DEF T
  <1>3. m \in T
    BY <1>1, <1>2, InductionOnSet
  <1> QED
    BY <1>3 DEF T

LEMMA FoldIsChosen ==
  ASSUME NEW base, NEW s, NEW n \in Nat, DOMAIN s = 1..n
  PROVE  \E g : Folds(g, base, s, n) /\ FoldLeft(UpdateState, base, s) = g[1..n]
  <1> DEFINE F == CHOOSE g : Folds(g, base, s, n)
  <1>1. Folds(F, base, s, n)
    BY FoldExists
  <1>2. FoldLeft(UpdateState, base, s) = F[1..n]
    BY DEF FoldLeft, MapThenFoldSet, Folds
  <1> QED
    BY <1>1, <1>2

LEMMA FoldOfNothing ==
  ASSUME NEW base
  PROVE  FoldLeft(UpdateState, base, <<>>) = base
  <1>1. DOMAIN <<>> = 1..0 /\ {} = 1..0
    OBVIOUS
  <1>2. PICK g : Folds(g, base, <<>>, 0) /\ FoldLeft(UpdateState, base, <<>>) = g[1..0]
    BY <1>1, FoldIsChosen
  <1>3. g[{}] = base
    BY <1>2 DEF Folds
  <1> QED
    BY <1>1, <1>2, <1>3

LEMMA FoldOfAppend ==
  ASSUME NEW E, NEW s \in Seq(E), NEW e \in E, NEW base
  PROVE  FoldLeft(UpdateState, base, Append(s, e)) = UpdateState(FoldLeft(UpdateState, base, s), e)
  <1> DEFINE n == Len(s)
             t == Append(s, e)
  <1>1. /\ n \in Nat /\ n + 1 \in Nat /\ DOMAIN s = 1..n /\ DOMAIN t = 1..n + 1
        /\ t[n + 1] = e /\ \A i \in 1..n : t[i] = s[i]
    OBVIOUS
  <1> HIDE DEF n, t
  <1>2. PICK g : Folds(g, base, s, n) /\ FoldLeft(UpdateState, base, s) = g[1..n]
    BY <1>1, FoldIsChosen
  <1>3. PICK h : Folds(h, base, t, n + 1) /\ FoldLeft(UpdateState, base, t) = h[1..n + 1]
    BY <1>1, FoldIsChosen
  <1>4. g[1..n] = h[1..n]
    <2>1. n <= n + 1 /\ \A i \in 1..n : s[i] = t[i]
      BY <1>1
    <2> QED
      BY <1>1, <1>2, <1>3, <2>1, FoldAgrees
  <1>5. Max(1..n + 1) \in 1..n + 1 /\ Max(1..n + 1) >= n + 1
    <2> DEFINE I == 1..n + 1
    <2>1. n + 1 \in I
      BY <1>1
    <2>2. \A S \in SUBSET I : S # {} => Max(S) \in S /\ \A k \in S : Max(S) >= k
      BY <1>1, MaxOfIndices
    <2> HIDE DEF I
    <2>3. I \in SUBSET I /\ I # {}
      BY <2>1
    <2>4. Max(I) \in I /\ Max(I) >= n + 1
      BY <2>1, <2>2, <2>3
    <2> QED
      BY <2>4 DEF I
  <1>6. Max(1..n + 1) = n + 1 /\ (1..n + 1) \ {n + 1} = 1..n /\ 1..n + 1 # {}
    BY <1>1, <1>5
  <1>7. h[1..n + 1] = UpdateState(h[(1..n + 1) \ {Max(1..n + 1)}], t[Max(1..n + 1)])
    BY <1>3, <1>6 DEF Folds
  <1>8. h[1..n + 1] = UpdateState(h[1..n], e)
    BY <1>1, <1>6, <1>7
  <1> QED
    BY <1>2, <1>3, <1>4, <1>8 DEF t
-----------------------------------------------------------------------------
(* The calls of a poll.                                                    *)
Polls == [pressed : SUBSET Buttons, on_press : SUBSET Buttons, dpad : BOOLEAN, axis : BOOLEAN]

EndsWith(x, button) == x # <<>> /\ Last(x) = button

LEMMA OneMoreCall ==
  ASSUME NEW x \in Seq(Pads \ {"None"}), NEW button \in Pads \ {"None"}, NEW condition \in BOOLEAN
  PROVE  /\ x \o Call(condition, button) \in Seq(Pads \ {"None"})
         /\ x \o Call(condition, button) = <<>> <=> x = <<>> /\ ~ condition
         /\ EndsWith(x \o Call(condition, button), "A") /\ button # "A"
              => ~ condition /\ EndsWith(x, "A")
  <1>1. CASE condition
    <2>1. Call(condition, button) = <<button>>
      BY <1>1 DEF Call
    <2>2. /\ x \o <<button>> \in Seq(Pads \ {"None"}) /\ Len(x \o <<button>>) = Len(x) + 1
          /\ x \o <<button>> # <<>> /\ (x \o <<button>>)[Len(x) + 1] = button
      OBVIOUS
    <2> QED
      BY <1>1, <2>1, <2>2 DEF EndsWith, Last
  <1>2. CASE ~ condition
    <2>1. x \o Call(condition, button) = x
      BY <1>2 DEF Call
    <2> QED
      BY <1>2, <2>1
  <1> QED
    BY <1>1, <1>2

(* Some call is made for every button pressed since the last poll, and A   *)
(* stays only if neither LB nor RB is held.                                *)
LEMMA CallsOfPoll ==
  ASSUME NEW s \in Polls
  PROVE  /\ Calls(s) \in Seq(Pads \ {"None"})
         /\ Calls(s) = <<>> => s.on_press = {}
         /\ EndsWith(Calls(s), "A") => s.pressed \cap {"LB", "RB"} = {}
  <1> DEFINE on(b) == b \in s.on_press
             holds(b) == b \in s.pressed
             c1 == Call(on("A"), "A")
             c2 == c1 \o Call(on("LB"), "LB")
             c3 == c2 \o Call(on("RB"), "RB")
             c4 == c3 \o Call(s.dpad, "DPad")
             c5 == c4 \o Call(holds("LB") /\ on("A"), "LB_A")
             c6 == c5 \o Call(holds("LB") /\ s.dpad, "LB_DPad")
             c7 == c6 \o Call(holds("RB") /\ on("A"), "RB_A")
             c8 == c7 \o Call(holds("RB") /\ s.dpad, "RB_DPad")
             c9 == c8 \o Call(holds("LB") /\ on("RB"), "LB_RB")
             Good(x) == x \in Seq(Pads \ {"None"})
  <1>1. Calls(s) = c9
    BY DEF Calls
  <1>2. s.dpad \in BOOLEAN /\ s.on_press \subseteq Buttons
    BY DEF Polls
  <1>a. /\ on("A") \in BOOLEAN /\ on("LB") \in BOOLEAN /\ on("RB") \in BOOLEAN
    OBVIOUS
  <1>3. \A button \in {"A", "LB", "RB", "DPad", "LB_A", "LB_DPad", "RB_A", "RB_DPad", "LB_RB"} :
          button \in Pads \ {"None"}
    BY DEF Pads
  <1> HIDE DEF on, holds
  <1>4. /\ Good(c1) /\ (c1 = <<>> <=> ~ on("A")) /\ (EndsWith(c1, "A") => on("A"))
    <2>1. CASE on("A")
      <3>1. c1 = <<"A">>
        BY <2>1 DEF Call
      <3> QED
        <4>1. "A" \in Pads \ {"None"}
          BY <1>3
        <4>2. \A E : \A p \in E : <<p>> \in Seq(E) /\ <<p>> # <<>>
          OBVIOUS
        <4>3. Good(c1) /\ c1 # <<>>
          BY <3>1, <4>1, <4>2
        <4> QED
          BY <2>1, <4>3
    <2>2. CASE ~ on("A")
      <3>1. c1 = <<>>
        BY <2>2 DEF Call
      <3>2. \A E : <<>> \in Seq(E)
        OBVIOUS
      <3> QED
        BY <2>2, <3>1, <3>2 DEF EndsWith
    <2> QED
      BY <2>1, <2>2
  <1> HIDE DEF c1
  <1>5. /\ Good(c2) /\ (c2 = <<>> <=> c1 = <<>> /\ ~ on("LB"))
    BY <1>a, <1>3, <1>4, OneMoreCall
  <1>6. EndsWith(c2, "A") => EndsWith(c1, "A")
    BY <1>a, <1>3, <1>4, OneMoreCall
  <1> HIDE DEF c2
  <1>7. /\ Good(c3) /\ (c3 = <<>> <=> c2 = <<>> /\ ~ on("RB"))
        /\ EndsWith(c3, "A") => EndsWith(c2, "A")
    BY <1>a, <1>3, <1>5, OneMoreCall
  <1> HIDE DEF c3
  <1>8. /\ Good(c4) /\ (c4 = <<>> => c3 = <<>>)
        /\ EndsWith(c4, "A") => EndsWith(c3, "A")
    BY <1>2, <1>3, <1>7, OneMoreCall
  <1> HIDE DEF c4
  <1>9. /\ Good(c5) /\ (c5 = <<>> => c4 = <<>>)
        /\ EndsWith(c5, "A") => EndsWith(c4, "A") /\ ~ (holds("LB") /\ on("A"))
    BY <1>3, <1>8, OneMoreCall
  <1> HIDE DEF c5
  <1>10. /\ Good(c6) /\ (c6 = <<>> => c5 = <<>>)
         /\ EndsWith(c6, "A") => EndsWith(c5, "A")
    BY <1>2, <1>3, <1>9, OneMoreCall
  <1> HIDE DEF c6
  <1>11. /\ Good(c7) /\ (c7 = <<>> => c6 = <<>>)
         /\ EndsWith(c7, "A") => EndsWith(c6, "A") /\ ~ (holds("RB") /\ on("A"))
    BY <1>3, <1>10, OneMoreCall
  <1> HIDE DEF c7
  <1>12. /\ Good(c8) /\ (c8 = <<>> => c7 = <<>>)
         /\ EndsWith(c8, "A") => EndsWith(c7, "A")
    BY <1>2, <1>3, <1>11, OneMoreCall
  <1> HIDE DEF c8
  <1>13. /\ Good(c9) /\ (c9 = <<>> => c8 = <<>>)
         /\ EndsWith(c9, "A") => EndsWith(c8, "A")
    BY <1>3, <1>12, OneMoreCall
  <1> HIDE DEF c9
  <1>14. c9 = <<>> => s.on_press = {}
    <2>1. c9 = <<>> => ~ on("A") /\ ~ on("LB") /\ ~ on("RB")
      BY <1>4, <1>5, <1>7, <1>8, <1>9, <1>10, <1>11, <1>12, <1>13
    <2> QED
      BY <1>2, <2>1 DEF Buttons, on
  <1>15. EndsWith(c9, "A") => ~ holds("LB") /\ ~ holds("RB")
    BY <1>4, <1>6, <1>7, <1>8, <1>9, <1>10, <1>11, <1>12, <1>13
  <1> QED
    BY <1>1, <1>13, <1>14, <1>15 DEF holds
-----------------------------------------------------------------------------
(* What a poll would find if it came now: the buttons the operator holds,  *)
(* among which every one pressed since the last poll and never let go.     *)
EventQueue == Seq([of : Buttons \cup {"dpad", "axis"}, value : BOOLEAN])

PollFindsHeld ==
  /\ Drained \in Polls
  /\ Drained.pressed = held /\ Drained.on_press \subseteq held
  /\ held \ pressed \subseteq Drained.on_press

JoystickInv ==
  /\ JoystickTypeOK /\ ChordHidesButton /\ StickNeverSticks
  /\ events \in EventQueue /\ PollFindsHeld
  /\ stickActive = axis

LEMMA JoystickInitially == JoystickInit => JoystickInv
  <1> SUFFICES ASSUME JoystickInit PROVE JoystickInv
    OBVIOUS
  <1> USE EventsAssumption DEF JoystickInit
  <1>1. Drained = Polled
    BY FoldOfNothing DEF Drained
  <1>2. PollFindsHeld
    BY <1>1 DEF PollFindsHeld, Polls, Polled
  <1>3. JoystickTypeOK
    <2>1. Len(events) = 0 /\ 0 <= MaxEvents
      OBVIOUS
    <2> QED
      BY <2>1 DEF JoystickTypeOK, Pads
  <1>4. events \in EventQueue /\ stickActive = axis
    <2>1. \A E : <<>> \in Seq(E)
      OBVIOUS
    <2> QED
      BY <2>1 DEF EventQueue
  <1> QED
    BY <1>2, <1>3, <1>4 DEF JoystickInv, ChordHidesButton, StickNeverSticks

(* An event of the device is found by the next poll.                       *)
LEMMA EventIsFound ==
  ASSUME JoystickInv, NEW e \in [of : Buttons \cup {"dpad", "axis"}, value : BOOLEAN],
         Happens(e), UNCHANGED <<pressed, dpad, axis>>
  PROVE  events' \in EventQueue /\ Len(events') <= MaxEvents /\ Drained' = UpdateState(Drained, e)
  <1>1. events \in EventQueue /\ events' = Append(events, e) /\ Len(events) < MaxEvents
    BY DEF JoystickInv, Happens
  <1>2. events' \in EventQueue /\ Len(events') <= MaxEvents
    BY <1>1, EventsAssumption DEF EventQueue
  <1>3. Polled' = Polled
    BY DEF Polled
  <1>4. Drained' = FoldLeft(UpdateState, Polled, Append(events, e))
    BY <1>1, <1>3 DEF Drained
  <1>5. FoldLeft(UpdateState, Polled, Append(events, e)) = UpdateState(Drained, e)
    BY <1>1, FoldOfAppend DEF Drained, EventQueue
  <1> QED
    BY <1>2, <1>4, <1>5

LEMMA PollStep ==
  ASSUME JoystickInv, GetSysJoystick
  PROVE  JoystickInv' /\ (held \ pressed # {} => gamepad' # "None")
  <1>1. /\ Drained \in Polls /\ Drained.pressed = held
        /\ held \ pressed \subseteq Drained.on_press
    BY DEF JoystickInv, PollFindsHeld
  <1>2. /\ Calls(Drained) \in Seq(Pads \ {"None"})
        /\ Calls(Drained) = <<>> => Drained.on_press = {}
        /\ EndsWith(Calls(Drained), "A") => Drained.pressed \cap {"LB", "RB"} = {}
    BY <1>1, CallsOfPoll
  <1>3. Calls(Drained) # <<>> => Last(Calls(Drained)) \in Pads \ {"None"}
    BY <1>2 DEF Last
  <1>4. events' = <<>> /\ pressed' = held /\ held' = held /\ axis' = Drained.axis
        /\ dpad' = Drained.dpad
    BY <1>1 DEF GetSysJoystick
  <1>5. gamepad' = IF Calls(Drained) = <<>> THEN gamepad ELSE Last(Calls(Drained))
    BY DEF GetSysJoystick
  <1>6. /\ command' = IF Drained.axis THEN "stick" ELSE IF stickActive THEN "zero" ELSE command
        /\ stickActive' = Drained.axis
    BY DEF GetSysJoystick, StickCommand
  <1>7. Drained.axis \in BOOLEAN /\ Drained.dpad \in BOOLEAN /\ held \in SUBSET Buttons
    BY <1>1 DEF Polls
  <1>8. JoystickTypeOK'
    <2>1. gamepad' \in Pads
      BY <1>3, <1>5 DEF JoystickInv, JoystickTypeOK
    <2>2. command' \in {"zero", "stick", "key"}
      BY <1>6 DEF JoystickInv, JoystickTypeOK
    <2> QED
      BY <1>4, <1>6, <1>7, <2>1, <2>2, EventsAssumption DEF JoystickTypeOK
  <1>9. held \ pressed # {} => Calls(Drained) # <<>>
    BY <1>1, <1>2
  <1>10. ChordHidesButton'
    <2>1. CASE Calls(Drained) = <<>>
      <3>1. held \subseteq pressed /\ gamepad' = gamepad
        BY <1>5, <1>9, <2>1
      <3> QED
        BY <1>4, <3>1 DEF JoystickInv, ChordHidesButton
    <2>2. CASE Calls(Drained) # <<>>
      BY <1>1, <1>2, <1>4, <1>5, <2>2 DEF EndsWith, ChordHidesButton
    <2> QED
      BY <2>1, <2>2
  <1>11. StickNeverSticks'
    BY <1>4, <1>6 DEF JoystickInv, StickNeverSticks
  <1>12. Drained' = [pressed |-> held, on_press |-> {}, dpad |-> dpad', axis |-> axis']
    <2>1. Drained' = Polled'
      BY <1>4, FoldOfNothing DEF Drained
    <2> QED
      BY <1>4, <2>1 DEF Polled
  <1>13. PollFindsHeld'
    BY <1>4, <1>7, <1>12 DEF PollFindsHeld, Polls
  <1>14. events' \in EventQueue /\ stickActive' = axis'
    BY <1>4, <1>6 DEF EventQueue
  <1>15. JoystickInv'
    BY <1>8, <1>10, <1>11, <1>13, <1>14 DEF JoystickInv
  <1> QED
    BY <1>3, <1>5, <1>9, <1>15

LEMMA ButtonStep ==
  ASSUME JoystickInv, NEW b \in Buttons, PressOrRelease(b)
  PROVE  JoystickInv'
  <1> DEFINE e == ButtonEvent(b, b \notin held)
  <1>1. e \in [of : Buttons \cup {"dpad", "axis"}, value : BOOLEAN] /\ Happens(e)
    BY DEF ButtonEvent, PressOrRelease
  <1>2. UNCHANGED <<pressed, dpad, axis, stickActive, gamepad, command>>
    BY DEF PressOrRelease
  <1>3. e.of = b /\ e.value = (b \notin held) /\ b # "dpad" /\ b # "axis"
    BY DEF ButtonEvent, Buttons
  <1> HIDE DEF e
  <1>4. events' \in EventQueue /\ Len(events') <= MaxEvents /\ Drained' = UpdateState(Drained, e)
    BY <1>1, <1>2, EventIsFound
  <1>5. /\ Drained \in Polls /\ Drained.pressed = held /\ Drained.on_press \subseteq held
        /\ held \ pressed \subseteq Drained.on_press
    BY DEF JoystickInv, PollFindsHeld
  <1>6. held' = IF b \in held THEN held \ {b} ELSE held \cup {b}
    BY DEF PressOrRelease
  <1>7. Drained' = [Drained EXCEPT
                      !.on_press = IF b \notin held THEN @ \cup {b} ELSE @ \ {b},
                      !.pressed = IF b \notin held THEN @ \cup {b} ELSE @ \ {b}]
    BY <1>3, <1>4, <1>5 DEF UpdateState
  <1>8. /\ Drained' \in Polls /\ Drained'.pressed = held'
        /\ Drained'.on_press = IF b \notin held THEN Drained.on_press \cup {b}
                                                ELSE Drained.on_press \ {b}
    BY <1>5, <1>6, <1>7 DEF Polls
  <1>9. PollFindsHeld'
    BY <1>2, <1>5, <1>6, <1>8 DEF PollFindsHeld
  <1>10. JoystickTypeOK' /\ ChordHidesButton' /\ StickNeverSticks' /\ stickActive' = axis'
    BY <1>2, <1>4, <1>6
    DEF JoystickInv, JoystickTypeOK, ChordHidesButton, StickNeverSticks
  <1> QED
    BY <1>4, <1>9, <1>10 DEF JoystickInv

LEMMA AxisStep ==
  ASSUME JoystickInv, NEW of \in {"dpad", "axis"}, MoveAxis(of)
  PROVE  JoystickInv'
  <1>1. PICK out \in BOOLEAN : Happens(AxisEvent(of, out))
    BY DEF MoveAxis
  <1> DEFINE e == AxisEvent(of, out)
  <1>2. /\ e \in [of : Buttons \cup {"dpad", "axis"}, value : BOOLEAN] /\ Happens(e)
        /\ e.of = of /\ e.value = out
    BY <1>1 DEF AxisEvent
  <1> HIDE DEF e
  <1>3. UNCHANGED <<held, pressed, dpad, axis, stickActive, gamepad, command>>
    BY DEF MoveAxis
  <1>4. events' \in EventQueue /\ Len(events') <= MaxEvents /\ Drained' = UpdateState(Drained, e)
    BY <1>2, <1>3, EventIsFound
  <1>5. Drained \in Polls
    BY DEF JoystickInv, PollFindsHeld
  <1>6. /\ Drained' \in Polls /\ Drained'.pressed = Drained.pressed
        /\ Drained'.on_press = Drained.on_press
    BY <1>2, <1>4, <1>5 DEF UpdateState, Polls
  <1>7. PollFindsHeld'
    BY <1>3, <1>6 DEF JoystickInv, PollFindsHeld
  <1>8. JoystickTypeOK' /\ ChordHidesButton' /\ StickNeverSticks' /\ stickActive' = axis'
    BY <1>3, <1>4 DEF JoystickInv, JoystickTypeOK, ChordHidesButton, StickNeverSticks
  <1> QED
    BY <1>4, <1>7, <1>8 DEF JoystickInv

LEMMA JoystickStep == JoystickInv /\ [JoystickNext]_joystickVars => JoystickInv'
  <1> SUFFICES ASSUME JoystickInv, [JoystickNext]_joystickVars PROVE JoystickInv'
    OBVIOUS
  <1>1. CASE GetSysJoystick
    BY <1>1, PollStep
  <1>2. CASE KeyCommand \/ ClearGamepad \/ UNCHANGED joystickVars
    <2>1. UNCHANGED <<events, held, pressed, dpad, axis, stickActive>>
      BY <1>2 DEF KeyCommand, ClearGamepad, joystickVars
    <2>2. /\ command' \in {command, "key"} /\ gamepad' \in {gamepad, "None"}
      BY <1>2 DEF KeyCommand, ClearGamepad, joystickVars
    <2>3. Drained' = Drained
      BY <2>1 DEF Drained, Polled
    <2>4. PollFindsHeld'
      BY <2>1, <2>3 DEF JoystickInv, PollFindsHeld
    <2> QED
      BY <2>1, <2>2, <2>4
      DEF JoystickInv, JoystickTypeOK, ChordHidesButton, StickNeverSticks, Pads
  <1>3. CASE \E b \in Buttons : PressOrRelease(b)
    BY <1>3, ButtonStep
  <1>4. CASE \E of \in {"dpad", "axis"} : MoveAxis(of)
    BY <1>4, AxisStep
  <1> QED
    BY <1>1, <1>2, <1>3, <1>4 DEF JoystickNext

(* What the operator does on the joystick is what the robot is told: a     *)
(* chord is not taken for its plain button, the stick's command ends with  *)
(* the stick, and a press held until the poll is seen by it.               *)
THEOREM JoystickIsObeyed == JoystickSpec => JoystickObeyed
  <1>1. JoystickInv => JoystickTypeOK /\ ChordHidesButton /\ StickNeverSticks
    BY DEF JoystickInv
  <1>2. JoystickInv /\ [JoystickNext]_joystickVars
          => [events # <<>> /\ events' = <<>> /\ held \ pressed # {}
                => gamepad' # "None"]_joystickVars
    <2> SUFFICES ASSUME JoystickInv, JoystickNext, events # <<>>, events' = <<>>,
                        held \ pressed # {}
                 PROVE  gamepad' # "None"
      BY DEF joystickVars
    <2>1. CASE GetSysJoystick
      BY <2>1, PollStep
    <2>2. CASE KeyCommand \/ ClearGamepad
      BY <2>2 DEF KeyCommand, ClearGamepad
    <2>3. ASSUME NEW e, Happens(e)
          PROVE  FALSE
      <3>1. events' = Append(events, e) /\ events \in EventQueue
        BY <2>3 DEF Happens, JoystickInv
      <3>2. Len(events') = Len(events) + 1 /\ Len(events') = 0
        BY <3>1 DEF EventQueue
      <3> QED
        BY <3>1, <3>2 DEF EventQueue
    <2> QED
      BY <2>1, <2>2, <2>3 DEF JoystickNext, PressOrRelease, MoveAxis
  <1> QED
    BY JoystickInitially, JoystickStep, <1>1, <1>2, PTL
    DEF JoystickSpec, JoystickObeyed, HeldPressSeen
===============================================================================
