------------------------------- MODULE Go2Fsm -------------------------------
(***************************************************************************)
(* The state machine of the Go2 (fsm.hpp, fsm_go2.hpp) driven by the       *)
(* control loop: one Tick is one RobotControl() call, that is GetState,    *)
(* StateController (FSM::Run) and ClearInput.  Between ticks the keyboard  *)
(* and joystick callbacks set the requested key and button.                *)
(*                                                                         *)
(* Data is abstracted to what the properties tell apart.  A percent_* is   *)
(* the number of interpolation frames already done.  A joint vector is     *)
(* the joint order (joint_mapping) its entries were written in.  A motor   *)
(* command is who wrote it and the joint orders of the vectors mixed in it.*)
(***************************************************************************)
EXTENDS Naturals

CONSTANTS
  PreGetUpFrames,      \* frames of "Pre Getting up"
  StandFrames,         \* frames of "Getting up" after the pre phase
  RiseFrames,          \* frames of "Getting up" when not from Passive
  GetDownFrames,       \* frames of "Getting down"
  TransitionFrames,    \* frames of "Policy transition"
  HoldZeroCommand,     \* the policy's hold_zero_command parameter
  LegOrder,            \* joint order of base.yaml and of pre_running_pos
  PolicyOrder          \* joint order of the policy's config.yaml

(* Interpolate uses max(1, ceil(duration / dt)) frames.                    *)
ASSUME FramesAssumption ==
  /\ PreGetUpFrames \in Nat \ {0}
  /\ StandFrames \in Nat \ {0}
  /\ RiseFrames \in Nat \ {0}
  /\ GetDownFrames \in Nat \ {0}
  /\ TransitionFrames \in Nat \ {0}

ASSUME HoldAssumption == HoldZeroCommand \in BOOLEAN

VARIABLES
  current, next, previous, mode,     \* class FSM
  keyboard, lastKeyboard, gamepad,   \* struct Control
  preGetup, getup, getdown, transition,   \* the percent_* members
  standFromPassive,
  startFrom,        \* the state the robot was in when rl.start_state was saved
  startOrder, nowOrder,              \* joint order of rl.start_state, rl.now_state
  order,            \* joint_mapping in rl.params
  model,            \* rl.model
  rlInitDone,       \* rl.rl_init_done
  command           \* rl.robot_command, as published by SetCommand

fsmVars == <<current, next, previous, mode>>
inputVars == <<keyboard, lastKeyboard, gamepad>>
percentVars == <<preGetup, getup, getdown, transition>>
poseVars == <<standFromPassive, startFrom, startOrder, nowOrder>>
vars == <<fsmVars, inputVars, percentVars, poseVars, order, model, rlInitDone, command>>

States == {"Passive", "GetUp", "GetDown", "RL"}
Keys == {"None", "P", "Num0", "Num1", "Num9", "Other"}
Buttons == {"None", "LB_X", "A", "RB_DPadUp", "B"}
Orders == {LegOrder, PolicyOrder}
Writers == {"none", "damping", "getup", "getdown", "transition", "hold", "policy"}
-----------------------------------------------------------------------------
(* Requests, as every CheckChange reads them.                              *)

PassiveAsked == keyboard = "P" \/ gamepad = "LB_X"
GetUpAsked == keyboard = "Num0" \/ gamepad = "A"
GetDownAsked == keyboard = "Num9" \/ gamepad = "B"
RLAsked == keyboard = "Num1" \/ gamepad = "RB_DPadUp"

SetKeyboard(k) ==
  /\ keyboard # k
  /\ lastKeyboard' = keyboard
  /\ keyboard' = k
  /\ UNCHANGED <<fsmVars, gamepad, percentVars, poseVars, order, model, rlInitDone, command>>

SetGamepad(b) ==
  /\ gamepad # b
  /\ gamepad' = b
  /\ UNCHANGED <<fsmVars, keyboard, lastKeyboard, percentVars, poseVars, order, model,
                 rlInitDone, command>>

(* The end of every tick: the previous key becomes current again.          *)
ClearInput ==
  /\ keyboard' = lastKeyboard
  /\ gamepad' = "None"
  /\ UNCHANGED lastKeyboard
-----------------------------------------------------------------------------
(* Mutants of Interpolate: without the final min(percent, 1), and with a   *)
(* sum of steps that stays below 1.                                        *)
InterpolateUnclamped(percent, frames, near) ==
  IF percent = 0 /\ near THEN frames ELSE percent + 1
InterpolateShort(percent, frames, near) ==
  IF percent + 1 < frames THEN percent + 1 ELSE percent

(* RLFSMState::Interpolate.  near is max_diff < 0.1 between the two poses. *)
Interpolate(percent, frames, near) ==
  CASE percent >= frames      -> percent
    [] percent = 0 /\ near    -> frames
    [] OTHER                  -> percent + 1

Written(by, orders) == [by |-> by, orders |-> orders]

PassiveRunSilent ==  \* mutant: Passive leaves the last command standing
  UNCHANGED <<command, percentVars>>

PassiveRun ==
  /\ command' = Written("damping", {})
  /\ UNCHANGED percentVars

GetUpFrames == IF standFromPassive THEN StandFrames ELSE RiseFrames

(* GetUp::Run on the given members: the pre phase returns early until it   *)
(* is complete; a phase that is already complete writes nothing.           *)
GetUpRun(pre, up, fromPassive, now) ==
  \E nearPre, near \in BOOLEAN :
    LET frames == IF fromPassive THEN StandFrames ELSE RiseFrames
        pre1 == IF fromPassive THEN Interpolate(pre, PreGetUpFrames, nearPre) ELSE pre
        ready == fromPassive => pre1 >= PreGetUpFrames
        from == IF fromPassive THEN LegOrder ELSE now
    IN /\ preGetup' = pre1
       /\ getup' = IF ready THEN Interpolate(up, frames, near) ELSE up
       /\ command' = CASE ready /\ up < frames -> Written("getup", {from, order})
                       [] ~ready               -> Written("getup", {now, LegOrder})
                       [] OTHER                -> command
       /\ UNCHANGED <<getdown, transition>>

GetDownRun(down, now) ==
  \E near \in BOOLEAN :
    /\ getdown' = Interpolate(down, GetDownFrames, near)
    /\ command' = IF down < GetDownFrames THEN Written("getdown", {now, startOrder}) ELSE command
    /\ UNCHANGED <<preGetup, getup, transition>>

(* RLLocomotion::Run without an exception: the transition first; then      *)
(* either the zero-command hold or RLControl, which applies an action if   *)
(* the queues have one.                                                    *)
RLRun(done, now, engaged) ==
  \E near \in BOOLEAN :
    LET done1 == Interpolate(done, TransitionFrames, near)
        moved == IF done < TransitionFrames THEN Written("transition", {now, order'}) ELSE command
    IN /\ transition' = done1
       /\ \/ /\ done1 < TransitionFrames
             /\ command' = moved
             /\ rlInitDone' = engaged
          \/ /\ done1 >= TransitionFrames
             /\ HoldZeroCommand
             /\ command' = Written("hold", {order'})
             /\ rlInitDone' = FALSE
          \/ /\ done1 >= TransitionFrames
             /\ command' \in {moved, Written("policy", {order'})}
             /\ rlInitDone' = TRUE
       /\ UNCHANGED <<preGetup, getup, getdown>>

(* RLLocomotion::Run cut short by a parameter error, wherever it strikes.  *)
RLRunThrows(done, now) ==
  \E near \in BOOLEAN :
    LET done1 == Interpolate(done, TransitionFrames, near)
    IN /\ \/ transition' = done /\ command' = command
          \/ transition' = done1 /\ command' = command
          \/ /\ done < TransitionFrames
             /\ transition' = done1
             /\ command' = Written("transition", {now, order'})
       /\ rlInitDone' = FALSE
       /\ UNCHANGED <<preGetup, getup, getdown>>
-----------------------------------------------------------------------------
(* FSM::Run in Mode::NORMAL: Run(), then CheckChange().                    *)

Normal(s) == mode = "NORMAL" /\ current = s

ChangeTo(s) ==
  /\ IF s # current
     THEN mode' = "CHANGE" /\ next' = s
     ELSE UNCHANGED <<mode, next>>
  /\ UNCHANGED <<current, previous>>

PassiveTick ==
  /\ Normal("Passive")
  /\ PassiveRun
  /\ ChangeTo(IF GetUpAsked THEN "GetUp" ELSE "Passive")
  /\ ClearInput
  /\ UNCHANGED <<poseVars, order, model, rlInitDone>>

GetUpNextUnready ==  \* mutant: percent_getup is not consulted
  IF PassiveAsked THEN "Passive" ELSE IF RLAsked THEN "RL" ELSE "GetUp"

GetUpNext ==
  CASE PassiveAsked                                       -> "Passive"
    [] ~PassiveAsked /\ getup' >= GetUpFrames /\ RLAsked  -> "RL"
    [] ~PassiveAsked /\ getup' >= GetUpFrames /\ ~RLAsked /\ GetDownAsked -> "GetDown"
    [] OTHER                                              -> "GetUp"

GetUpTick ==
  /\ Normal("GetUp")
  /\ GetUpRun(preGetup, getup, standFromPassive, nowOrder)
  /\ ChangeTo(GetUpNext)
  /\ ClearInput
  /\ UNCHANGED <<poseVars, order, model, rlInitDone>>

GetDownNextStays ==  \* mutant: completing the motion does not leave the state
  IF PassiveAsked THEN "Passive" ELSE IF GetUpAsked THEN "GetUp" ELSE "GetDown"

GetDownNext ==
  CASE PassiveAsked \/ getdown' >= GetDownFrames -> "Passive"
    [] ~PassiveAsked /\ getdown' < GetDownFrames /\ GetUpAsked -> "GetUp"
    [] OTHER -> "GetDown"

GetDownTick ==
  /\ Normal("GetDown")
  /\ GetDownRun(getdown, nowOrder)
  /\ ChangeTo(GetDownNext)
  /\ ClearInput
  /\ UNCHANGED <<poseVars, order, model, rlInitDone>>

RLNext ==
  CASE PassiveAsked                                   -> "Passive"
    [] ~PassiveAsked /\ GetDownAsked                  -> "GetDown"
    [] ~PassiveAsked /\ ~GetDownAsked /\ GetUpAsked   -> "GetUp"
    [] OTHER                                          -> "RL"

RLTickRestarts ==  \* mutant: percent_transition is not kept between ticks
  /\ Normal("RL")
  /\ ClearInput
  /\ UNCHANGED <<poseVars, order, model>>
  /\ RLRun(0, nowOrder, rlInitDone)
  /\ ChangeTo(RLNext)

RLTick ==
  /\ Normal("RL")
  /\ ClearInput
  /\ UNCHANGED <<poseVars, order, model>>
  /\ RLRun(transition, nowOrder, rlInitDone)
  /\ ChangeTo(RLNext)

AfterThrowIgnored == RLNext  \* mutant: the catch block requests nothing

(* The catch block requests Passive; CheckChange still runs after it and   *)
(* a different answer replaces the request.                                *)
AfterThrow == IF RLNext = "RL" THEN "Passive" ELSE RLNext

RLTickThrows ==
  /\ Normal("RL")
  /\ ClearInput
  /\ UNCHANGED <<poseVars, order, model>>
  /\ RLRunThrows(transition, nowOrder)
  /\ ChangeTo(AfterThrow)
-----------------------------------------------------------------------------
(* FSM::Run in Mode::CHANGE: Exit() the old state, Enter() the new one and *)
(* Run() it in the same tick; CheckChange() is not called.                 *)

Entering(s) ==
  /\ mode = "CHANGE"
  /\ next = s
  /\ previous' = current
  /\ current' = s

ExitForgotten == UNCHANGED rlInitDone  \* mutant: RLLocomotion::Exit is empty

(* Exit() does something only in RLLocomotion.                             *)
ExitCurrent == rlInitDone' = (rlInitDone /\ current # "RL")

EnterPassive ==
  /\ Entering("Passive")
  /\ ExitCurrent
  /\ PassiveRun
  /\ mode' = "NORMAL"
  /\ ClearInput
  /\ UNCHANGED <<next, poseVars, order, model>>

EnterGetUp ==
  /\ Entering("GetUp")
  /\ ExitCurrent
  /\ standFromPassive' = (current = "Passive")
  /\ startFrom' = current
  /\ startOrder' = order
  /\ nowOrder' = order
  /\ GetUpRun(0, 0, standFromPassive', nowOrder')
  /\ mode' = "NORMAL"
  /\ ClearInput
  /\ UNCHANGED <<next, order, model>>

EnterGetDown ==
  /\ Entering("GetDown")
  /\ ExitCurrent
  /\ nowOrder' = order
  /\ GetDownRun(0, nowOrder')
  /\ mode' = "NORMAL"
  /\ ClearInput
  /\ UNCHANGED <<next, standFromPassive, startFrom, startOrder, order, model>>

StateNotRemapped == nowOrder' = order  \* mutant: now_state keeps the old order

(* remap_to_current_order: the state read before InitRL, in the new order. *)
RemapNowState == nowOrder' = order'

(* InitRL completes: the parameters are the policy's, the saved state is   *)
(* remapped to its joint order, and Run() follows at once.                 *)
EnterRL ==
  /\ Entering("RL")
  /\ order' = PolicyOrder
  /\ model' = "valid"
  /\ RemapNowState
  /\ \/ /\ RLRun(0, nowOrder', FALSE)
        /\ mode' = "NORMAL"
        /\ UNCHANGED next
     \/ /\ RLRunThrows(0, nowOrder')
        /\ mode' = "CHANGE"
        /\ next' = "Passive"
  /\ ClearInput
  /\ UNCHANGED <<standFromPassive, startFrom, startOrder>>

(* InitRL throws at one of its steps, leaving the work of the earlier ones.*)
InitFailures ==
  { [order |-> order, model |-> model],              \* config.yaml missing
    [order |-> LegOrder, model |-> model],           \* profile rejected
    [order |-> PolicyOrder, model |-> model],        \* bad observation history
    [order |-> PolicyOrder, model |-> "none"],       \* load_model returned null
    [order |-> PolicyOrder, model |-> "invalid"] }   \* contract validation failed

EnterRLFailsSilently ==  \* mutant: the catch block does not request Passive
  /\ Entering("RL")
  /\ \E left \in InitFailures : order' = left.order /\ model' = left.model
  /\ transition' = 0
  /\ rlInitDone' = FALSE
  /\ mode' = "NORMAL"
  /\ ClearInput
  /\ UNCHANGED <<next, preGetup, getup, getdown, poseVars, command>>

(* The catch block requests Passive, and Run() is skipped in this tick.    *)
EnterRLFails ==
  /\ Entering("RL")
  /\ \E left \in InitFailures : order' = left.order /\ model' = left.model
  /\ transition' = 0
  /\ rlInitDone' = FALSE
  /\ next' = "Passive"
  /\ ClearInput
  /\ UNCHANGED <<mode, preGetup, getup, getdown, poseVars, command>>
-----------------------------------------------------------------------------
Init ==
  /\ current = "Passive" /\ next = "Passive" /\ previous = "none" /\ mode = "NORMAL"
  /\ keyboard = "None" /\ lastKeyboard = "None" /\ gamepad = "None"
  /\ preGetup = 0 /\ getup = 0 /\ getdown = 0 /\ transition = 0
  /\ standFromPassive = TRUE
  /\ startFrom = "none"
  /\ startOrder = LegOrder
  /\ nowOrder = LegOrder
  /\ order = LegOrder
  /\ model = "none"
  /\ rlInitDone = FALSE
  /\ command = Written("none", {})

Tick ==
  \/ PassiveTick \/ GetUpTick \/ GetDownTick \/ RLTick \/ RLTickThrows
  \/ EnterPassive \/ EnterGetUp \/ EnterGetDown \/ EnterRL \/ EnterRLFails

Next ==
  \/ \E k \in Keys \ {"None"} : SetKeyboard(k)
  \/ \E b \in Buttons \ {"None"} : SetGamepad(b)
  \/ Tick

Spec == Init /\ [][Next]_vars

(* loop_control calls RobotControl periodically for as long as it runs.    *)
FairSpec == Spec /\ WF_vars(Tick)
-----------------------------------------------------------------------------
(* Properties.                                                             *)

(* Every variable stays in its range: percents never pass 1, the machine   *)
(* never holds a state that was not registered.                            *)
TypeOK ==
  /\ current \in States
  /\ next \in States
  /\ previous \in States \cup {"none"}
  /\ mode \in {"NORMAL", "CHANGE"}
  /\ keyboard \in Keys /\ lastKeyboard \in Keys /\ gamepad \in Buttons
  /\ preGetup \in 0..PreGetUpFrames
  /\ standFromPassive \in BOOLEAN
  /\ getup \in 0..GetUpFrames
  /\ getdown \in 0..GetDownFrames
  /\ transition \in 0..TransitionFrames
  /\ startFrom \in States \cup {"none"}
  /\ startOrder \in Orders /\ nowOrder \in Orders /\ order \in Orders
  /\ model \in {"none", "invalid", "valid"}
  /\ rlInitDone \in BOOLEAN
  /\ command \in [by : Writers, orders : SUBSET Orders]

(* The RL thread is let loose (rl_init_done) only inside RLLocomotion,     *)
(* with a model that was loaded and validated, after the transition to the *)
(* policy's default pose is complete.  Exit, the failing InitRL, the hold  *)
(* and the exception handler each have to keep their part of this.         *)
PolicyGuarded ==
  rlInitDone => /\ current = "RL"
                /\ model = "valid"
                /\ transition = TransitionFrames

(* RLLocomotion never Runs after an InitRL that threw: a machine left in   *)
(* RL without a valid model is already on its way to Passive, and no key   *)
(* can turn it elsewhere.                                                  *)
FailedInitLeaves ==
  current = "RL" /\ model # "valid" => mode = "CHANGE" /\ next = "Passive"

WriterOf(by) ==
  CASE by = "damping"                          -> "Passive"
    [] by = "getup"                            -> "GetUp"
    [] by = "getdown"                          -> "GetDown"
    [] by \in {"transition", "hold", "policy"} -> "RL"
    [] OTHER                                   -> "none"

(* The motors are never left under the command of a state that was exited, *)
(* although Run may write nothing: the one exception is an RLLocomotion    *)
(* that failed before its first write and is about to be left.             *)
CommandOwner ==
  \/ command.by = "none" /\ current = "Passive"
  \/ WriterOf(command.by) = current
  \/ current = "RL" /\ command.by = "getup" /\ mode = "CHANGE"

(* InitRL may change joint_mapping under the joint vectors saved before    *)
(* it: while a state interpolates from rl.now_state, that vector is in the *)
(* order of the current parameters, and so is all that RLLocomotion sends. *)
JointOrderKept ==
  /\ mode = "NORMAL" /\ current # "Passive" => nowOrder = order
  /\ WriterOf(command.by) = "RL" => command.orders \subseteq {order}

(* The policy is never withdrawn silently: when rl_init_done falls, either *)
(* the zero-command hold commands the joints in that same tick, or the     *)
(* machine is leaving RLLocomotion.                                        *)
PolicyWithdrawn ==
  [][rlInitDone /\ ~rlInitDone' => \/ command'.by = "hold"
                                   \/ mode' = "CHANGE"
                                   \/ current' # "RL"]_vars

(* The machine implements its abstract promise.                            *)
Abstract == INSTANCE RobotModes WITH
  mode    <- current,
  stood   <- current = "GetUp" /\ getup >= GetUpFrames,
  engaged <- rlInitDone
ImplementsRobotModes == Abstract!Spec

(* The interpolations end: a robot told to get down is eventually passive  *)
(* or getting up again, one getting up stands or has left the state, and   *)
(* one in RLLocomotion completes its transition or leaves.                 *)
GetDownEnds == current = "GetDown" ~> current \in {"Passive", "GetUp"}
StandUpEnds == current = "GetUp" ~> (getup >= GetUpFrames \/ current # "GetUp")
TransitionEnds == current = "RL" ~> (transition >= TransitionFrames \/ current # "RL")

InterpolationsEnd == GetDownEnds /\ StandUpEnds /\ TransitionEnds

(* A policy that fails to load always ends in Passive.                     *)
FailedInitReachesPassive == (current = "RL" /\ model # "valid") ~> current = "Passive"

(* README.md, "get up into the default standing pose": every joint vector  *)
(* mixed into a get-up command is in the order SetCommand publishes it in. *)
GetUpCommandInOrder ==
  current = "GetUp" /\ command.by = "getup" => command.orders \subseteq {order}
=============================================================================
