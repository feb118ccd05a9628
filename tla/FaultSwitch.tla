---------------------------- MODULE FaultSwitch ----------------------------
(***************************************************************************)
(* The fault switch of the Gazebo node.  FaultAlphaCallback (the ROS       *)
(* thread) tells whether a joint has lost torque; each RunModel (the RL    *)
(* thread) then moves fault_blend one step towards that verdict, zeroes    *)
(* the command, and mixes the actions of the recovery policy into those    *)
(* of the policy, while the control thread leaves RLLocomotion, comes      *)
(* back to it and replaces the policy under model_mutex.                   *)
(*                                                                         *)
(* fault_blend is counted in steps of dt / blend_time.  A policy is        *)
(* abstracted to how its inputs and outputs fit the recovery model.        *)
(***************************************************************************)
EXTENDS Integers

CONSTANTS
  Steps,                  \* runs from fault_blend = 0 to fault_blend = 1
  ZeroCommandAfterFault,  \* the zero_command_after_fault parameter
  Policies                \* the policies InitRL may load

(* "flat": recovery_model takes the same input and returns as many actions;*)
(* "history": model_forward_mode obs_history; "otherOutput", "otherInput": *)
(* recovery_model returns another number of actions, or throws.            *)
ASSUME ConstantsAssumption ==
  /\ Steps \in Nat \ {0}
  /\ ZeroCommandAfterFault \in BOOLEAN
  /\ Policies \subseteq {"flat", "history", "otherOutput", "otherInput"}

VARIABLES
  control,       \* where the control thread is
  rl,            \* where the RL thread is
  policy,        \* what rl.model and the parameters are, "rejected" if InitRL failed
  faultSwitch,   \* fault_switch_enabled, which implies a recovery_model
  fault,         \* fault_detected
  blend,         \* fault_blend
  command,       \* obs.commands: of the operator, or zero
  result,        \* recovery steps in the return value of Forward
  actions,       \* recovery steps in obs.actions
  quiet          \* history: runs since the last that saw a fault, up to Steps

controlVars == <<control, policy>>
faultVars == <<faultSwitch, fault>>
vars == <<control, rl, policy, faultSwitch, fault, blend, command, result, actions, quiet>>

Alive == rl # "crashed"
RLAt(from, to) == rl = from /\ rl' = to
-----------------------------------------------------------------------------
(* Start: LoadRecoveryPolicy.                                              *)

(* Switched off by the parameter, by a missing name, or because the model  *)
(* could not be loaded.                                                    *)
LoadRecoveryPolicy == faultSwitch \in BOOLEAN

Init ==
  /\ LoadRecoveryPolicy
  /\ control = "out" /\ rl = "idle" /\ policy = "rejected"
  /\ fault = FALSE /\ blend = 0 /\ quiet = Steps
  /\ command = "zero" /\ result = 0 /\ actions = 0
-----------------------------------------------------------------------------
(* ROS thread.                                                             *)

(* The subscription exists only with the switch on.                        *)
FaultAlphaCallback ==
  /\ Alive
  /\ faultSwitch
  /\ fault' \in BOOLEAN
  /\ UNCHANGED <<controlVars, rl, faultSwitch, blend, command, result, actions, quiet>>
-----------------------------------------------------------------------------
(* Control thread: "init" holds model_mutex, "ready" is RLLocomotion with  *)
(* the RL thread shut out (transition, hold or a stopped simulation).      *)

EnterRL ==
  /\ Alive /\ control = "out"
  /\ control' = "init"
  /\ UNCHANGED <<rl, policy, faultVars, blend, command, result, actions, quiet>>

(* InitObservations: zero command, zero actions.  fault_blend stays.       *)
InitRL ==
  /\ Alive /\ control = "init"
  /\ control' = "ready"
  /\ policy' \in Policies
  /\ command' = "zero" /\ actions' = 0
  /\ UNCHANGED <<rl, faultVars, blend, result, quiet>>

(* An exception in InitRL, before or after the observations are reset.     *)
InitRLFails ==
  /\ Alive /\ control = "init"
  /\ control' = "out"
  /\ policy' \in Policies \cup {"rejected"}
  /\ \/ command' = "zero" /\ actions' = 0
     \/ UNCHANGED <<command, actions>>
  /\ UNCHANGED <<rl, faultVars, blend, result, quiet>>

(* rl_init_done and simulation_running both become true ...                *)
Engage ==
  /\ Alive /\ control = "ready"
  /\ control' = "engaged"
  /\ UNCHANGED <<rl, policy, faultVars, blend, command, result, actions, quiet>>

(* ... and one of them false.                                              *)
Disengage ==
  /\ Alive /\ control = "engaged"
  /\ control' = "ready"
  /\ UNCHANGED <<rl, policy, faultVars, blend, command, result, actions, quiet>>

Leave ==
  /\ Alive /\ control \in {"ready", "engaged"}
  /\ control' = "out"
  /\ UNCHANGED <<rl, policy, faultVars, blend, command, result, actions, quiet>>

Control == EnterRL \/ InitRL \/ InitRLFails \/ Engage \/ Disengage \/ Leave
-----------------------------------------------------------------------------
(* RL thread: one RunModel.                                                *)

Admit ==
  /\ RLAt("idle", "admitted")
  /\ control = "engaged"
  /\ UNCHANGED <<controlVars, faultVars, blend, command, result, actions, quiet>>

BlendNeverFalls ==  \* mutant: fault_blend is not lowered when the fault clears
  IF fault /\ blend < Steps THEN blend + 1 ELSE blend

BlendRestarts ==  \* mutant: every run with a fault starts over at one step
  IF fault THEN 1 ELSE IF blend > 0 THEN blend - 1 ELSE 0

NextBlend ==
  IF fault
  THEN IF blend < Steps THEN blend + 1 ELSE Steps
  ELSE IF blend > 0 THEN blend - 1 ELSE 0

(* fault_detected is read under fault_mutex.                               *)
UpdateFaultBlend ==
  /\ RLAt("admitted", "blended")
  /\ blend' = IF faultSwitch THEN NextBlend ELSE 0
  /\ quiet' = IF fault THEN 0 ELSE IF quiet < Steps THEN quiet + 1 ELSE Steps
  /\ UNCHANGED <<controlVars, faultVars, command, result, actions>>

ZeroOnFaultOnly ==  \* mutant: fault_blend > 0 is not tested
  faultSwitch /\ ZeroCommandAfterFault /\ fault

ZeroWanted == faultSwitch /\ ZeroCommandAfterFault /\ (fault \/ blend > 0)

(* fault_detected is read a second time, and may have changed.             *)
SetCommand ==
  /\ RLAt("blended", "commanded")
  /\ command' = IF ZeroWanted THEN "zero" ELSE "operator"
  /\ UNCHANGED <<controlVars, faultVars, blend, result, actions, quiet>>

Mixes == faultSwitch /\ policy # "history" /\ blend > 0

(* Forward: the actions of the policy, mixed with those of the recovery    *)
(* model if there are as many of them.                                     *)
ForwardInfers ==
  /\ RLAt("commanded", "inferred")
  /\ control # "init"
  /\ policy # "rejected"
  /\ Mixes => policy # "otherInput"
  /\ result' = IF Mixes /\ policy = "flat" THEN blend ELSE 0
  /\ UNCHANGED <<controlVars, faultVars, blend, command, actions, quiet>>

(* InitRL holds model_mutex: the previous actions.                         *)
ForwardBusy ==
  /\ RLAt("commanded", "inferred")
  /\ control = "init"
  /\ result' = actions
  /\ UNCHANGED <<controlVars, faultVars, blend, command, actions, quiet>>

(* No model, or a model that throws on its input: nothing catches it.      *)
ForwardCrashes ==
  /\ RLAt("commanded", "crashed")
  /\ control # "init"
  /\ policy = "rejected" \/ (Mixes /\ policy = "otherInput")
  /\ UNCHANGED <<controlVars, faultVars, blend, command, result, actions, quiet>>

SetActions ==
  /\ RLAt("inferred", "idle")
  /\ actions' = result
  /\ UNCHANGED <<controlVars, faultVars, blend, command, result, quiet>>

RunModel ==
  \/ Admit \/ UpdateFaultBlend \/ SetCommand
  \/ ForwardInfers \/ ForwardBusy \/ ForwardCrashes \/ SetActions

Crashed == ~Alive /\ UNCHANGED vars

Next == FaultAlphaCallback \/ Control \/ RunModel \/ Crashed

Spec == Init /\ [][Next]_vars

(* loop_rl is a periodic thread.                                           *)
FairSpec == Spec /\ WF_vars(RunModel)
-----------------------------------------------------------------------------
(* Properties.                                                             *)

TypeOK ==
  /\ control \in {"out", "init", "ready", "engaged"}
  /\ rl \in {"idle", "admitted", "blended", "commanded", "inferred", "crashed"}
  /\ policy \in Policies \cup {"rejected"}
  /\ faultSwitch \in BOOLEAN /\ fault \in BOOLEAN
  /\ blend \in 0..Steps /\ result \in 0..Steps /\ actions \in 0..Steps
  /\ quiet \in 0..Steps
  /\ command \in {"operator", "zero"}

(* FaultAlphaCallback, "Zeroing command and blending to recovery policy":  *)
(* the recovery policy never computes an action for an operator's command, *)
(* although the verdict is read twice in a run, the callback may come in   *)
(* between, and the policy may be replaced before the inference.           *)
RecoveryAtRest ==
  [][ForwardInfers /\ result' > 0 /\ ZeroCommandAfterFault => command = "zero"]_vars

(* FaultAlphaCallback, "Fault cleared. Blending back to normal policy.":   *)
(* fault_blend outlives the policy and the state that raised it, but Steps *)
(* runs after the last that saw a fault it is zero, so that no inference   *)
(* uses the recovery policy, however often the robot left RLLocomotion in  *)
(* between.                                                                *)
HandBackBounded == blend + quiet <= Steps

(* A lasting fault under a policy that stays engaged puts the recovery     *)
(* policy in charge alone, with the command at zero ...                    *)
FaultTakesOver ==
  <>[](faultSwitch /\ fault /\ control = "engaged" /\ policy = "flat") =>
    \/ <>[](actions = Steps /\ (ZeroCommandAfterFault => command = "zero"))
    \/ <>~Alive

(* ... and a fault that is over returns the robot to the policy and to the *)
(* operator.                                                               *)
FaultClears ==
  <>[](~fault /\ control = "engaged") =>
    <>[](actions = 0 /\ command = "operator") \/ <>~Alive

(* The two together: every fault that lasts, and every one that ends, is   *)
(* answered.                                                               *)
FaultAnswered == FaultTakesOver /\ FaultClears
=============================================================================
