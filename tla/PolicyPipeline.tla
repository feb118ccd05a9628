--------------------------- MODULE PolicyPipeline ---------------------------
(***************************************************************************)
(* The hand-over of policy actions from the RL thread (loop_rl: RunModel,  *)
(* Forward, ComputeOutput) to the control thread (loop_control: the        *)
(* RLLocomotion state and RLControl), step by step.  The threads share     *)
(* rl_init_done, episode_length_buf, simulation_running, obs.actions, the  *)
(* output_dof_* members and three queues with no lock, and the model and   *)
(* its history under model_mutex.                                          *)
(*                                                                         *)
(* Actions are abstracted to the epoch (the successful InitRL) of the      *)
(* policy that computed them, the history to the number of zero frames     *)
(* still in it, episode_length_buf to 0, 1 or "2 or more".                 *)
(***************************************************************************)
EXTENDS Integers, Sequences

CONSTANTS
  MaxEpoch,        \* bound: RLLocomotion is entered while epoch < MaxEpoch
  QueueCap,        \* bound: the RL thread is at most QueueCap runs ahead
  TauCap,          \* bound: the torque queue is counted up to TauCap
  HistoryLength,   \* frames in history_obs_buf
  WarmStart,       \* the policy's warm_start_history parameter
  HoldZeroCommand, \* the policy's hold_zero_command parameter
  Failures         \* how InitRL may fail

ASSUME BoundsAssumption ==
  /\ MaxEpoch \in Nat
  /\ QueueCap \in Nat
  /\ TauCap \in Nat
  /\ HistoryLength \in Nat \ {0}

ASSUME ParamsAssumption == WarmStart \in BOOLEAN /\ HoldZeroCommand \in BOOLEAN

(* Before any change; before the model is replaced; with load_model        *)
(* returning null; with the new model rejected by its contract.            *)
ASSUME FailuresAssumption == Failures \subseteq {"config", "history", "model", "contract"}

VARIABLES
  control,       \* where the control thread is
  rl,            \* where the RL thread is
  rlInitDone, simRunning, episode,
  mutex,         \* holder of model_mutex
  epoch, model, padding,    \* the policy, rl.model and its history buffer
  actions, output,          \* obs.actions and output_dof_*
  pos, vel, tau,            \* output_dof_*_queue
  counted, result,          \* the RL thread's local values
  popped, applied,          \* _output_dof_pos; the last pair RLControl applied
  raced                     \* history: a run was in flight at the last Enter

sharedVars == <<rlInitDone, simRunning, episode>>
policyVars == <<epoch, model, padding>>
queueVars == <<pos, vel, tau>>
rlLocals == <<counted, result>>
controlVars == <<popped, applied, raced>>
vars == <<control, rl, sharedVars, mutex, policyVars, actions, output, queueVars,
          rlLocals, controlVars>>

Epochs == 0..MaxEpoch
ControlPoints == {"out", "initWait", "init", "drainPos", "drainVel", "drainTau",
                  "run", "popPos", "popVel"}
RLPoints == {"idle", "admitted", "counting", "forward?", "forward", "compute",
             "pushPos", "pushVel", "pushTau", "crashed"}

Alive == rl # "crashed"

ControlAt(from, to) == Alive /\ control = from /\ control' = to
RLAt(from, to) == rl = from /\ rl' = to
-----------------------------------------------------------------------------
(* Control thread.                                                         *)

EnterKeepsEpisode ==  \* mutant: Enter does not reset episode_length_buf
  /\ ControlAt("out", "initWait")
  /\ epoch < MaxEpoch
  /\ rlInitDone' = FALSE
  /\ raced' = (rl # "idle")
  /\ UNCHANGED <<rl, simRunning, episode, mutex, policyVars, actions, output,
                 queueVars, rlLocals, popped, applied>>

(* RLLocomotion::Enter up to InitRL.                                       *)
Enter ==
  /\ ControlAt("out", "initWait")
  /\ epoch < MaxEpoch
  /\ episode' = 0
  /\ rlInitDone' = FALSE
  /\ raced' = (rl # "idle")
  /\ UNCHANGED <<rl, simRunning, mutex, policyVars, actions, output, queueVars,
                 rlLocals, popped, applied>>

(* InitRL begins by locking model_mutex.                                   *)
LockModel ==
  /\ ControlAt("initWait", "init")
  /\ mutex = "free"
  /\ mutex' = "control"
  /\ UNCHANGED <<rl, sharedVars, policyVars, actions, output, queueVars, rlLocals,
                 controlVars>>

(* InitObservations and InitOutputs: neutral values of the policy loaded.  *)
ResetBuffers(e) ==
  /\ actions' = e
  /\ output' = e

InitSucceeds ==
  /\ ControlAt("init", "drainPos")
  /\ mutex' = "free"
  /\ epoch' = epoch + 1
  /\ model' = "valid"
  /\ ResetBuffers(epoch')
  /\ padding' = HistoryLength
  /\ UNCHANGED <<rl, sharedVars, queueVars, rlLocals, controlVars>>

(* An exception in InitRL: the machine leaves for Passive.                 *)
InitFails(failure) ==
  /\ ControlAt("init", "out")
  /\ mutex' = "free"
  /\ IF failure = "config"
     THEN UNCHANGED <<actions, output>>
     ELSE ResetBuffers(epoch)
  /\ padding' = IF failure \in {"model", "contract"} THEN HistoryLength ELSE padding
  /\ model' = CASE failure = "model"    -> "none"
                [] failure = "contract" -> "invalid"
                [] OTHER                -> model
  /\ rlInitDone' = FALSE
  /\ UNCHANGED <<rl, simRunning, episode, epoch, queueVars, rlLocals, controlVars>>

DrainPosOnce ==  \* mutant: if instead of while
  /\ ControlAt("drainPos", "drainVel")
  /\ pos' = IF pos = <<>> THEN <<>> ELSE Tail(pos)
  /\ UNCHANGED <<rl, sharedVars, mutex, policyVars, actions, output, vel, tau, rlLocals,
                 controlVars>>

(* while (queue.try_pop(stale_output)) {}: the queue is empty when it ends.*)
DrainPos ==
  /\ ControlAt("drainPos", "drainVel")
  /\ pos' = <<>>
  /\ UNCHANGED <<rl, sharedVars, mutex, policyVars, actions, output, vel, tau, rlLocals,
                 controlVars>>

DrainVel ==
  /\ ControlAt("drainVel", "drainTau")
  /\ vel' = <<>>
  /\ UNCHANGED <<rl, sharedVars, mutex, policyVars, actions, output, pos, tau, rlLocals,
                 controlVars>>

DrainTau ==
  /\ ControlAt("drainTau", "run")
  /\ tau' = 0
  /\ UNCHANGED <<rl, sharedVars, mutex, policyVars, actions, output, pos, vel, rlLocals,
                 controlVars>>

(* A tick of RLLocomotion::Run after the transition: zero-command hold ... *)
Hold ==
  /\ ControlAt("run", "drainPos")
  /\ HoldZeroCommand
  /\ rlInitDone' = FALSE
  /\ UNCHANGED <<rl, simRunning, episode, mutex, policyVars, actions, output, queueVars,
                 rlLocals, controlVars>>

(* ... or the policy, whose RLControl pops a position first ...            *)
Engage ==
  /\ ControlAt("run", "popPos")
  /\ rlInitDone' = TRUE
  /\ UNCHANGED <<rl, simRunning, episode, mutex, policyVars, actions, output, queueVars,
                 rlLocals, controlVars>>

PopPos ==
  /\ \/ /\ pos = <<>>
        /\ ControlAt("popPos", "run")
        /\ UNCHANGED <<pos, popped>>
     \/ /\ pos # <<>>
        /\ ControlAt("popPos", "popVel")
        /\ popped' = Head(pos)
        /\ pos' = Tail(pos)
  /\ UNCHANGED <<rl, sharedVars, mutex, policyVars, actions, output, vel, tau, rlLocals,
                 applied, raced>>

(* ... and then a velocity: with none there, the position is lost.         *)
PopVel ==
  /\ ControlAt("popVel", "run")
  /\ IF vel = <<>>
     THEN UNCHANGED <<vel, applied>>
     ELSE applied' = <<popped, Head(vel)>> /\ vel' = Tail(vel)
  /\ UNCHANGED <<rl, sharedVars, mutex, policyVars, actions, output, pos, tau, rlLocals,
                 popped, raced>>

(* A request to leave, or an exception in Run, followed by Exit.           *)
Leave ==
  /\ ControlAt("run", "out")
  /\ rlInitDone' = FALSE
  /\ UNCHANGED <<rl, simRunning, episode, mutex, policyVars, actions, output, queueVars,
                 rlLocals, controlVars>>

(* Enter or RB_X at the end of a tick.                                     *)
ToggleSimulation ==
  /\ Alive
  /\ control \in {"out", "run"}
  /\ simRunning' = ~simRunning
  /\ UNCHANGED <<control, rl, rlInitDone, episode, mutex, policyVars, actions, output,
                 queueVars, rlLocals, controlVars>>

Control ==
  \/ Enter \/ LockModel \/ InitSucceeds \/ (\E f \in Failures : InitFails(f))
  \/ DrainPos \/ DrainVel \/ DrainTau
  \/ Hold \/ Engage \/ PopPos \/ PopVel \/ Leave
-----------------------------------------------------------------------------
(* RL thread: one RunModel.                                                *)

Admit ==
  /\ RLAt("idle", "admitted")
  /\ rlInitDone /\ simRunning
  /\ Len(pos) < QueueCap /\ Len(vel) < QueueCap
  /\ UNCHANGED <<control, sharedVars, mutex, policyVars, actions, output, queueVars,
                 rlLocals, controlVars>>

(* episode_length_buf += 1 is a read and a write, with no lock.            *)
ReadEpisode ==
  /\ RLAt("admitted", "counting")
  /\ counted' = episode
  /\ UNCHANGED <<control, sharedVars, mutex, policyVars, actions, output, queueVars,
                 result, controlVars>>

WriteEpisode ==
  /\ RLAt("counting", "forward?")
  /\ episode' = IF counted < 2 THEN counted + 1 ELSE 2
  /\ UNCHANGED <<control, rlInitDone, simRunning, mutex, policyVars, actions, output,
                 queueVars, rlLocals, controlVars>>

ForwardUnlocked ==  \* mutant: Forward does not check owns_lock()
  /\ RLAt("forward?", "forward")
  /\ mutex' = "rl"
  /\ UNCHANGED <<control, sharedVars, policyVars, actions, output, queueVars, rlLocals,
                 controlVars>>

(* Forward: try_lock succeeds ...                                          *)
ForwardLocked ==
  /\ RLAt("forward?", "forward")
  /\ mutex = "free"
  /\ mutex' = "rl"
  /\ UNCHANGED <<control, sharedVars, policyVars, actions, output, queueVars, rlLocals,
                 controlVars>>

(* ... or InitRL holds the mutex, and the previous actions are returned.   *)
ForwardBusy ==
  /\ RLAt("forward?", "compute")
  /\ mutex # "free"
  /\ result' = actions
  /\ UNCHANGED <<control, sharedVars, mutex, policyVars, actions, output, queueVars,
                 counted, controlVars>>

AfterInsertUnbounded(frames) == frames - 1  \* mutant: inserts past a full history

(* Zero frames left in the history after one more insert.                  *)
AfterInsert(frames) == IF frames = 0 THEN 0 ELSE frames - 1

(* Forward in mode obs_history: warm start on the first step of an         *)
(* episode, then insert, then inference.                                   *)
ForwardInfers ==
  /\ RLAt("forward", "compute")
  /\ model \in {"valid", "invalid"}
  /\ padding' = IF WarmStart /\ episode <= 1 THEN 0 ELSE AfterInsert(padding)
  /\ result' = epoch
  /\ mutex' = "free"
  /\ UNCHANGED <<control, sharedVars, epoch, model, actions, output, queueVars, counted,
                 controlVars>>

(* Inference on a null model, or one that rejects its input, ends the      *)
(* process: nothing catches it in the RL thread.                           *)
ForwardCrashes ==
  /\ RLAt("forward", "crashed")
  /\ model # "valid"
  /\ UNCHANGED <<control, sharedVars, mutex, policyVars, actions, output, queueVars,
                 rlLocals, controlVars>>

ComputeOutput ==
  /\ RLAt("compute", "pushPos")
  /\ actions' = result
  /\ output' = result
  /\ UNCHANGED <<control, sharedVars, mutex, policyVars, queueVars, rlLocals, controlVars>>

PushPos ==
  /\ RLAt("pushPos", "pushVel")
  /\ pos' = Append(pos, output)
  /\ UNCHANGED <<control, sharedVars, mutex, policyVars, actions, output, vel, tau,
                 rlLocals, controlVars>>

PushVelForgotten ==  \* mutant: the velocity queue is not filled
  /\ RLAt("pushVel", "pushTau")
  /\ UNCHANGED <<control, sharedVars, mutex, policyVars, actions, output, queueVars,
                 rlLocals, controlVars>>

PushVelTwice ==  \* mutant: a second velocity for every position
  /\ RLAt("pushVel", "pushTau")
  /\ vel' = Append(Append(vel, output), output)
  /\ UNCHANGED <<control, sharedVars, mutex, policyVars, actions, output, pos, tau,
                 rlLocals, controlVars>>

PushVel ==
  /\ RLAt("pushVel", "pushTau")
  /\ vel' = Append(vel, output)
  /\ UNCHANGED <<control, sharedVars, mutex, policyVars, actions, output, pos, tau,
                 rlLocals, controlVars>>

(* Nothing pops the torque queue but the drains.                           *)
PushTau ==
  /\ RLAt("pushTau", "idle")
  /\ tau' = IF tau < TauCap THEN tau + 1 ELSE tau
  /\ UNCHANGED <<control, sharedVars, mutex, policyVars, actions, output, pos, vel,
                 rlLocals, controlVars>>

RunModel ==
  \/ Admit \/ ReadEpisode \/ WriteEpisode
  \/ ForwardLocked \/ ForwardBusy \/ ForwardInfers \/ ForwardCrashes
  \/ ComputeOutput \/ PushPos \/ PushVel \/ PushTau

Crashed == ~Alive /\ UNCHANGED vars
-----------------------------------------------------------------------------
Init ==
  /\ control = "out" /\ rl = "idle"
  /\ rlInitDone = FALSE /\ simRunning = TRUE /\ episode = 0
  /\ mutex = "free"
  /\ epoch = 0 /\ model = "none" /\ padding = HistoryLength
  /\ actions = 0 /\ output = 0
  /\ pos = <<>> /\ vel = <<>> /\ tau = 0
  /\ counted = 0 /\ result = 0
  /\ popped = 0 /\ applied = <<0, 0>> /\ raced = FALSE

Next == Control \/ ToggleSimulation \/ RunModel \/ Crashed

Spec == Init /\ [][Next]_vars

(* Both loops are periodic threads of their own.                           *)
FairSpec == Spec /\ WF_vars(Control) /\ WF_vars(RunModel)
-----------------------------------------------------------------------------
(* Properties.                                                             *)

TypeOK ==
  /\ control \in ControlPoints /\ rl \in RLPoints
  /\ rlInitDone \in BOOLEAN /\ simRunning \in BOOLEAN
  /\ episode \in 0..2 /\ counted \in 0..2
  /\ mutex \in {"free", "control", "rl"}
  /\ epoch \in Epochs /\ model \in {"none", "invalid", "valid"}
  /\ padding \in 0..HistoryLength
  /\ actions \in Epochs /\ output \in Epochs /\ result \in Epochs /\ popped \in Epochs
  /\ pos \in Seq(Epochs) /\ vel \in Seq(Epochs) /\ tau \in 0..TauCap
  /\ applied \in Epochs \X Epochs /\ raced \in BOOLEAN

(* model_mutex does its work: InitRL never replaces the model or its       *)
(* history while Forward is using them.                                    *)
ModelExclusive == ~(rl = "forward" /\ control = "init")

Mid == IF rl = "pushVel" THEN 1 ELSE 0
Popping == IF control = "popVel" THEN 1 ELSE 0

(* Positions and velocities are pushed, drained and popped by different    *)
(* steps, and a position is lost when its velocity is not there yet.  The  *)
(* queues still never drift apart: outside a drain, what RLControl pairs   *)
(* is at most one run apart, however often it loses a position.            *)
QueueSkew ==
  control # "drainVel" =>
    /\ Len(vel) + Mid <= Len(pos) + Popping + 1
    /\ Len(pos) + Popping <= Len(vel) + Mid + 1

Stale(queue) == {i \in DOMAIN queue : queue[i] # epoch}

(* An RL run in flight across Enter may push an action of the previous     *)
(* policy after the drain meant to discard it, but never more than one.    *)
StaleBounded ==
  control \in {"run", "popPos", "popVel"} =>
    \A i, j \in Stale(pos) : i = j

(* policy_history/config.yaml, "warm_start_history: true": no inference of *)
(* the current policy sees the zero padding of an unfilled history.  The   *)
(* counter this hangs on is shared with no lock; only a run in flight      *)
(* across Enter can spoil it, and only until the next Enter.               *)
HistoryWarm ==
  [][rl = "forward" /\ rl' = "compute" /\ WarmStart /\ ~raced => padding' = 0]_vars

(* A policy that stays engaged in a running simulation keeps moving the    *)
(* joints: losing positions to the race above never becomes permanent.     *)
EngagedApplies ==
  <>[](rlInitDone /\ simRunning) => []<>((control = "popVel" /\ vel # <<>>) \/ ~Alive)

(* InitRL, "Failed to load model from" and the contract check: a model     *)
(* InitRL rejects is not used, the robot goes to Passive instead.          *)
RejectedModelUnused == rl = "forward" => model = "valid"

=============================================================================
