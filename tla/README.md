# TLA+ models of rl_sar for the Unitree Go2

This directory models the control program of the repository (`src/rl_sar`, a
C++ robot controller that runs a reinforcement-learning policy on a simulated
or real Go2) in TLA+, checks the models with TLC and proves their main
properties with TLAPS. Paths below are relative to the repository root.

## 1. The system

The program is one process, built in three variants: for Gazebo, for MuJoCo
and for the real robot. Each has threads of its own (`LoopFunc`, a function
called once per period) and callbacks of its middleware; they share the members
of class `RL` with almost no locking.

    keyboard thread ──SetKeyboard──┐                         policy (onnx / pt)
    joystick, remote ─SetGamepad───┤                              │
                                   v                              v
    control thread (loop_control): GetState ─ FSM::Run ─ ... ─ ClearInput ─ SetCommand
            ^                          │  InitRL (model_mutex)        │
            │ pos/vel queues           v                              v
            └───────────── RL thread (loop_rl): RunModel ─ Forward   motors

    MuJoCo node:  main/render thread ── mj::Simulate ── physics thread  (sim->mtx)
    Gazebo node:  motors = joint controller group (ros2_control), faults, contacts

| component | state | operations | interaction | what is hard |
|---|---|---|---|---|
| FSM engine `library/core/fsm/fsm.hpp` | current, next, previous state, mode | `Run`, `RequestStateChange`, `SetInitialState` | called once per control tick | a state change takes a tick of its own; requests made inside `Enter` and `Run` |
| Go2 states `fsm_robot/fsm_go2.hpp` | interpolation percents, saved poses | `Enter`, `Run`, `CheckChange`, `Exit` of Passive, GetUp, GetDown, RLLocomotion | writes the motor command; RLLocomotion calls `InitRL`, drains the queues, raises `rl_init_done` | exceptions half-way; members that outlive a state; joint orders that change under saved vectors |
| RL core `library/core/rl_sdk` | parameters, observation, queues, gains | `StateController`, `InitRL`, `ReadYaml`, `ValidatePolicyModelContract`, `ComputeObservation`, `ComputeOutput`, `Interpolate`, `RLControl`, `KeyboardInterface` | base class of the three nodes | parameters merged while another thread reads them; partial failure of `InitRL`; a validation that runs other code than the run it validates |
| Action pipeline (`RunModel`, `Forward`, `RLControl`) | `rl_init_done`, `episode_length_buf`, `model`, history, three queues | pushes by the RL thread, pops and drains by the control thread | queues, `model_mutex`, unlocked members | any interleaving of two threads; a run in flight across a policy change |
| Operator input (`struct Control`) | current and last key, button, command, navigation mode | `SetKeyboard`, `SetGamepad`, `ClearInput` | written by three threads | non-atomic read-modify-write; keys arriving in mid tick |
| Loops `library/core/loop/loop.hpp` | `_running`, `_cv` | `start`, `loop`, `shutdown` | constructors and destructors of the nodes | detached threads, lost wakeups |
| Observation history `library/core/observation_buffer` | the last observations | constructor, `reset`, `insert`, `get_obs_vec` | used by `Forward` | index direction and layout: a mistake permutes the policy input silently |
| Inference runtime `library/core/inference_runtime` | model, input shapes | `load`, `forward` of both backends, type detection | called by `InitRL` and `Forward` | dynamic dimensions; which shapes are checked and when |
| Motion loader `library/core/motion_loader` | frames, phase, initial heading | constructor, `Update`, `Reset`, readers | observation terms of motion policies | both ends of the motion; heading alignment |
| Vector math `library/core/vector_math` | none | element-wise operators, `clamp`, quaternions | observations and outputs | vectors of unequal length; the order of conjugation |
| Gazebo node `src/rl_sim.cpp` | fault switch and blend, gain estimates, foot contacts, debug CSV, simulation flag | callbacks, `RobotControl`, `RunModel`, `Forward` | ROS 2 topics and services | callbacks racing the loops; three contact sources; a fault coming and going while the blend moves |
| Joint controllers `robot_joint_controller` | last command, real-time buffers, fault alpha, joint limits | lifecycle, `update`, callbacks | ros2_control | real-time update against subscription callbacks; stale commands after re-activation; limits that arrive late |
| Real robot node `src/rl_real_go2.cpp` | unitree messages, wireless remote, low command | start-up, `RobotControl`, `GetState`, `SetCommand`, `RunModel`, `Forward` | DDS | a remote overwritten while it is read; motors that no policy maps |
| MuJoCo node `src/rl_sim_mujoco.cpp`, `library/thirdparty/mujoco_simulate/mujoco_utils.hpp` | physics, model and data, joystick | constructor, destructor, signal handler, `RobotControl`, `PhysicsLoop`, `GetSysJoystick` | in process with the viewer | a model replaced and freed by one of three threads |
| Viewer `library/thirdparty/mujoco_simulate` | load requests, run flag, history of states, cameras, perturbation | `Load`, `LoadOnRenderThread`, `Sync`, `UiEvent`, `RenderLoop`, window adapter | physics thread, node | three-stage hand-over of a model, ring of states under a scrubber, drags that are broken off |
| Quadloco node `scripts/run_quadloco_ros2_policy.py` | history, arming | timers, callbacks | ROS 2 topics | freshness of messages, arming order |
| Fault training `isaaclab_fault_snapshot` | fault schedule | actuator model | offline | schedule boundaries |

`PROJECT.json` lists each component with its status, and the hazards at the
line where they bite.

## 2. The modules

### State machine, pipeline, input, loops

**`RobotModes`** is the abstract promise to whoever drives the robot: four
modes, whether a stand-up has been completed since GetUp was entered, whether
the policy thread is let loose. The policy mode can be entered only from a
completed stand-up.

**`Go2Fsm`** is the machine itself. One `Tick` is one `RobotControl()`: the
variables `current, next, previous, mode` are those of `FSM`; `*Tick` actions
are `Mode::NORMAL` (`Run`, then `CheckChange`), `Enter*` actions are
`Mode::CHANGE` (`Exit`, `Enter`, `Run`, no `CheckChange`), and every one of
them ends with `ClearInput`. `EnterRLFails` is `InitRL` throwing at any of its
steps, `RLTickThrows` an exception in `RLLocomotion::Run`. Between ticks
`SetKeyboard` and `SetGamepad` change the input. A percent is counted in
frames, a joint vector is the joint order its entries are in, a motor command
is its writer and the joint orders mixed in it. `Interpolate` may jump to its
end when the two poses are near.

**`PolicyPipeline`** splits the same two threads into the steps another thread
can see: each drain, each pop, each push, the read and the write of
`episode_length_buf += 1`, the try-lock. An action vector is the epoch (the
successful `InitRL`) of the policy that computed it, the history the number of
zero frames left in it. The control thread's part is the skeleton of
`RLLocomotion`: what it does to the pipeline, not how the machine decides.

**`ControlInput`** splits the tick where the keyboard thread and the joystick
callback can get in: after `fsm.Run`, between the tests of `StateController`
and `RobotControl`, inside `SetKeyboard`, `ClearInput` and a chord. The command
has one axis, any of x, y and yaw: they differ in nothing but the bound of their
keys, which is the full range of the stick for x and y and half of it for yaw
(`Axes` may exceed `MaxCommand`).

**`LoopFunc`** models all loops of a node, started in turn by the constructor
and shut down in turn by the destructor, with the mutex, the condition
variable, spurious wakeups and timeouts. **`PeriodicTask`** is its abstract
specification. **`MCThreads`** composes input and loops and has the three
loops of the Gazebo and real nodes.

### One inference

**`ObservationBuffer`** is the history class; a number is known by the
observation and component it came from, so a misplaced number is visible.

**`PolicyContract`** follows a policy from its YAML and its network through
`InitRL` (dimensions, type of the model, shapes stored at load time, the
validation run) into the `Forward` of each of the three nodes, which builds its
input by code of its own. A tensor is its shape and the numbers of the frames in
it; the network accepts the shapes it declares, a dynamic dimension being
anything for ONNX Runtime but 1 for the code that reads the declared shape.

**`VectorMath`** holds the operators of `vector_math.hpp` that the program
calls, over exact integers: element-wise operators as long as the shorter
argument, `clamp` with its rule for missing bounds, quaternions (unnormalised,
so that no root is taken). **`PolicyOutput`** is `ComputeOutput` on it, with the
gain damage. For a joint behind the end of a short list of limits the code takes
the first entry and the comment of `clamp` promises the last, so the safety
property asks only for a limit of the list there (`LimitsOf`), and the promise is
a property of its own, `LastLimitReused`, which does not hold. **`Orientation`**
has the gravity and angular-velocity terms, the two IMU frames and the heading
alignment of `MotionLoader::Reset`.

**`MotionLoader`** reads a file of frames (short rows and empty files included),
advances the phase, interpolates and resets. Time is counted in ticks of a
fraction of a frame, positions as multiples of that fraction.

**`MCPolicyCore`** composes these five as `part`s: no operation of the code
relates their states to each other, so one part moves in each behaviour and the
others rest. The same holds of `MCThreads`, `MCGazebo` and `MCOperator`:
composing them this way loses no interleaving because they share no variable.
**`MCPolicyContract`** holds the instances of the contract alone.

### The Gazebo node

**`FaultSwitch`** is the fault switch, between the callback that judges the
joints, the RL thread that follows the verdict one blend step per run, and a
control thread that leaves RLLocomotion and comes back with another policy.
`fault_blend` is counted in steps of `dt / blend_time` (exact steps: the float
sum may need one run more or less). A policy is known by how it fits the
recovery model, which is loaded once, before any policy, and is checked against
none of them: the model has the policy whose outputs differ in number (ignored)
and the one whose input the recovery model rejects (the process ends). A policy
in mode `obs_history` is never mixed with the recovery policy, though its
command is zeroed and the log announces the blend.

**`PolicyParams`** reads the three layers of parameters (`base.yaml`, the
profile, the policy) step by step under `InitRL`, with `GainAlphaCallback`
reading the joint mapping before and writing the gains after any of them.
**`FootContacts`** has the three sources of contacts and their windows.
**`DebugCsv`** is the debug CSV of both nodes: opened by the first row that is
due, with the parameters of the policy active then, one row per stride,
flushed, closed by the destructor while a loop may be half-way through a row. **`JointGroup`** is `RobotJointControllerGroup`:
configuration, activation, deactivation, the command and fault-alpha buffers,
the limits that arrive in answer to a request, and an `update` that handles one
joint at a time. **`MCGazebo`** composes the five.

### The MuJoCo node and the operator's devices

**`MujocoNode`** has the three threads of that node: main (constructor, then
`RenderLoop`, then destructor), physics (load, offer, await, install, run,
free) and the control tick, with the one mutex, the stages of `loadrequest`,
file drops, the reload key, failed loads and exits (window closed, signal). A
model is a number; `freed` are those whose memory is gone.

**`ViewerHistory`** has `run`, `simulation_running`, the ring of recorded
states and the scrubber, against everything else that moves the data or switches
the run flag: space, the Pause/Run radio button (bound to `run`, so that it
resumes without resetting the scrubber), the reset and keyframe buttons, the
joint sliders and the mouse drag that `Sync` writes into the data, and R and
Enter, which the control tick handles behind the viewer's back. `log` is a ghost
variable: the states in the order they were recorded. **`ViewerInput`** has
cameras, selection, drags with any of the three buttons (Alt swaps left and
right) and perturbation through the window adapter, which asks for the buttons
held and not for the one of the event. **`SysJoystick`** is
`GetSysJoystick` with the event queue of the device, **`RealRobot`** the
start-up of the real node (the sport service released), its wireless remote
read key by key while the subscriber overwrites it, and `SetCommand`. Its command
too is any one axis: a stick may lie beyond the bound of the axis' keys, as the
yaw stick does.
**`MCOperator`** composes the four.

Eight modules hold the theorems, each extending what it is about:
**`Go2Fsm_proofs`**, **`PolicyPipeline_proofs`**, **`ControlInput_proofs`**,
**`LoopFunc_proofs`**, **`PolicyCore_proofs`** (the parts of `MCPolicyCore`),
**`Robots_proofs`** (the parts of `MCGazebo`, and `RealRobot`),
**`Mujoco_proofs`** (`MujocoNode`, `ViewerHistory`, `ViewerInput`,
`SysJoystick`) and **`SequenceLemmas`**, the lemmas about sequences, folds and
division that the others share. Definitions marked `mutant` are plausible bugs
used to test the properties and are part of no specification.

## 3. What the runs check

Where the last column names others, a property is their conjunction; the module
defines and explains them one by one.

| run | checks | where the property is a conjunction |
|---|---|---|
| `go2_fsm` | `TypeOK`, `PolicyGuarded`, `CommandOwner`, `JointOrderKept`, `PolicyWithdrawn`, refinement of `RobotModes`, `InterpolationsEnd`, `FailedInitReachesPassive`: the machine is safe and its motions end, under any input and any failure of `InitRL` and `Run` | `InterpolationsEnd`: `GetDownEnds`, `StandUpEnds`, `TransitionEnds` |
| `pipeline` | `TypeOK`, `ModelExclusive`, `QueueSkew`, `StaleBounded`, `HistoryWarm`, `EngagedApplies`: the unlocked hand-over loses at most isolated actions, leaks at most one stale action into a new policy, and keeps going | |
| `threads` | `EachPressActsOnce`, `KeysAreCleared`: a key or button acts at most once unless keys overrun each other, and none sticks; `OneLateCall`, `ThreadEnds`, refinement of `PeriodicTask`: shutdown loses no wakeup, at most one call after it | |
| `policy_core` | `NewestFirst`, `HistoryLayout`, `ContractKept`, `RunsTheContract`, `OutputSafe`, `OrientationSafe`, `MotionFollowed`: the numbers that reach the network and the motors are the right ones, in the right order and within their limits | `HistoryLayout`: types, `LayoutAsTrained`; `ContractKept`: types, `ValidatedPolicyRuns`, `HistoryIsOfThisVisit`; `OutputSafe`: `OutputWithinLimits`, `TorqueMeetsTargets`; `OrientationSafe`: `FramesAgree`, `MotionStartsAligned`; `MotionFollowed`: `FramesExist`, `LagUnderOneFrame`, `ReferenceIsContinuous` |
| `gazebo` | `HandBackBounded`, `RecoveryAtRest`, `FaultAnswered`, `ParamsSafe`, `ContactsSafe`, `CsvSafe`, `GroupSafe`: reading the verdict of the fault monitor twice is harmless, damage hits the joint it names, contacts are never wrong for long, rows reach the disk, an activation starts without old commands | `FaultAnswered`: `FaultTakesOver`, `FaultClears`; `ParamsSafe`: types, `LayersResolved`, `DamageOnItsJoint`; `ContactsSafe`: types, `ContactsCatchUp`; `CsvSafe`: types, `RowsReachDisk`; `GroupSafe`: types, `ActivationIsQuiet`, `OneCommandPerUpdate`, `OneFaultVector`, `LimitsOfOwnJoint` |
| `mujoco_threads` | `HandoverSafe`, `LoadAnswered`, `ExitCompletes`: nobody reaches a freed model through the viewer, loads and exits complete, but for the states named below | `HandoverSafe`: types, `ViewerModelLive`, `OfferIsAwaited`, `LabelMeansLoading` |
| `operator` | `ViewerHistorySafe`, `ViewerInputSafe`, `JoystickObeyed`, `RealRobotSafe`: what the operator did is what is shown and what the state machine sees | `ViewerHistorySafe`: types, `ScrubShowsHistory`, `PolicyRunsWithPhysics`; `ViewerInputSafe`: types, `MenuShowsCamera`, `CameraExists`, `ForceOnlyWhileDragging`; `JoystickObeyed`: types, `ChordHidesButton`, `StickNeverSticks`, `HeldPressSeen`; `RealRobotSafe`: types, `ServiceLetGo`, `PadIsOfThisTick`, `KeyboardNeverAddsUp`, `NoForgottenMotor` |

Some properties carry an exception in their text, because the code does: those
are the limits of what it keeps, and each is stated in the comment above the
property. `ExitCompletes` excepts two states that never end: the constructor
that polls for a model that could not be loaded, and `UiEvent` spinning on a
second dropped file while it holds the mutex the physics thread needs to take
the first. `RowsReachDisk` excepts strides that share a divisor with 25.
`ContactsCatchUp` excepts a single foot whose sensor fell silent. `DamageOnItsJoint`
excepts a gain message that is handled while `InitRL` runs. `LimitsOfOwnJoint`
excepts a controller configured anew under other joint names.
`OutputWithinLimits` lets a joint behind the end of a list of limits have any
entry of it.

`ScrubShowsHistory` holds until, since the scrubber loaded the state, the data was
moved under it (keyframe button, joint slider, a body dragged while paused, R) or
the simulation ran on without resetting the scrubber (Enter, the radio button):
the state shown is then not the one recorded there. `PolicyRunsWithPhysics`
holds from one Enter to the next until the viewer, a divergence or a load warning
switches the physics alone. `CameraExists` excepts a file loaded again with fewer
cameras, `ForceOnlyWhileDragging` a drag that a resize or a press over a panel
broke off before its release. `HeldPressSeen` asks nothing for a press shorter
than a poll. `ServiceLetGo` excepts a `CheckMode` that failed. A chord of the
remote that is pieced together from two messages is excepted in
`PadIsOfThisTick`, which still asks that each of its keys was held in this tick.
`KeyboardNeverAddsUp` excepts the cut: Q or E at a yaw stick past the middle of
its range brings the command down to the 0.5 of the keyboard, by more than a
step (`rl_sdk.cpp:72`, `rl_sdk.cpp:76`).

Five runs end in a counterexample on purpose. Each states what a document, a
message or a comment of the repository says, and the code does otherwise:

* `go2_fsm_joint_order`: after a policy with another joint order was loaded,
  `GetUp` interpolates between vectors of two orders.
* `pipeline_rejected`: a run in flight across `Enter` infers with a model that
  `InitRL` has just rejected, or with none.
* `mujoco_control_model`: `RobotControl` locks the mutex "to prevent race
  conditions" and then uses the model and data the constructor copied, which a
  reload has freed.
* `policy_limits`: with fewer torque limits than joints, the joints behind the
  end of the list get its first limit, though `vector_math.hpp:105` says that
  `clamp` reuses the last.
* `contract_real`: a policy with the documented signature `forward(obs,
  obs_hist)` passes the validation on the real robot, whose `Forward` passes one
  input.

Further divergences met while modelling, visible in the modules but without a
run of their own:

* P pressed just before the tick that changes state is cleared unseen
  (`README.md:175` says it goes to Passive).
* Getting up from GetDown or RLLocomotion overwrites the pose that getting down
  returns to (`docker/README.md:91`).
* Space typed before W is cleared leaves W as the permanent key
  (`README.md:179`, `rl_sdk.hpp:147`).
* "Loop end" is printed (`loop.hpp:60`) while the detached thread still runs.

### Bounds

`Go2Fsm` has no unbounded variable: two interpolation frames (one for a rise)
are enough to be at the start, in the middle and at the end of each motion.
`PolicyPipeline`: `MaxEpoch = 3` policies and `QueueCap = 3` runs ahead of the
control thread allow two policy changes with a run in flight at each and a
backlog to drain; `TauCap` only cuts off the torque queue, which nothing pops.
`ControlInput`: four presses or button calls, so one whole chord and a key, or
four keys; `MaxCommand = 1` lets every key step hit the clamp, and the axis value
2 lies beyond it. `LoopFunc` has three loops; `late` is bounded by `OneLateCall`.

`MCPolicyCore`: two environments, three steps and five observations (more than a
full history), terms of widths 2, 1 and 3; three runs of a policy, so the
history of two or three is warm and then moves; observation lists that are
known, of another width and unknown, inputs static, dynamic and doubled; three
joints, scales for each of them or a single one, limits of one entry and of two
different ones, so that the last joint tells first from last; quaternions with
components -1, 0, 1 and all compositions of three quarter turns, which separate
every order of multiplication; motions that are empty, malformed, of one frame,
of two, repeating and jumping, with `TicksPerFrame = 3` so that a tick falls on,
between and past the frames.

`MCGazebo`: three blend steps are both ends and a middle to turn round in; three
policies, one with a profile, one that cannot be loaded, with three joint
orders; two feet, and ages up to twice the window; strides 0 to 3 against
`FlushEvery = 4` (the code's 25) so that some share a divisor and some do not;
two joints with a name unknown to the description, two commands and four
lifecycle switches: activated, left, activated again.

`MujocoNode`: three models, two drops and two reloads are enough for a drop
during a load, a reload during a drop and a second drop while the first is
pending. `MCOperator`: a ring of three states and three steps fill and wrap it;
two bodies, models with two and no cameras; two events in the joystick's queue,
so that a press and its release, or both halves of a chord, arrive together; a
stick at the centre, one way and twice as far the other, where the keys reach
half of that; and a message with one motor more than any mapping has.

### Fairness and stopping

`Go2Fsm` assumes weak fairness of `Tick` only: `loop_control` calls
`RobotControl` periodically. The operator is never assumed to press anything.
`FaultSwitch` (and `GazeboSpec`) assumes weak fairness of the RL thread, a
periodic loop; nothing is assumed of the callback or of the operator.
`PolicyPipeline` assumes weak fairness of each of its two threads.
`ControlInput` assumes it of the tick and of a `SetKeyboard` in progress.
`LoopFunc` assumes it of the owner and of every step of a thread but not of
`WakeUp`: no wait is ever sure to time out, so a lost notification would show.
`MujocoNode` assumes weak fairness of the steps of each thread that need no
mutex and strong fairness of those that take `sim->mtx`: every holder sleeps,
draws or waits with it free between two tenures, and a `std::mutex` under such
use lets every waiter in eventually. Nothing is assumed of drops, reloads,
exits or of a load succeeding.

`ThreadsSpec` and `GazeboSpec` give each part the fairness of its own
specification.

Deadlock is checked for `Go2Fsm` and `PolicyPipeline`. It is not checked for
`MCThreads` and `MujocoNode`, where the program exits, nor for the other composed
runs and the contract, where the bounds (observations, events, loads) end every
behaviour.

## 4. What is proved

Every safety invariant and every action property that a passing run checks is
a theorem of its specification, as are both refinements. The theorems hold for
every value of the constants that satisfies the named assumptions. Most of these
say only of which set a constant is (frame counts are positive, loops are
distinct, joint orders map joints to joints, sticks and axes are integers: they
may lie beyond the bound of the keys). Three say more:

* `PolicyOutput`: no wheel lies beyond the scales (the code would write out of
  range, which is undefined), and there are torque limits (without any, `clamp`
  leaves the torque as it is and there is nothing to keep within).
* `PolicyContract`: `default_dof_pos` is no longer than the robot has joints.
  With a longer one the observation is wider at run time than when it was
  validated; all shipped configurations agree in length.
* `Orientation`: the torsos of a motion's start head along an axis. The model
  has exact integers, and the half of any other heading has no quaternion
  among them, up to a factor. The robot's orientation and the world vector
  (`FramesAgree`) are not restricted.

### The machine, the pipeline, the input and the loops

* **`Go2Fsm_proofs`**: `TypeCorrect`, `PolicySafe`, `CommandSafe`,
  `JointOrderIsKept`, `PolicyNeverWithdrawnSilently`, `RefinesRobotModes`. The
  checked invariants are not inductive by themselves; `IInv` adds
  `ChangeAllowed`, which says what a pending change may be: only one allowed by
  the `CheckChange` of the state being left, with the stand-up completed where it
  has to be. That carries the stand-up over the tick in which the machine is
  between two states. The refinement maps each tick to a step or a stutter of
  `RobotModes`.
* **`PolicyPipeline_proofs`**: `TypeCorrect`, `ModelIsExclusive`,
  `QueuesStayTogether`, `WarmStartKept`, `StaleIsBounded`. `QueueSkew` needs
  `Draining`: `rl_init_done` is down while the queues are drained, so the one run
  in flight can add at most one position between the drains of the two queues.
  `WarmStartKept` needs `LockUsed`, `QuietInit` and `FirstRun`: an `Enter` that
  finds no run in flight finds none until the policy is engaged, and while there
  is padding, the run in flight is the first of its episode. `StaleIsBounded`
  needs `SInv`: after the drain, a stale action is in the queue or still to be
  pushed, not both, because only `InitRL`, which is over, makes `Forward` return
  earlier actions.
* **`ControlInput_proofs`**: `TypeCorrect`, `PressesActOnce`. `effects <=
  presses` is not inductive: `IInv` adds to the effects those a key or a button
  may still have (typed, waiting for its step of the tick, or still to be set by
  the callback), and `NothingRestored`, that without an overrun `last_keyboard`
  holds no key for `ClearInput` to bring back.
* **`LoopFunc_proofs`**: `TypeCorrect`, `StopsInTime`, `RefinesPeriodicTask`, for
  any number of loops. A late call comes from a thread that tested `_running`
  before it fell, which the invariant ties to the thread's step.

### `PolicyCore_proofs`

* `HistoryIsNewestFirst`, `HistoryIsAsTrained`: for any environments, history and
  terms, and any choice of past steps in any order, `get_obs_vec` puts each
  number where training had it, in both priorities. Where a number lands is a
  sum of the widths before it, so the proof rests on what folds and flattening
  compute, below.
* `ContractIsSafe`, `ContractIsKept`, `SimRunsTheContract`: `ContractInv` adds
  `ReadyToRun`: a policy that runs has a history as long as its oldest step
  needs, and its network was tried at the width the observation will have. What
  `Forward` builds is then shown to have the shapes that were tried.
* `OutputIsSafe`: from lemmas about the element-wise operators and `clamp` of
  `VectorMath` (length, entries, the bound a clamped entry keeps, which is the
  joint's own or one of the list).
* `MotionIsFollowed`: `MotionInv` adds `PlaceOfTime`: index and blend are the
  quotient and the remainder of the progress times the last frame. The lag
  and the bound on a tick follow by arithmetic on products; between two
  frames the reference moves by shares of at most two steps of the recording.
* `OrientationIsSafe`: the identities of `FramesAgree` are polynomial in the
  components; `MotionStartsAligned` goes by the four headings, the products being
  kept as names for the solver. The invariant is only that the alignment is that
  of the two torsos kept with it.

### `Robots_proofs`

* `TypeCorrect`, `RecoveryOnlyAtRest`, `HandsBackInTime` of the fault switch, for
  any number of blend steps. `RestInv`: between the second reading of the
  verdict and the inference, a positive blend means a zero command, because the
  blend alone asks for it.
* `ParamsAreSafe`: `ParamsInv` says which layers lie over each other at each step
  of `InitRL`, and for which message the mapped gains stand.
* `ContactsAreSafe`: `ContactsInv` bounds how long a foot has been wrong by how
  long nothing was heard, within each tick by which callbacks are still due.
* `CsvIsSafe`: that some row among any `FlushEvery` flushes, if stride and
  interval have no common divisor, is Bezout's identity: a least positive
  combination of the two exists and divides both. `CountInv` counts calls and
  rows without the wrap of the counter and says that none of the unflushed rows
  was one that flushes.
* `JointGroupIsSafe`: `FreshSinceActivation` says which commands and alphas a
  buffer may hold since the activation; `OneCommand` that the joints an update is
  done with obey what all will obey; `LimitsInPlace` that the first answer put
  the limits in their places and later ones only append.
* `RealRobotIsSafe`: `RemoteRead` says, in the middle of `GetState`, which
  statements are left and that the last one whose keys are held has written the
  pad. The command is bounded on every axis: the stick may be any integer.

### `Mujoco_proofs`

* `HandoverIsSafe`, for any number of loads, drops and reloads: `HandoverInv` adds
  `RequestMatches` (at which step of each thread `loadrequest` may have which
  value, and which model it stands for) and `FreedInOrder` (models are freed in
  the order of loading, each after the render thread has taken the next one).
* `ViewerHistoryIsSafe`, for any size of the ring: `RingHoldsLog` (the entry k
  before the cursor is the k-th newest state, through every wrap) and
  `ScrubPending` (between the event that moves the scrubber and the frame's
  `Sync`, the state shown is still to be loaded, whatever slider or button is
  pending with it); `FlagsInv` for `run` and `simulation_running`.
* `ViewerInputIsSafe`: `AskedWhileDragging` covers a perturbation that was asked
  for and waits for `Sync`.
* `JoystickIsObeyed`, for any capacity of the device queue: `PollFindsHeld` says
  what a poll would find if it came now; a lemma says what one more event changes
  of it.

### How the proofs deal with data

The library's induction theorems take a predicate, which the installed provers
cannot instantiate. `InductionOnSet` in `SequenceLemmas` takes a set instead,
and is proved from the well-foundedness of the naturals. From it follow what
`FoldLeft` and `FlattenSeq` compute (`SumOfSequence`, `FlattenedPlaces`, ...), so
the models fold with `FoldLeft` throughout. Division and remainders are handled
by naming quotient and remainder (`Division`, `PlaceIsUnique`).

### Only model-checked

The liveness properties, for which TLAPS has no rules: `InterpolationsEnd`,
`FailedInitReachesPassive`, `EngagedApplies`, `KeysAreCleared`, `ThreadEnds`,
`FaultAnswered`, `LoadAnswered`, `ExitCompletes`. The five violations are
counterexamples and need no proof.

## 5. What is not covered

### Hazards without a property

The code has further weak spots for which neither a document nor the code
itself makes a promise that could be checked. The models contain the behaviour
of most of them:

* nothing pops the torque queue; it grows with every run;
* the recovery policy is not checked against the policy it is mixed into;
* a gain message handled while `InitRL` runs may damage the joint of the other
  mapping;
* parameters are merged inside yaml-cpp while another thread reads them
  (undefined behaviour of a library; `PolicyParams` shows what the merge leaves);
* a single foot sensor that falls silent keeps its contact as long as the
  others keep the fallback away;
* the real robot has no check of the age of its low state, and X held on its
  remote toggles the navigation mode in every tick;
* an exit frees the MuJoCo model and data without the mutex;
* the policy active at the first run decides for the whole program whether the
  debug CSV is written;
* deactivation of the joint controllers leaves the last effort on the joints;
* `warm_start_history` has no effect on policies of mode `flat_history`;
* a reference motion of one frame reads past an empty list (undefined
  behaviour; `MotionLoader` lets that construction fail).

### Not modelled

* The quadloco node: a separate Python program that shares no code or state with
  the C++ one.
* Fault training in Isaac Lab, policy conversion and the analysis scripts:
  offline. Policies and parameters: data.
* Launch, build, docker and download scripts.
* `matplotlibcpp` and the plots: vendored, off by default, output only.
* The drawing, menus, profiler and figures of the viewer; the transport and CRC
  of unitree messages; the ROS wiring.
* The single-joint controller, which repeats the group controller's code for one
  joint and is loaded by no launch file of the Go2.
* Floating-point error: sums and products are exact in the models, and
  `Interpolate` alone has a choice where it rounds.

### Next

A composition of `Go2Fsm` and `PolicyPipeline`, with the pipeline's control
thread implemented by the machine, and the refinement proved; abstract
specifications of the joint controller group and of the hand-over of models.
