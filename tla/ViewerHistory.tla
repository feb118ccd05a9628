---------------------------- MODULE ViewerHistory ----------------------------
(***************************************************************************)
(* The run flag of the MuJoCo viewer and its history: a ring of recorded   *)
(* states (AddToHistory) that the scrubber and the arrow keys show again.  *)
(* The viewer's events and Sync hold sim->mtx; the physics step and the    *)
(* control tick of RL_Sim come between two frames, and RL_Sim switches run *)
(* and resets the data behind the viewer's back.  A state of the           *)
(* simulation (positions and velocities; the control tick writes the motor *)
(* commands anew in any case) is a number here: 0 right after a reset, a   *)
(* fresh number after each step.                                           *)
(***************************************************************************)
EXTENDS Integers, Sequences

CONSTANTS
  nhistory,   \* Simulate::nhistory_
  MaxSteps    \* bound: physics steps

ASSUME HistoryAssumption == nhistory \in Nat \ {0} /\ MaxSteps \in Nat

VARIABLES
  run,                 \* Simulate::run
  simulation_running,  \* RL::simulation_running
  polling,             \* the render thread is between PollEvents and Sync
  data,                \* the state in d
  steps,               \* the physics steps so far
  history,             \* history_
  history_cursor,      \* history_cursor_
  scrub_index,         \* Simulate::scrub_index
  pending,             \* the work for Sync: joint_sliders (qpos_ # qpos_prev_), and
                       \* pending_.reset, load_from_history, load_key
  log,                 \* history: what was recorded, newest first
  moved,               \* history: data changed under the scrubber
  touched              \* history: run was switched by something other than Enter

historyVars == <<run, simulation_running, polling, data, steps, history,
                 history_cursor, scrub_index, pending, log, moved, touched>>

ring == <<history, history_cursor, log>>

(* What was never recorded: a keyframe, a pose set by hand.                *)
KeyState == MaxSteps + 1
PosedState == MaxSteps + 2

(* C++: (i + n) % n, for an i that is itself the result of %.              *)
RingIndex(i) == (i + nhistory) % nhistory

AddToHistory(state) ==
  LET cursor == RingIndex(history_cursor + 1)
  IN  /\ history_cursor' = cursor
      /\ history' = [history EXCEPT ![cursor] = state]
      /\ log' = SubSeq(<<state>> \o log, 1, nhistory)

Stepped == data' = steps + 1 /\ steps' = steps + 1
-----------------------------------------------------------------------------
(* The physics thread: one batch of steps, which is recorded if one of     *)
(* them did not diverge, and pauses if one did.                            *)
HistoryPhysicsStep ==
  /\ ~polling /\ run /\ steps < MaxSteps
  /\ Stepped
  /\ \/ AddToHistory(data') /\ UNCHANGED <<run, touched>>
     \/ /\ run' = FALSE /\ touched' = TRUE
        /\ AddToHistory(data') \/ UNCHANGED ring
  /\ UNCHANGED <<simulation_running, polling, scrub_index, pending, moved>>

(* A new model: the ring is filled with its first state.  A compiler       *)
(* warning pauses; otherwise run and simulation_running stay.              *)
HistoryLoad ==
  /\ ~polling
  /\ data' = 0
  /\ history' = [i \in DOMAIN history |-> 0]
  /\ history_cursor' = 0 /\ scrub_index' = 0
  /\ log' = [i \in 1 .. nhistory |-> 0]
  /\ moved' = FALSE
  /\ \/ run' = FALSE /\ touched' = TRUE
     \/ UNCHANGED <<run, touched>>
  /\ UNCHANGED <<simulation_running, polling, steps, pending>>
-----------------------------------------------------------------------------
(* The control tick of RL_Sim: R (or RB_Y) resets the data ...             *)
ResetKey ==
  /\ ~polling
  /\ data' = 0
  /\ moved' = TRUE
  /\ UNCHANGED <<run, simulation_running, polling, steps, ring, scrub_index, pending,
                 touched>>

EnterTogglesRun ==  \* mutant: run is toggled, not set
  /\ ~polling
  /\ run' = ~run
  /\ simulation_running' = ~simulation_running
  /\ touched' = FALSE
  /\ moved' = (moved \/ run')
  /\ UNCHANGED <<polling, data, steps, ring, scrub_index, pending>>

(* ... and Enter (or RB_X) sets run from the node's own flag.              *)
EnterKey ==
  /\ ~polling
  /\ run' = ~simulation_running
  /\ simulation_running' = ~simulation_running
  /\ touched' = FALSE
  /\ moved' = (moved \/ run')
  /\ UNCHANGED <<polling, data, steps, ring, scrub_index, pending>>
-----------------------------------------------------------------------------
(* The render thread.                                                      *)

PollEvents ==
  /\ ~polling /\ polling' = TRUE
  /\ UNCHANGED <<run, simulation_running, data, steps, ring, scrub_index, pending,
                 moved, touched>>

SpaceKeepsScrubber ==  \* mutant: scrub_index is not reset
  /\ polling
  /\ run' = ~run /\ touched' = TRUE
  /\ UNCHANGED <<simulation_running, polling, data, steps, ring, scrub_index, pending, moved>>

SpaceKey ==
  /\ polling
  /\ run' = ~run /\ touched' = TRUE
  /\ IF run' THEN scrub_index' = 0 /\ moved' = FALSE ELSE UNCHANGED <<scrub_index, moved>>
  /\ UNCHANGED <<simulation_running, polling, data, steps, ring, pending>>

(* The radio button Pause / Run is bound to run itself: unlike the space   *)
(* key it leaves the scrubber where it is.                                 *)
RunRadio ==
  /\ polling
  /\ run' = ~run /\ touched' = TRUE
  /\ moved' = (moved \/ run')
  /\ UNCHANGED <<simulation_running, polling, data, steps, ring, scrub_index, pending>>

RightKeyOnlyCounts ==  \* mutant: the state is not loaded
  /\ polling /\ ~run /\ scrub_index < 0
  /\ scrub_index' = scrub_index + 1
  /\ UNCHANGED <<run, simulation_running, polling, data, steps, ring, pending, moved,
                 touched>>

(* The right arrow: one state forward in the history, or one step.         *)
RightKey ==
  /\ polling /\ ~run
  /\ IF scrub_index < 0
     THEN /\ scrub_index' = scrub_index + 1
          /\ pending' = pending \cup {"load_from_history"}
          /\ UNCHANGED <<data, steps, ring>>
     ELSE /\ steps < MaxSteps
          /\ Stepped /\ AddToHistory(data')
          /\ UNCHANGED <<scrub_index, pending>>
  /\ UNCHANGED <<run, simulation_running, polling, moved, touched>>

Scrub(index) ==
  /\ polling
  /\ run' = FALSE /\ touched' = TRUE
  /\ scrub_index' = index
  /\ pending' = pending \cup {"load_from_history"}
  /\ UNCHANGED <<simulation_running, polling, data, steps, ring, moved>>

LeftKeyTooFar ==  \* mutant: the clamp is off by one
  Scrub(IF scrub_index - 1 > - nhistory THEN scrub_index - 1 ELSE - nhistory)

(* The left arrow: one state back, at most 1 - nhistory.                   *)
LeftKey == Scrub(IF scrub_index - 1 > 1 - nhistory THEN scrub_index - 1 ELSE 1 - nhistory)

HistorySlider == \E index \in 1 - nhistory .. 0 : Scrub(index)

Asks(work) ==
  /\ polling
  /\ pending' = pending \cup {work}
  /\ UNCHANGED <<run, simulation_running, polling, data, steps, ring, scrub_index,
                 moved, touched>>

(* The buttons "Reset" and "Load key" of the simulation section ...        *)
SimulationButton == \E button \in {"reset", "load_key"} : Asks(button)

(* ... and the sliders of the joint section.                               *)
JointSlider == Asks("joint_sliders")

(* What is pending is done in this order, and forgotten: a keyframe wins   *)
(* over the history, which wins over a reset, which wins over the sliders. *)
(* Last, in a paused simulation, comes a body that the mouse is dragging.  *)
Sync(dragged) ==
  /\ polling /\ polling' = FALSE
  /\ LET slid == "joint_sliders" \in pending
         reset == "reset" \in pending
         index == IF reset THEN 0 ELSE scrub_index
         loads == "load_from_history" \in pending
         keyed == "load_key" \in pending
         posed == dragged /\ ~run
     IN  /\ scrub_index' = index
         /\ data' = IF posed THEN PosedState
                    ELSE IF keyed THEN KeyState
                    ELSE IF loads THEN history[RingIndex(index + history_cursor)]
                    ELSE IF reset THEN 0
                    ELSE IF slid THEN PosedState ELSE data
         /\ moved' = (posed \/ keyed \/ ((moved \/ slid) /\ ~reset /\ (run \/ ~loads)))
  /\ pending' = {}
  /\ UNCHANGED <<run, simulation_running, steps, ring, touched>>

HistoryInit ==
  /\ run = TRUE /\ simulation_running = TRUE
  /\ polling = FALSE /\ pending = {}
  /\ data = 0 /\ steps = 0
  /\ history = [i \in 0 .. nhistory - 1 |-> 0]
  /\ history_cursor = 0 /\ scrub_index = 0
  /\ log = [i \in 1 .. nhistory |-> 0]
  /\ moved = FALSE /\ touched = FALSE

HistoryNext ==
  \/ HistoryPhysicsStep \/ HistoryLoad \/ ResetKey \/ EnterKey
  \/ PollEvents \/ SpaceKey \/ RunRadio \/ RightKey \/ LeftKey \/ HistorySlider
  \/ SimulationButton \/ JointSlider
  \/ \E dragged \in BOOLEAN : Sync(dragged)

HistorySpec == HistoryInit /\ [][HistoryNext]_historyVars
-----------------------------------------------------------------------------
RingTyped ==
  /\ data \in 0 .. PosedState /\ steps \in 0 .. MaxSteps
  /\ history_cursor \in 0 .. nhistory - 1
  /\ history \in [0 .. nhistory - 1 -> 0 .. MaxSteps]
  /\ scrub_index \in 1 - nhistory .. 0
  /\ pending \in SUBSET {"joint_sliders", "reset", "load_from_history", "load_key"}
  /\ log \in [1 .. nhistory -> 0 .. MaxSteps]

FlagsTyped == {run, simulation_running, polling, moved, touched} \subseteq BOOLEAN

HistoryTypeOK == RingTyped /\ FlagsTyped

(* A simulation paused at -k in the scrubber shows the state recorded k    *)
(* steps before the last, through every wrap of the ring, unless since the *)
(* scrubber loaded it the data was moved under it: by the keyframe button, *)
(* a joint slider, the mouse dragging a body or the control tick's R; or by*)
(* running on after Enter or the Run radio button, which resume without    *)
(* resetting scrub_index.                                                  *)
ScrubShowsHistory ==
  ~polling /\ ~run /\ ~moved /\ scrub_index < 0 => data = log[1 - scrub_index]

(* Physics and policy run and pause together from one press of Enter to    *)
(* the next, whatever they were before, until the viewer (space, radio     *)
(* button, arrows, history slider), a divergence or a load warning switches*)
(* run alone: the policy then goes on acting on a frozen robot.            *)
PolicyRunsWithPhysics == ~touched => run = simulation_running

(* The scrubber and the two ways to run, together.                         *)
ViewerHistorySafe == HistoryTypeOK /\ ScrubShowsHistory /\ PolicyRunsWithPhysics
=============================================================================
