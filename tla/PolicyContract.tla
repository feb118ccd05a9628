---------------------------- MODULE PolicyContract ----------------------------
(***************************************************************************)
(* The contract between a policy's configuration, its network and the node *)
(* that runs it: InitRL loads the model and, in ValidatePolicyModelContract*)
(* , runs it once on the input BuildPolicyModelInput makes; afterwards the *)
(* Forward of each node builds its input on its own.                       *)
(*                                                                         *)
(* Numbers are left out: an observation is one frame, numbered, and all    *)
(* that is kept of a tensor is its frames and its shape.  Frame 0 is the   *)
(* zeros of a new history, -1 the observation made for the validation.     *)
(***************************************************************************)
EXTENDS Integers, Sequences, SequencesExt, FiniteSetsExt

CONSTANTS
  NumDofs,       \* num_of_dofs
  DefaultLens,   \* lengths default_dof_pos may have
  TermLists,     \* the lists "observations" may be
  ObsSizes,      \* values of num_observations
  HistoryLists,  \* the lists "observations_history" may be
  Lengths,       \* values of history_length, 0 when it is not given
  Signatures,    \* the input shapes of a network; -1 is a dynamic dimension
  MaxRuns        \* bound: runs of the model after a load

(* A default pose longer than num_of_dofs makes the first observation, the *)
(* one that is validated, wider than all later ones.                       *)
ASSUME ContractAssumption ==
  /\ NumDofs \in Nat \ {0} /\ MaxRuns \in Nat
  /\ DefaultLens \subseteq 0..NumDofs
  /\ HistoryLists \subseteq Seq(Int)
  /\ TermLists \subseteq Seq(STRING)
  /\ ObsSizes \subseteq Int /\ Lengths \subseteq Int
  /\ Signatures \subseteq Seq(Seq(Int))

Nodes == {"sim", "real", "mujoco"}
Modes == {"single", "flat_history", "obs_history", "unknown"}
Configs == [terms : TermLists, numObs : ObsSizes, mode : Modes, history : HistoryLists,
            length : Lengths, priority : {"time", "term"}, warm : BOOLEAN,
            validate : BOOLEAN, defaultLen : DefaultLens]
Models == [file : {"pt", "onnx"}, signature : Signatures, actions : {"sound", "wrong_size", "not_finite"}]

VARIABLES
  node,    \* which of the three programs this is
  cfg,     \* the parameters of the policy
  net,     \* the network in the policy's folder
  phase,   \* "idle", "ready" (rl_init_done), "failed" (InitRL threw), "crashed" (a run threw)
  buffer,  \* history_obs_buf, newest first
  episode, \* episode_length_buf
  used     \* history: the last input a run gave to the model

contractVars == <<node, cfg, net, phase, buffer, episode, used>>
-----------------------------------------------------------------------------
(* ComputeObservation: how many numbers a term puts into the observation.  *)
(* The elementwise operators on vectors stop at the shorter operand; an    *)
(* unknown term is skipped without a word.                                 *)

AnchorOri == 6

TermWidth(term, dofs) ==
  CASE term \in {"lin_vel", "ang_vel", "gravity_vec", "commands"} -> 3
    [] term = "dof_pos" -> Min({dofs, cfg.defaultLen})
    [] term \in {"dof_vel", "actions"} -> NumDofs
    [] term = "foot_contacts" -> 4
    [] term = "whole_body_tracking/motion_command" -> 2 * NumDofs
    [] term = "whole_body_tracking/motion_anchor_ori_b" -> AnchorOri
    [] term = "RoboMimic_Deploy/phase" -> 1
    [] OTHER -> 0

Width(dofs) == FoldLeft(LAMBDA sum, term : sum + TermWidth(term, dofs), 0, cfg.terms)
-----------------------------------------------------------------------------
(* ObservationBuffer, seen from here: insert, reset and get_obs_vec.       *)

Inserted(frames, frame) == IF frames = <<>> THEN <<>> ELSE <<frame>> \o Front(frames)
WarmStart(frames, frame) == [t \in DOMAIN frames |-> frame]
Select(frames, ids) == [k \in DOMAIN ids |-> frames[ids[k] + 1]]

(* ResetPolicyHistory: room for the oldest frame the policy looks at.      *)
HistoryRejected == \E k \in DOMAIN cfg.history : cfg.history[k] < 0
EmptyHistory ==
  IF cfg.history = <<>> THEN <<>>
  ELSE [t \in 1..Max(ToSet(cfg.history)) + 1 |-> 0]

(* An input: the tensors of one call, frames and requested shape of each.  *)
Tensor(frames, shape) == [frames |-> frames, shape |-> shape]
Single(frame, dim) == Tensor(<<frame>>, <<1, dim>>)
Flat(frames, width) == Tensor(frames, <<1, Len(frames) * width>>)
-----------------------------------------------------------------------------
(* BuildPolicyModelInput: the checks that throw, then the input.           *)

BuildAccepts(width) ==
  /\ cfg.numObs > 0 /\ width = cfg.numObs
  /\ cfg.mode \in {"single", "flat_history", "obs_history"}
  /\ cfg.mode # "single" => cfg.history # <<>>
  /\ cfg.history # <<>> =>
       /\ cfg.length # 0 => cfg.length = Len(cfg.history)
       /\ cfg.mode = "obs_history" => cfg.priority = "time"

BuildPolicyModelInput(past, frame, width, warmed) ==
  LET started == IF cfg.warm /\ ~warmed THEN WarmStart(past, frame) ELSE past
      frames == Select(Inserted(started, frame), cfg.history)
  IN  IF cfg.history = <<>> THEN <<Single(frame, width)>>
      ELSE IF cfg.mode = "obs_history"
      THEN <<Single(frame, width), Tensor(frames, <<1, Len(frames), width>>)>>
      ELSE <<Flat(frames, width)>>
-----------------------------------------------------------------------------
(* InferenceRuntime.                                                       *)

Product(shape) == FoldSeq(LAMBDA d, p : d * p, 1, shape)

(* What the network itself takes: as many inputs as it has, of its rank    *)
(* and of its sizes where these are not dynamic (external).                *)
NetworkTakes(input) ==
  /\ Len(input) = Len(net.signature)
  /\ \A i \in DOMAIN input :
       /\ Len(input[i].shape) = Len(net.signature[i])
       /\ \A d \in DOMAIN input[i].shape :
            net.signature[i][d] \in {-1, input[i].shape[d]}

(* forward_with_shapes of both runtimes: every tensor must hold as many    *)
(* numbers as the shape asks for; ONNXModel also insists on positive       *)
(* dimensions.                                                             *)
TorchForward(input, width) ==
  /\ input # <<>>
  /\ \A i \in DOMAIN input : Product(input[i].shape) = Len(input[i].frames) * width
  /\ NetworkTakes(input)

OnnxForward(input, width) ==
  /\ \A i \in DOMAIN input : \A d \in DOMAIN input[i].shape : input[i].shape[d] > 0
  /\ TorchForward(input, width)

ForwardWithShapes(input, width) ==
  IF net.file = "onnx" THEN OnnxForward(input, width) ELSE TorchForward(input, width)

(* setup_input_output_info: a dynamic dimension is taken for 1.            *)
InputShapes ==
  [i \in DOMAIN net.signature |->
    [d \in DOMAIN net.signature[i] |->
      IF net.signature[i][d] = -1 THEN 1 ELSE net.signature[i][d]]]

(* forward: ONNXModel asks for the stored shapes, TorchModel for one row of*)
(* the first input.                                                        *)
OnnxForwardStored(input, width) ==
  /\ Len(input) = Len(InputShapes)
  /\ OnnxForward([i \in DOMAIN input |-> Tensor(input[i].frames, InputShapes[i])], width)

Forward(input, width) ==
  IF net.file = "onnx" THEN OnnxForwardStored(input, width)
                       ELSE Len(input) = 1 /\ TorchForward(input, width)
-----------------------------------------------------------------------------
(* InitRL.  loads: whether the file is there, has a known extension and    *)
(* is one the runtime was built for.                                       *)

ValidateKeepsFrame ==  \* mutant: the history is not reset after the validation
  IF cfg.history = <<>> THEN <<>> ELSE Inserted(EmptyHistory, -1)

AfterValidation == EmptyHistory

ContractUnchecked(width) == TRUE  \* mutant: the network is not tried out

ContractHolds(width) ==
  /\ BuildAccepts(width)
  /\ ForwardWithShapes(BuildPolicyModelInput(EmptyHistory, -1, width, FALSE), width)
  /\ net.actions = "sound"

InitRL(loads) ==
  /\ phase = "idle"
  /\ episode' = 0
  /\ IF HistoryRejected
     THEN phase' = "failed" /\ UNCHANGED buffer
     ELSE LET accepted == loads /\ (cfg.validate => ContractHolds(Width(cfg.defaultLen)))
          IN  /\ phase' = IF accepted THEN "ready" ELSE "failed"
              /\ buffer' = AfterValidation
  /\ UNCHANGED <<node, cfg, net, used>>

(* Leaving RLLocomotion; the next visit loads the policy again.            *)
Leave ==
  /\ phase \in {"ready", "failed"}
  /\ phase' = "idle"
  /\ UNCHANGED <<node, cfg, net, buffer, episode, used>>
-----------------------------------------------------------------------------
(* Forward of the nodes: what they give to the model, or <<>> for the      *)
(* exception of rl_sim.                                                    *)

SimHistory(frame) ==
  Inserted(IF cfg.mode = "obs_history" /\ cfg.warm /\ episode = 0
         THEN WarmStart(buffer, frame) ELSE buffer, frame)

SimInputNewestFirst(frame, width) ==  \* mutant: the selection is not applied
  LET frames == SubSeq(SimHistory(frame), 1, Len(cfg.history))
      length == IF cfg.length = 0 THEN Len(cfg.history) ELSE cfg.length
  IN  IF cfg.mode = "obs_history"
      THEN IF cfg.history = <<>> THEN <<>>
           ELSE <<Single(frame, cfg.numObs), Tensor(frames, <<1, length, cfg.numObs>>)>>
      ELSE IF cfg.history # <<>> THEN <<Flat(frames, width)>>
      ELSE <<Single(frame, width)>>

SimInput(frame, width) ==
  LET frames == Select(SimHistory(frame), cfg.history)
      length == IF cfg.length = 0 THEN Len(cfg.history) ELSE cfg.length
  IN  IF cfg.mode = "obs_history"
      THEN IF cfg.history = <<>> THEN <<>>
           ELSE <<Single(frame, cfg.numObs), Tensor(frames, <<1, length, cfg.numObs>>)>>
      ELSE IF cfg.history # <<>> THEN <<Flat(frames, width)>>
      ELSE <<Single(frame, width)>>

(* rl_real_go2 and rl_sim_mujoco know one input only.                      *)
OneInput(frame, width) ==
  IF cfg.history # <<>>
  THEN <<Flat(Select(Inserted(buffer, frame), cfg.history), width)>>
  ELSE <<Single(frame, width)>>

(* RunModel: the observation comes from the robot, whose state has         *)
(* num_of_dofs joints, and the model runs.                                 *)
RunModel ==
  LET frame == episode + 1
      width == Width(NumDofs)
  IN  /\ phase = "ready" /\ episode < MaxRuns
      /\ episode' = frame
      /\ used' = IF node = "sim" THEN SimInput(frame, width) ELSE OneInput(frame, width)
      /\ buffer' = IF node = "sim" THEN SimHistory(frame) ELSE Inserted(buffer, frame)
      /\ phase' = IF IF node = "sim" THEN ForwardWithShapes(used', width)
                                     ELSE Forward(used', width)
                  THEN "ready" ELSE "crashed"
      /\ UNCHANGED <<node, cfg, net>>
-----------------------------------------------------------------------------
ContractInit ==
  /\ node \in Nodes /\ cfg \in Configs /\ net \in Models
  /\ phase = "idle" /\ buffer = <<>> /\ episode = 0 /\ used = <<>>

ContractNext == (\E loads \in BOOLEAN : InitRL(loads)) \/ Leave \/ RunModel

ContractSpec == ContractInit /\ [][ContractNext]_contractVars
-----------------------------------------------------------------------------
ContractTypeOK ==
  /\ phase \in {"idle", "ready", "failed", "crashed"}
  /\ \A t \in DOMAIN buffer : buffer[t] \in 0..MaxRuns
  /\ episode \in 0..MaxRuns
  /\ used \in Seq([frames : Seq(Nat), shape : Seq(Int)])

Static == \A i \in DOMAIN net.signature : \A d \in 2..Len(net.signature[i]) :
            net.signature[i][d] # -1

(* The policies a node can run: rl_sim all of them, the two others those   *)
(* with one input whose size the network declares.                         *)
Supported == node = "sim" \/ (cfg.mode # "obs_history" /\ Static)

(* A policy that ValidatePolicyModelContract accepted never throws in the  *)
(* RL thread, where nothing would catch it, although Forward builds its    *)
(* input by another code than the one that was validated.                  *)
ValidatedPolicyRuns == cfg.validate /\ Supported => phase # "crashed"

(* The same of all three nodes: policy_history/config.yaml: "TorchScript   *)
(* signature: forward(obs, obs_hist) -> actions".  Violated by rl_real_go2 *)
(* and rl_sim_mujoco: their Forward gives the flattened history alone to a *)
(* network that was validated with an observation and a history.           *)
ValidatedPolicyRunsEverywhere == cfg.validate /\ Static => phase # "crashed"

(* The observation made for the validation is in no history a run uses,    *)
(* and no frame of an earlier visit is: the frames are this visit's, newest*)
(* as far as they go, and zeros or, after a warm start, the first one.     *)
HistoryIsOfThisVisit ==
  phase = "ready" =>
    \A t \in DOMAIN buffer :
      buffer[t] = IF t <= episode THEN episode + 1 - t
                  ELSE IF node = "sim" /\ cfg.mode = "obs_history" /\ cfg.warm /\ episode > 0
                  THEN 1 ELSE 0

(* Where rl_sim honours warm_start_history, and wherever it is not asked   *)
(* for, every run gives the model exactly the input the contract was       *)
(* validated with: the same tensors, shapes and frames.                    *)
RunsTheContract ==
  [][episode' = episode + 1 /\ cfg.validate /\ node = "sim"
       /\ (cfg.mode = "obs_history" \/ ~cfg.warm)
     => used' = BuildPolicyModelInput(buffer, episode', Width(NumDofs), episode > 0)]_contractVars

(* A validated policy runs, and on the frames of this visit alone.         *)
ContractSafe == ContractTypeOK /\ ValidatedPolicyRuns /\ HistoryIsOfThisVisit
=============================================================================
