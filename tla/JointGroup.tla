------------------------------ MODULE JointGroup ------------------------------
(***************************************************************************)
(* RobotJointControllerGroup, the ros2_control plugin between the nodes and*)
(* the simulated motors: a lifecycle node whose update runs on the real-   *)
(* time thread of the controller manager, whose subscriptions run on an    *)
(* executor thread, and which learns the joint limits from an answer that  *)
(* arrives when it likes.                                                  *)
(*                                                                         *)
(* A command is its number, 0 the one on_activate makes up (the present    *)
(* position without stiffness, so no torque).  A torque is the command it  *)
(* comes from, the joint whose limits bound it and the alpha it is scaled  *)
(* with; the arithmetic is left out.  last_command_ is written by both     *)
(* threads, so it is a value per joint.                                    *)
(***************************************************************************)
EXTENDS Integers, Sequences, SequencesExt, FiniteSets

CONSTANTS
  NumJoints,
  JointLists,   \* values of the "joints" parameter; a change of their number is left out
  Urdf,         \* the joints the robot description knows
  Alphas,       \* the fault_alpha messages
  MaxCommands,  \* bound: commands received
  MaxSwitches   \* bound: lifecycle transitions

ASSUME GroupAssumption ==
  /\ NumJoints \in Nat \ {0} /\ JointLists \subseteq [1..NumJoints -> STRING]
  /\ Alphas \subseteq Seq(Int)
  /\ MaxCommands \in Nat /\ MaxSwitches \in Nat

Sizes == {"right", "wrong"}  \* a command with a motor for every joint, or not

VARIABLES
  lifecycle,    \* "unconfigured", "inactive" or "active"
  jointNames,   \* joint_names_
  jointsUrdf,   \* joints_urdf_, which no transition clears
  asked,        \* requests for the robot description that are not answered
  commands,     \* commands received so far
  lastCommand,  \* last_command_: the command of every joint, and its size
  rtCommand,    \* rt_command_ptr_: a command and its size
  receiving,    \* SetCommandCallback between its two writes
  rtAlpha,      \* rt_fault_alpha_ptr_
  faultAlpha,   \* fault_alpha_
  updating,     \* update: the joints UpdateFunc has still to do, or <<>>
  effort,       \* the command interfaces, by joint
  raced,        \* history: a command came in while the last update ran
  first,        \* history: the first command since on_activate
  faults,       \* history: the fault_alpha vectors accepted since on_activate
  renamed,      \* history: the joints were configured anew under other names
  switches      \* lifecycle transitions so far

groupVars == <<lifecycle, jointNames, jointsUrdf, asked, commands, lastCommand, rtCommand,
               receiving, rtAlpha, faultAlpha, updating, effort, raced, first, faults, renamed, switches>>

Joints == 1..NumJoints
HoldPosition == [number |-> 0, size |-> "right"]
AllHealthy == [i \in Joints |-> 1]
-----------------------------------------------------------------------------
(* Lifecycle, on the thread of the controller manager.                     *)

Switch(from, to) ==
  /\ lifecycle = from /\ updating = <<>> /\ switches < MaxSwitches
  /\ lifecycle' = to /\ switches' = switches + 1

(* on_configure: waits until the parameter names joints; asks for the robot*)
(* description without waiting for the answer.                             *)
OnConfigure(joints) ==
  /\ Switch("unconfigured", "inactive")
  /\ jointNames' = joints
  /\ asked' = asked + 1
  /\ renamed' = (renamed \/ jointNames \notin {<<>>, joints})
  /\ UNCHANGED <<jointsUrdf, commands, lastCommand, rtCommand, receiving, rtAlpha, faultAlpha,
                 updating, effort, raced, first, faults>>

(* The answer: the joints it knows are appended, an unknown one is skipped *)
(* and moves all later ones up.                                            *)
Described(joint) == joint \in Urdf
AddLimits(known, joint) == IF Described(joint) THEN Append(known, joint) ELSE known

UrdfResponse ==
  /\ asked > 0
  /\ jointsUrdf' = FoldLeft(AddLimits, jointsUrdf, jointNames)
  /\ asked' = asked - 1
  /\ UNCHANGED <<lifecycle, jointNames, commands, lastCommand, rtCommand, receiving, rtAlpha,
                 faultAlpha, updating, effort, raced, first, faults, renamed, switches>>

(* on_activate and on_deactivate: last_command_, then the two buffers.     *)
ResetKeepsCommand ==  \* mutant: a command received while inactive stays in the buffer
  /\ lastCommand' = [i \in Joints |-> HoldPosition]
  /\ rtAlpha' = AllHealthy
  /\ faultAlpha' = rtAlpha'
  /\ UNCHANGED rtCommand

ResetBuffers ==
  /\ lastCommand' = [i \in Joints |-> HoldPosition]
  /\ rtCommand' = HoldPosition
  /\ rtAlpha' = AllHealthy
  /\ faultAlpha' = rtAlpha'

OnActivate ==
  /\ Switch("inactive", "active")
  /\ ResetBuffers
  /\ first' = commands + 1 /\ faults' = {AllHealthy}
  /\ UNCHANGED <<jointNames, jointsUrdf, asked, commands, receiving, updating, effort, raced,
                 renamed>>

(* The command interfaces keep the last torque.                            *)
OnDeactivate ==
  /\ Switch("active", "inactive")
  /\ ResetBuffers
  /\ UNCHANGED <<jointNames, jointsUrdf, asked, commands, receiving, updating, effort, raced, first,
                 faults, renamed>>

OnCleanup ==
  /\ Switch("inactive", "unconfigured")
  /\ UNCHANGED <<jointNames, jointsUrdf, asked, commands, lastCommand, rtCommand, receiving,
                 rtAlpha, faultAlpha, updating, effort, raced, first, faults, renamed>>
-----------------------------------------------------------------------------
(* Executor thread.                                                        *)

(* SetCommandCallback: last_command_ = *msg, of whatever size; then a copy *)
(* of last_command_, not of the message, goes into the buffer.             *)
ReceiveCommand(size) ==
  /\ lifecycle # "unconfigured" /\ receiving = FALSE /\ commands < MaxCommands
  /\ commands' = commands + 1
  /\ lastCommand' = [i \in Joints |-> [number |-> commands', size |-> size]]
  /\ receiving' = TRUE
  /\ raced' = (raced \/ updating # <<>>)
  /\ UNCHANGED <<lifecycle, jointNames, jointsUrdf, asked, rtCommand, rtAlpha, faultAlpha,
                 updating, effort, first, faults, renamed, switches>>

WriteCommand ==
  /\ receiving = TRUE
  /\ receiving' = FALSE
  /\ rtCommand' = lastCommand[1]
  /\ UNCHANGED <<lifecycle, jointNames, jointsUrdf, asked, commands, lastCommand, rtAlpha,
                 faultAlpha, updating, effort, raced, first, faults, renamed, switches>>

(* SetFaultAlphaCallback: a message of another size is ignored, the values *)
(* are clamped to 0..1.                                                    *)
ClampBelowOnly(a) ==  \* mutant: an alpha over one amplifies
  IF a < 0 THEN 0 ELSE a

ClampAlpha(a) == IF a < 0 THEN 0 ELSE IF a > 1 THEN 1 ELSE a

ReceiveAlpha(alpha) ==
  /\ lifecycle # "unconfigured"
  /\ Len(alpha) = NumJoints
  /\ rtAlpha' = [i \in Joints |-> ClampAlpha(alpha[i])]
  /\ faults' = faults \cup {rtAlpha'}
  /\ UNCHANGED <<lifecycle, jointNames, jointsUrdf, asked, commands, lastCommand, rtCommand,
                 receiving, faultAlpha, updating, effort, raced, first, renamed, switches>>
-----------------------------------------------------------------------------
(* Real-time thread.                                                       *)

(* update: a command of the wrong size is refused; otherwise it becomes    *)
(* last_command_, and UpdateFunc takes the newest alpha.                   *)
UpdateUnchecked ==  \* mutant: the size of the command is not checked
  /\ lifecycle = "active" /\ updating = <<>>
  /\ lastCommand' = [i \in Joints |-> rtCommand]
  /\ faultAlpha' = IF rtAlpha # <<>> THEN rtAlpha ELSE faultAlpha
  /\ updating' = [i \in Joints |-> i]
  /\ raced' = FALSE
  /\ UNCHANGED <<lifecycle, jointNames, jointsUrdf, asked, commands, rtCommand, receiving,
                 rtAlpha, effort, first, faults, renamed, switches>>

Update ==
  /\ lifecycle = "active" /\ updating = <<>>
  /\ rtCommand.size = "right"
  /\ lastCommand' = [i \in Joints |-> rtCommand]
  /\ faultAlpha' = IF rtAlpha # <<>> THEN rtAlpha ELSE faultAlpha
  /\ updating' = [i \in Joints |-> i]
  /\ raced' = FALSE
  /\ UNCHANGED <<lifecycle, jointNames, jointsUrdf, asked, commands, rtCommand, receiving,
                 rtAlpha, effort, first, faults, renamed, switches>>

(* The limits UpdateFunc finds at an index: those of a joint, or whatever  *)
(* lies behind the end of the vector.                                      *)
LimitsAtSkips(i) ==  \* mutant: the joints are counted from one
  IF i + 1 <= Len(jointsUrdf) THEN jointsUrdf[i + 1] ELSE "none"

LimitsAt(i) == IF i <= Len(jointsUrdf) THEN jointsUrdf[i] ELSE "none"

(* One joint: its command is limited, its torque computed, limited and     *)
(* scaled, and written to its command interface.                           *)
UpdateJoint ==
  LET i == Head(updating)
  IN  /\ updating # <<>>
      /\ updating' = Tail(updating)
      /\ effort' = [effort EXCEPT ![i] = [command |-> lastCommand[i].number,
                                          limits |-> LimitsAt(i),
                                          alpha |-> faultAlpha[i]]]
      /\ UNCHANGED <<lifecycle, jointNames, jointsUrdf, asked, commands, lastCommand, rtCommand,
                     receiving, rtAlpha, faultAlpha, raced, first, faults, renamed, switches>>
-----------------------------------------------------------------------------
GroupInit ==
  /\ lifecycle = "unconfigured" /\ jointNames = <<>> /\ jointsUrdf = <<>> /\ asked = 0
  /\ commands = 0 /\ lastCommand = [i \in Joints |-> HoldPosition] /\ rtCommand = HoldPosition /\ receiving = FALSE
  /\ rtAlpha = <<>> /\ faultAlpha = AllHealthy /\ updating = <<>>
  /\ effort = [i \in Joints |-> [command |-> 0, limits |-> "none", alpha |-> 1]]
  /\ raced = FALSE /\ first = 0 /\ faults = {} /\ renamed = FALSE /\ switches = 0

GroupNext ==
  \/ (\E joints \in JointLists : OnConfigure(joints)) \/ OnActivate \/ OnDeactivate \/ OnCleanup
  \/ UrdfResponse
  \/ (\E size \in Sizes : ReceiveCommand(size)) \/ WriteCommand
  \/ \E alpha \in Alphas : ReceiveAlpha(alpha)
  \/ Update \/ UpdateJoint

GroupSpec == GroupInit /\ [][GroupNext]_groupVars
-----------------------------------------------------------------------------
GroupTypeOK ==
  /\ lifecycle \in {"unconfigured", "inactive", "active"}
  /\ jointNames \in JointLists \cup {<<>>}
  /\ commands \in 0..MaxCommands /\ switches \in 0..MaxSwitches
  /\ \A i \in Joints : lastCommand[i].number \in 0..commands /\ lastCommand[i].size \in Sizes
  /\ rtCommand.number \in 0..commands /\ rtCommand.size \in Sizes
  /\ faultAlpha \in [Joints -> 0..1]
  /\ \A i \in Joints : effort[i].command \in 0..commands /\ effort[i].alpha \in 0..1
  /\ asked \in 0..MaxSwitches
  /\ receiving \in BOOLEAN /\ raced \in BOOLEAN /\ renamed \in BOOLEAN

(* "reset command buffer if a command came through callback when controller*)
(* was inactive": until the first command that is received after activation*)
(* no joint is commanded anything, also when the callback was half way     *)
(* through at that moment.                                                 *)
ActivationIsQuiet ==
  lifecycle = "active" /\ commands < first =>
    \A i \in Joints : lastCommand[i].number = 0 /\ rtCommand.number = 0

(* Unless a command comes in while an update runs, all the joints obey the *)
(* same command after it, and during it no motor beyond the command's last *)
(* is read.                                                                *)
OneCommandPerUpdate ==
  lifecycle = "active" /\ ~raced =>
    /\ updating # <<>> => \A i \in Joints : lastCommand[i].size = "right"
    /\ updating = <<>> => \A i, j \in Joints : effort[i].command = effort[j].command

(* The joints are scaled with one fault_alpha message of this activation,  *)
(* as a whole, or not at all: a fault does not survive a reactivation.     *)
OneFaultVector == lifecycle = "active" => faultAlpha \in faults

(* Once every request is answered, and if all joints are in the robot      *)
(* description and keep their names when the controller is configured      *)
(* again, each joint is limited by its own limits.                         *)
LimitsOfOwnJoint ==
  asked = 0 /\ ~renamed /\ (\A i \in DOMAIN jointNames : Described(jointNames[i])) =>
    \A i \in DOMAIN jointNames : LimitsAt(i) = jointNames[i]

(* Each joint obeys one command, one fault vector and its own limits.      *)
GroupSafe ==
  /\ GroupTypeOK
  /\ ActivationIsQuiet /\ OneCommandPerUpdate
  /\ OneFaultVector /\ LimitsOfOwnJoint
=============================================================================
