------------------------------- MODULE RealRobot -------------------------------
(***************************************************************************)
(* The node of the real Go2 (RL_Real): it makes the robot give up its own  *)
(* motion service before its loops start, polls the wireless remote once   *)
(* per control tick, and publishes a low-level command for all the motors  *)
(* of the robot.                                                           *)
(*                                                                         *)
(* JoystickHandler and LowStateMessageHandler run on threads of the DDS    *)
(* library and take no lock.  Three buttons stand for the twelve; the low  *)
(* state is left out (one assignment).  The command has one axis, any of   *)
(* the three: the keyboard bounds x and y to the range of their sticks but *)
(* yaw to half the range of its stick.                                     *)
(***************************************************************************)
EXTENDS Integers, Sequences, FiniteSets, SequencesExt

CONSTANTS
  Sticks,      \* values of the remote's axis, in keyboard steps
  MaxCommand,  \* max_linear_command or max_yaw_command, in keyboard steps
  Motors,      \* the motors of the message, those the robot lacks included
  Mappings     \* the joint_mapping of the policies that may be loaded

ASSUME RealAssumption ==
  /\ 0 \in Sticks /\ Sticks \subseteq Int
  /\ MaxCommand \in Nat \ {0}
  /\ Mappings \subseteq Seq(Motors)

VARIABLES
  startup,      \* "check", "release", "loops"
  serviceOn,    \* the robot's own motion service controls the motors
  checkFailed,  \* the last CheckMode failed
  joystick,     \* the last WirelessController_ message
  unitreeJoy,   \* unitree_joy: the keys GetState reads
  handling,     \* JoystickHandler between its two assignments
  untested,     \* GetState: the statements that remain, with the keys each still tests
  keysSeen,     \* history: the keys unitree_joy has shown since the tick began
  steady,       \* history: unitree_joy has not changed since the tick began
  phaseReal,    \* where RobotControl is in its tick
  pad,          \* control.current_gamepad, as the keys of the button or chord
  velocity,     \* control.x, y or yaw, in keyboard steps
  stickRead,    \* history: the stick as GetState read it last
  mapping,      \* the joint_mapping parameter
  lowCommand    \* unitree_low_command: what each motor was told last

realVars == <<startup, serviceOn, checkFailed, joystick, unitreeJoy, handling, untested, keysSeen,
              steady, phaseReal, pad, velocity, stickRead, mapping, lowCommand>>

remoteVars == <<joystick, unitreeJoy, handling>>
serviceVars == <<startup, serviceOn, checkFailed>>
tickVars == <<untested, keysSeen, steady, phaseReal, pad, velocity, stickRead, mapping, lowCommand>>

RemoteKeys == {"X", "L1", "R1"}
-----------------------------------------------------------------------------
(* Main thread: the constructor.                                           *)

StartAt(from, to) == startup = from /\ startup' = to

(* QueryMotionStatus and QueryServiceName: a failed CheckMode leaves the   *)
(* name of the service empty, which reads as "deactivated".                *)
QueryMotionStatus(answered) ==
  /\ StartAt("check", IF answered /\ serviceOn THEN "release" ELSE "loops")
  /\ checkFailed' = ~answered
  /\ UNCHANGED <<serviceOn, remoteVars, tickVars>>

ReleaseTrusted(released) ==  \* mutant: the success of ReleaseMode is not checked again
  /\ StartAt("release", IF released THEN "loops" ELSE "check")
  /\ serviceOn' \in IF released THEN BOOLEAN ELSE {serviceOn}
  /\ UNCHANGED <<checkFailed, remoteVars, tickVars>>

(* ReleaseMode: may fail, and may be confirmed before the service stops.   *)
ReleaseMode(released) ==
  /\ StartAt("release", "check")
  /\ serviceOn' \in IF released THEN BOOLEAN ELSE {serviceOn}
  /\ UNCHANGED <<checkFailed, remoteVars, tickVars>>
-----------------------------------------------------------------------------
(* DDS thread: JoystickHandler.                                            *)

ReceiveJoystick(keys, stick) ==
  /\ ~handling
  /\ joystick' = [keys |-> keys, stick |-> stick]
  /\ handling' = TRUE
  /\ UNCHANGED <<serviceVars, unitreeJoy, tickVars>>

CopyKeys ==
  /\ handling
  /\ handling' = FALSE
  /\ unitreeJoy' = joystick.keys
  /\ keysSeen' = keysSeen \cup unitreeJoy'
  /\ steady' = (steady /\ unitreeJoy' = unitreeJoy)
  /\ UNCHANGED <<serviceVars, joystick, untested, phaseReal, pad, velocity, stickRead, mapping,
                 lowCommand>>
-----------------------------------------------------------------------------
(* Control thread: RobotControl.                                           *)

(* GetState's statements, in its order: the single buttons, the chords of  *)
(* L1, those of R1, and L1 with R1.                                        *)
StatementsChordsFirst ==  \* mutant: a single button overwrites its chord
  << <<"L1", "X">>, <<"R1", "X">>, <<"L1", "R1">>, <<"X">>, <<"L1">>, <<"R1">> >>

Statements == << <<"X">>, <<"L1">>, <<"R1">>, <<"L1", "X">>, <<"R1", "X">>, <<"L1", "R1">> >>

BeginTick ==
  /\ startup = "loops" /\ phaseReal = "idle"
  /\ phaseReal' = "keys"
  /\ untested' = [i \in 1..Len(Statements) |-> [pad |-> Statements[i], test |-> Statements[i]]]
  /\ keysSeen' = unitreeJoy /\ steady' = TRUE
  /\ UNCHANGED <<serviceVars, remoteVars, pad, velocity, stickRead, mapping, lowCommand>>

(* One bit of unitree_joy: if it is not set the statement is over; behind  *)
(* the last one SetGamepad is called.                                      *)
ReadKey ==
  LET s == Head(untested)
  IN  /\ phaseReal = "keys" /\ untested # <<>>
      /\ IF Head(s.test) \in unitreeJoy /\ Len(s.test) > 1
         THEN untested' = <<[s EXCEPT !.test = Tail(s.test)]>> \o Tail(untested)
         ELSE untested' = Tail(untested)
      /\ pad' = IF Head(s.test) \in unitreeJoy /\ Len(s.test) = 1 THEN s.pad ELSE pad
      /\ UNCHANGED <<serviceVars, remoteVars, keysSeen, steady, phaseReal, velocity,
                     stickRead, mapping, lowCommand>>

(* GetState: the axes of the remote replace the command in every tick.     *)
ReadAxes ==
  /\ phaseReal = "keys" /\ untested = <<>>
  /\ phaseReal' = "control"
  /\ velocity' = joystick.stick /\ stickRead' = joystick.stick
  /\ UNCHANGED <<serviceVars, remoteVars, untested, keysSeen, steady, pad, mapping, lowCommand>>

(* StateController: the state machine may load a policy (and then clears   *)
(* the command), the keyboard moves the command.  W and S stand for the two*)
(* keys of the axis, "None" for no key and for those of another axis.      *)
Bounded(v) == IF v > MaxCommand THEN MaxCommand ELSE IF v < -MaxCommand THEN -MaxCommand ELSE v

StateController(key) ==
  /\ phaseReal = "control"
  /\ phaseReal' = "command"
  /\ mapping' \in Mappings
  /\ \E x \in IF mapping' = mapping THEN {velocity, 0} ELSE {0} :
       velocity' = CASE key = "W" -> Bounded(x + 1)
                    [] key = "S" -> Bounded(x - 1)
                    [] key = "Space" -> 0
                    [] key = "None" -> x
  /\ UNCHANGED <<serviceVars, remoteVars, untested, keysSeen, steady, pad, stickRead, lowCommand>>

(* ClearInput, SetCommand: a motor is told to stop, or the command of the  *)
(* joint that is mapped to it last.                                        *)
CommandOver(before) ==
  [m \in Motors |-> IF \E i \in DOMAIN mapping : mapping[i] = m
                    THEN Max({i \in DOMAIN mapping : mapping[i] = m})
                    ELSE before[m]]

SetCommandReuses ==  \* mutant: the previous message is filled in again
  /\ phaseReal = "command"
  /\ phaseReal' = "idle"
  /\ pad' = <<>>
  /\ lowCommand' = CommandOver(lowCommand)
  /\ UNCHANGED <<serviceVars, remoteVars, untested, keysSeen, steady, velocity, stickRead,
                 mapping>>

SetCommandReal ==
  /\ phaseReal = "command"
  /\ phaseReal' = "idle"
  /\ pad' = <<>>
  /\ lowCommand' = CommandOver([m \in Motors |-> 0])
  /\ UNCHANGED <<serviceVars, remoteVars, untested, keysSeen, steady, velocity, stickRead,
                 mapping>>
-----------------------------------------------------------------------------
(* unitree_joy has no initialiser: until the first message its keys are    *)
(* whatever the memory held.  InitLowCmd stops every motor.                *)
RealInit ==
  /\ startup = "check" /\ serviceOn \in BOOLEAN /\ checkFailed = FALSE
  /\ joystick = [keys |-> {}, stick |-> 0]
  /\ unitreeJoy \in SUBSET RemoteKeys
  /\ handling = FALSE
  /\ untested = <<>> /\ keysSeen = {} /\ steady = TRUE /\ phaseReal = "idle"
  /\ pad = <<>> /\ velocity = 0 /\ stickRead = 0
  /\ mapping \in Mappings
  /\ lowCommand = [m \in Motors |-> 0]

RealNext ==
  \/ \E answered \in BOOLEAN : QueryMotionStatus(answered)
  \/ \E released \in BOOLEAN : ReleaseMode(released)
  \/ \E keys \in SUBSET RemoteKeys, stick \in Sticks : ReceiveJoystick(keys, stick)
  \/ CopyKeys
  \/ BeginTick \/ ReadKey \/ ReadAxes
  \/ \E key \in {"W", "S", "Space", "None"} : StateController(key)
  \/ SetCommandReal

RealSpec == RealInit /\ [][RealNext]_realVars
-----------------------------------------------------------------------------
RealTypeOK ==
  /\ startup \in {"check", "release", "loops"}
  /\ serviceOn \in BOOLEAN /\ checkFailed \in BOOLEAN
  /\ joystick \in [keys : SUBSET RemoteKeys, stick : Sticks]
  /\ unitreeJoy \in SUBSET RemoteKeys /\ keysSeen \in SUBSET RemoteKeys
  /\ handling \in BOOLEAN /\ steady \in BOOLEAN
  /\ phaseReal \in {"idle", "keys", "control", "command"}
  /\ pad = <<>> \/ \E i \in DOMAIN Statements : pad = Statements[i]
  /\ velocity \in Sticks \cup -MaxCommand..MaxCommand /\ stickRead \in Sticks
  /\ mapping \in Mappings
  /\ lowCommand \in [Motors -> Nat]

(* "Shut down motion control-related service" (the constructor): the loops *)
(* command the motors only when the robot's own service has let go of them *)
(* - or when nobody knows, because CheckMode failed.                       *)
ServiceLetGo == startup = "loops" /\ ~checkFailed => ~serviceOn

(* A button or chord the state machine sees is made of keys that were held *)
(* in this very tick, though a chord may be pieced together from two       *)
(* messages; and if the remote did not change during the tick, no chord    *)
(* that was held is hidden by one of its buttons or by no button at all.   *)
PadIsOfThisTick ==
  phaseReal = "control" =>
    /\ Range(pad) \subseteq keysSeen
    /\ steady => \A i \in DOMAIN Statements :
           LET keys == Range(Statements[i])
           IN  keys \subseteq unitreeJoy => keys = Range(pad) \/ ~ Range(pad) \subseteq keys

(* The keyboard moves the command at most one step away from the stick, or *)
(* from zero where a policy was engaged - or cuts a stick that is beyond   *)
(* the keyboard's bound down to it, as Q or E does to a yaw stick past the *)
(* middle of its range.  A key held down never adds up, and once it is     *)
(* released nothing of it is left.                                         *)
KeyboardNeverAddsUp ==
  \E base \in {stickRead, 0} :
    \/ velocity - base \in -1..1
    \/ base > MaxCommand /\ velocity = MaxCommand
    \/ base < -MaxCommand /\ velocity = -MaxCommand

(* A motor that is not in the joint_mapping of the policy that commands is *)
(* told to stop, whatever an earlier policy told it.                       *)
NoForgottenMotor ==
  phaseReal # "command" => \A m \in Motors :
    lowCommand[m] # 0 => \E i \in DOMAIN mapping : mapping[i] = m

(* What reaches the motors of the real robot comes from who should send it.*)
RealRobotSafe ==
  /\ RealTypeOK /\ ServiceLetGo
  /\ PadIsOfThisTick /\ KeyboardNeverAddsUp
  /\ NoForgottenMotor
=============================================================================
