----------------------------- MODULE MCOperator -----------------------------
(***************************************************************************)
(* What an operator touches besides the keyboard, in four parts that no    *)
(* operation relates: the history and the keys of the MuJoCo viewer, the   *)
(* joystick of the MuJoCo node, the remote of the real robot.  Each        *)
(* behaviour is one of one part.                                           *)
(***************************************************************************)
EXTENDS ViewerHistory, ViewerInput, SysJoystick, RealRobot

VARIABLE part   \* the part that moves

operatorVars == <<part, historyVars, inputVars, joystickVars, realVars>>

Parts == {"history", "input", "joystick", "real"}

HistoryPart ==
  part = "history" /\ HistoryNext /\ UNCHANGED <<part, inputVars, joystickVars, realVars>>

InputPart ==
  part = "input" /\ InputNext /\ UNCHANGED <<part, historyVars, joystickVars, realVars>>

JoystickPart ==
  part = "joystick" /\ JoystickNext /\ UNCHANGED <<part, historyVars, inputVars, realVars>>

RealPart ==
  part = "real" /\ RealNext /\ UNCHANGED <<part, historyVars, inputVars, joystickVars>>

(* The other parts rest in one of their initial states.                    *)
OperatorInit ==
  /\ part \in Parts
  /\ HistoryInit /\ InputInit /\ JoystickInit /\ RealInit
  /\ part # "input" => ncam = 0
  /\ part # "real" => unitreeJoy = {} /\ ~serviceOn /\ mapping = <<1, 2>>

OperatorNext == HistoryPart \/ InputPart \/ JoystickPart \/ RealPart

OperatorSpec == OperatorInit /\ [][OperatorNext]_operatorVars
-----------------------------------------------------------------------------
(* At rest, at the bound of the keyboard on one side, and beyond it on the *)
(* other.                                                                  *)
StickValues == {-2, 0, 4}

JointMappings == {<<1, 2>>, <<2, 3>>}
=============================================================================
