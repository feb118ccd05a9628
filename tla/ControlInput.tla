---------------------------- MODULE ControlInput ----------------------------
(***************************************************************************)
(* The operator's input: struct Control is written by the keyboard thread  *)
(* (KeyboardInterface), by the joystick callback (JoyCallback) and, at the *)
(* end of every tick, by the control thread, none of which takes a lock.   *)
(* The tick is split where another thread can get in between.              *)
(*                                                                         *)
(* The command has one axis, any of x, y and yaw, in command steps; W and  *)
(* S are its keys, which bound yaw to half the range of its stick.  "P"    *)
(* stands for the keys that only the state machine reads.                  *)
(***************************************************************************)
EXTENDS Integers, Sequences

CONSTANTS
  MaxCommand,   \* max_linear_command or max_yaw_command, in command steps
  Axes,         \* values of the joystick's axis, in command steps
  Messages,     \* the joystick messages that may arrive, {} without a joystick
  MaxPresses    \* bound: keys and buttons the operator presses

ASSUME InputAssumption ==
  /\ MaxCommand \in Nat \ {0} /\ Axes \subseteq Int
  /\ Messages \subseteq {"X", "LB_X", "RB_X", "RB_Y"}
  /\ MaxPresses \in Nat

VARIABLES
  keyboard, lastKeyboard, gamepad,   \* struct Control
  x, navigationMode,
  simRunning,                        \* simulation_running
  tick,          \* where the control thread is in its tick
  cleared,       \* the key ClearInput has read and is about to write
  typed,         \* the key SetKeyboard is about to write, or "None"
  buttons,       \* the SetGamepad calls JoyCallback has still to make
  overrun,       \* history: a key arrived before the previous one was cleared
  presses,       \* history: keys pressed and SetGamepad calls to make
  effects        \* history: command steps, toggles and resets they caused before an overrun

controlVars == <<keyboard, lastKeyboard, gamepad, x, navigationMode, simRunning>>
threadVars == <<tick, cleared, typed, buttons>>
historyVars == <<overrun, presses, effects>>
controlInputVars == <<controlVars, threadVars, historyVars>>

Keys == {"P", "W", "S", "Space", "N", "R", "Enter"}
Pads == {"None", "X", "Y", "LB", "LB_X", "RB", "RB_X", "RB_Y"}

(* The SetGamepad calls one joystick message makes, in order: a chord sets *)
(* its single buttons first.                                               *)
CallsFor(message) ==
  CASE message = "X"    -> <<"X">>
    [] message = "LB_X" -> <<"X", "LB", "LB_X">>
    [] message = "RB_X" -> <<"X", "RB", "RB_X">>
    [] message = "RB_Y" -> <<"Y", "RB", "RB_Y">>
-----------------------------------------------------------------------------
(* Keyboard thread: SetKeyboard saves the current key, then writes its own.*)

SaveLastKey(k) ==
  /\ typed = "None"
  /\ presses < MaxPresses
  /\ presses' = presses + 1
  /\ IF keyboard # k
     THEN /\ lastKeyboard' = keyboard
          /\ typed' = k
     ELSE UNCHANGED <<lastKeyboard, typed>>
  /\ overrun' = (overrun \/ keyboard # "None")
  /\ UNCHANGED <<keyboard, gamepad, x, navigationMode, simRunning, tick, cleared, buttons,
                 effects>>

WriteKey ==
  /\ typed # "None"
  /\ keyboard' = typed
  /\ typed' = "None"
  /\ UNCHANGED <<lastKeyboard, gamepad, x, navigationMode, simRunning, tick, cleared,
                 buttons, historyVars>>
-----------------------------------------------------------------------------
(* Joystick callback: the SetGamepad calls one by one, then the axes.      *)

JoyMessage(message) ==
  /\ buttons = <<>>
  /\ buttons' = CallsFor(message)
  /\ presses' = presses + Len(buttons')
  /\ presses' <= MaxPresses
  /\ UNCHANGED <<controlVars, tick, cleared, typed, overrun, effects>>

SetGamepad(axis) ==
  /\ buttons # <<>>
  /\ gamepad' = Head(buttons)
  /\ buttons' = Tail(buttons)
  /\ x' = IF Tail(buttons) = <<>> THEN axis ELSE x
  /\ UNCHANGED <<keyboard, lastKeyboard, navigationMode, simRunning, tick, cleared, typed,
                 historyVars>>
-----------------------------------------------------------------------------
(* Control thread.                                                         *)

(* The tick acts on a key or a button: counted until the first overrun.    *)
Acts(on) == effects' = IF on /\ ~overrun THEN effects + 1 ELSE effects

Step(from, to) == tick = from /\ tick' = to

(* fsm.Run reads the key; entering RLLocomotion also clears the command    *)
(* (InitControl).                                                          *)
FsmRun ==
  /\ Step("fsm", "axes")
  /\ x' \in {x, 0}
  /\ UNCHANGED <<keyboard, lastKeyboard, gamepad, navigationMode, simRunning, cleared,
                 typed, buttons, historyVars>>

Clamp(v) == IF v > MaxCommand THEN MaxCommand ELSE IF v < -MaxCommand THEN -MaxCommand ELSE v

(* The rest of StateController: the key moves or clears the command.       *)
CommandFor(key) ==
  CASE key = "W"     -> Clamp(x + 1)
    [] key = "S"     -> Clamp(x - 1)
    [] key = "Space" -> 0
    [] OTHER         -> x

UpdateCommand ==
  /\ Step("axes", "reset")
  /\ x' = CommandFor(keyboard)
  /\ navigationMode' = IF keyboard = "N" \/ gamepad = "X" THEN ~navigationMode ELSE navigationMode
  /\ Acts(keyboard \in {"W", "S", "Space", "N"} \/ gamepad = "X")
  /\ UNCHANGED <<keyboard, lastKeyboard, gamepad, simRunning, cleared, typed, buttons,
                 overrun, presses>>

(* RobotControl: R or RB_Y asks Gazebo to reset the world and restores the *)
(* last key.                                                               *)
ResetWorld ==
  /\ Step("reset", "simulation")
  /\ keyboard' = IF keyboard = "R" \/ gamepad = "RB_Y" THEN lastKeyboard ELSE keyboard
  /\ Acts(keyboard = "R" \/ gamepad = "RB_Y")
  /\ UNCHANGED <<lastKeyboard, gamepad, x, navigationMode, simRunning, cleared, typed,
                 buttons, overrun, presses>>

(* RobotControl: Enter or RB_X pauses or resumes and restores the last key.*)
ToggleSimulation ==
  /\ Step("simulation", "clear")
  /\ IF keyboard = "Enter" \/ gamepad = "RB_X"
     THEN /\ simRunning' = ~simRunning
          /\ keyboard' = lastKeyboard
     ELSE UNCHANGED <<simRunning, keyboard>>
  /\ Acts(keyboard = "Enter" \/ gamepad = "RB_X")
  /\ UNCHANGED <<lastKeyboard, gamepad, x, navigationMode, cleared, typed, buttons,
                 overrun, presses>>

(* ClearInput: current_keyboard = last_keyboard, a read and a write.       *)
ReadLastKey ==
  /\ Step("clear", "clearing")
  /\ cleared' = lastKeyboard
  /\ UNCHANGED <<controlVars, typed, buttons, historyVars>>

ClearInputKeepsKey ==  \* mutant: current_keyboard is not written
  /\ Step("clearing", "fsm")
  /\ gamepad' = "None" /\ cleared' = "None"
  /\ UNCHANGED <<keyboard, lastKeyboard, x, navigationMode, simRunning, typed, buttons,
                 historyVars>>

ClearInput ==
  /\ Step("clearing", "fsm")
  /\ keyboard' = cleared /\ cleared' = "None"
  /\ gamepad' = "None"
  /\ UNCHANGED <<lastKeyboard, x, navigationMode, simRunning, typed, buttons, historyVars>>
-----------------------------------------------------------------------------
ControlInit ==
  /\ keyboard = "None" /\ lastKeyboard = "None" /\ gamepad = "None"
  /\ x = 0 /\ navigationMode = FALSE /\ simRunning = TRUE
  /\ tick = "fsm" /\ cleared = "None" /\ typed = "None" /\ buttons = <<>>
  /\ overrun = FALSE
  /\ presses = 0 /\ effects = 0

RobotControl ==
  FsmRun \/ UpdateCommand \/ ResetWorld \/ ToggleSimulation \/ ReadLastKey \/ ClearInput
KeyboardInterface == (\E k \in Keys : SaveLastKey(k)) \/ WriteKey
JoyCallback ==
  \/ \E m \in Messages : JoyMessage(m)
  \/ \E axis \in Axes : SetGamepad(axis)

ControlNext == RobotControl \/ KeyboardInterface \/ JoyCallback

ControlSpec == ControlInit /\ [][ControlNext]_controlInputVars
ControlFairSpec == ControlSpec /\ WF_controlInputVars(RobotControl) /\ WF_controlInputVars(WriteKey)
-----------------------------------------------------------------------------
ControlTypeOK ==
  /\ keyboard \in Keys \cup {"None"} /\ lastKeyboard \in Keys \cup {"None"}
  /\ gamepad \in Pads
  /\ x \in Axes \cup -MaxCommand..MaxCommand
  /\ navigationMode \in BOOLEAN /\ simRunning \in BOOLEAN
  /\ tick \in {"fsm", "axes", "reset", "simulation", "clear", "clearing"}
  /\ cleared \in Keys \cup {"None"} /\ typed \in Keys \cup {"None"}
  /\ buttons \in Seq(Pads)
  /\ overrun \in BOOLEAN
  /\ presses \in 0..MaxPresses /\ effects \in Nat

(* As long as every key finds the previous one cleared, every key and      *)
(* every SetGamepad call acts at most once, wherever in the tick it        *)
(* arrives: no command step, toggle or reset is repeated by ClearInput and *)
(* the two restores of last_keyboard.  (A chord may act as its single      *)
(* button and as itself: these are two calls.)                             *)
EachPressActsOnce == ~overrun => effects <= presses

(* A key that found the previous one cleared is itself cleared by the end  *)
(* of a tick, unless another one overruns it: no key sticks on its own.    *)
KeysAreCleared == (keyboard # "None" /\ ~overrun) ~> (keyboard = "None" \/ overrun)
=============================================================================
