----------------------------- MODULE SysJoystick -----------------------------
(***************************************************************************)
(* The joystick of the MuJoCo node: loop_joystick drains the events of the *)
(* device (GetSysJoystick), turns them into gamepad buttons and chords and *)
(* into the velocity command, which the keyboard writes as well.  The      *)
(* control tick reads and clears the button.  One call of GetSysJoystick   *)
(* is one step here: what comes between its writes is in ControlInput.     *)
(***************************************************************************)
EXTENDS Naturals, SequencesExt

CONSTANT MaxEvents   \* bound: events the device holds between two polls

ASSUME EventsAssumption == MaxEvents \in Nat \ {0}

VARIABLES
  events,     \* what the device has queued
  held,       \* the buttons the operator holds
  pressed,    \* sys_js_button[].pressed
  dpad,       \* an axis of the directional pad is off centre
  axis,       \* the stick is out of its dead zone: sys_js_axis
  stickActive, \* sys_js_active
  gamepad,    \* control.current_gamepad
  command     \* who wrote the velocity command last: "zero", "stick" or "key"

joystickVars == <<events, held, pressed, dpad, axis, stickActive, gamepad, command>>

Buttons == {"A", "LB", "RB"}

Pads == {"None", "A", "LB", "RB", "DPad", "LB_A", "LB_DPad", "RB_A", "RB_DPad", "LB_RB"}

ButtonEvent(b, down) == [of |-> b, value |-> down]
AxisEvent(of, out) == [of |-> of, value |-> out]
-----------------------------------------------------------------------------
(* A poll: the state of buttons and axes after an event.                   *)

Polled == [pressed |-> pressed, on_press |-> {}, dpad |-> dpad, axis |-> axis]

UpdateForgetsEdge(s, e) ==  \* mutant: pressed is set before on_press is computed
  CASE e.of = "dpad" -> [s EXCEPT !.dpad = e.value]
    [] e.of = "axis" -> [s EXCEPT !.axis = e.value]
    [] OTHER -> [s EXCEPT !.pressed = IF e.value THEN @ \cup {e.of} ELSE @ \ {e.of}]

(* Button::update: a later event of the same poll replaces on_press, so a  *)
(* button pressed and released within one poll was never pressed.          *)
UpdateState(s, e) ==
  CASE e.of = "dpad" -> [s EXCEPT !.dpad = e.value]
    [] e.of = "axis" -> [s EXCEPT !.axis = e.value]
    [] OTHER ->
         [s EXCEPT !.on_press = IF e.value /\ e.of \notin s.pressed THEN @ \cup {e.of}
                                                                  ELSE @ \ {e.of},
                   !.pressed = IF e.value THEN @ \cup {e.of} ELSE @ \ {e.of}]

Drained == FoldLeft(UpdateState, Polled, events)

Call(condition, pad) == IF condition THEN <<pad>> ELSE <<>>

CallsPlainLast(s) ==  \* mutant: the single buttons come after the chords
  LET on(b) == b \in s.on_press
      holds(b) == b \in s.pressed
  IN  Call(holds("LB") /\ on("A"), "LB_A") \o Call(holds("RB") /\ on("A"), "RB_A")
      \o Call(holds("LB") /\ on("RB"), "LB_RB")
      \o Call(on("A"), "A") \o Call(on("LB"), "LB") \o Call(on("RB"), "RB")
      \o Call(s.dpad, "DPad")

(* The calls of SetGamepad, in order: the last one stays.                  *)
Calls(s) ==
  LET on(b) == b \in s.on_press
      holds(b) == b \in s.pressed
  IN  Call(on("A"), "A") \o Call(on("LB"), "LB") \o Call(on("RB"), "RB")
      \o Call(s.dpad, "DPad")
      \o Call(holds("LB") /\ on("A"), "LB_A") \o Call(holds("LB") /\ s.dpad, "LB_DPad")
      \o Call(holds("RB") /\ on("A"), "RB_A") \o Call(holds("RB") /\ s.dpad, "RB_DPad")
      \o Call(holds("LB") /\ on("RB"), "LB_RB")

StickAlwaysWrites(out) ==  \* mutant: a centred stick leaves its last command
  /\ command' = IF out THEN "stick" ELSE command
  /\ stickActive' = out

(* A stick out of the dead zone writes the command; back in the centre it  *)
(* zeroes the command once, then leaves it to the keyboard.                *)
StickCommand(out) ==
  /\ command' = IF out THEN "stick" ELSE IF stickActive THEN "zero" ELSE command
  /\ stickActive' = out

GetSysJoystick ==
  /\ events' = <<>>
  /\ pressed' = Drained.pressed /\ dpad' = Drained.dpad /\ axis' = Drained.axis
  /\ gamepad' = IF Calls(Drained) = <<>> THEN gamepad ELSE Last(Calls(Drained))
  /\ StickCommand(Drained.axis)
  /\ UNCHANGED held
-----------------------------------------------------------------------------
(* The operator and the other threads.                                     *)

Happens(e) == Len(events) < MaxEvents /\ events' = Append(events, e)

PressOrRelease(b) ==
  /\ held' = IF b \in held THEN held \ {b} ELSE held \cup {b}
  /\ Happens(ButtonEvent(b, b \notin held))
  /\ UNCHANGED <<pressed, dpad, axis, stickActive, gamepad, command>>

MoveAxis(of) ==
  /\ \E out \in BOOLEAN : Happens(AxisEvent(of, out))
  /\ UNCHANGED <<held, pressed, dpad, axis, stickActive, gamepad, command>>

KeyCommand ==
  /\ command' = "key"
  /\ UNCHANGED <<events, held, pressed, dpad, axis, stickActive, gamepad>>

ClearGamepad ==
  /\ gamepad' = "None"
  /\ UNCHANGED <<events, held, pressed, dpad, axis, stickActive, command>>

JoystickInit ==
  /\ events = <<>> /\ held = {} /\ pressed = {}
  /\ dpad = FALSE /\ axis = FALSE /\ stickActive = FALSE
  /\ gamepad = "None" /\ command = "zero"

JoystickNext ==
  \/ GetSysJoystick \/ KeyCommand \/ ClearGamepad
  \/ \E b \in Buttons : PressOrRelease(b)
  \/ \E of \in {"dpad", "axis"} : MoveAxis(of)

JoystickSpec == JoystickInit /\ [][JoystickNext]_joystickVars
-----------------------------------------------------------------------------
JoystickTypeOK ==
  /\ Len(events) <= MaxEvents
  /\ held \in SUBSET Buttons /\ pressed \in SUBSET Buttons
  /\ {dpad, axis, stickActive} \subseteq BOOLEAN
  /\ gamepad \in Pads /\ command \in {"zero", "stick", "key"}

(* A chord is never taken for its plain button: A, which makes the robot   *)
(* get up, does not get through while LB or RB is held.                    *)
ChordHidesButton == gamepad = "A" => pressed \cap {"LB", "RB"} = {}

(* The stick's command does not outlive the stick: once the poll has seen  *)
(* it in the centre the robot is not driven by it any more.                *)
StickNeverSticks == command = "stick" => axis

(* A press that lasts until the next poll is seen by it, even if the same  *)
(* button was released and pressed again in between.                       *)
HeldPressSeen ==
  [][events # <<>> /\ events' = <<>> /\ held \ pressed # {} => gamepad' # "None"]_joystickVars

(* What the operator does on the joystick is what the robot is told.       *)
JoystickObeyed ==
  [](JoystickTypeOK /\ ChordHidesButton /\ StickNeverSticks) /\ HeldPressSeen
=============================================================================
