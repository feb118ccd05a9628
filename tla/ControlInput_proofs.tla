------------------------ MODULE ControlInput_proofs ------------------------
(***************************************************************************)
(* Proof that no key and no button acts twice, for any number of presses,  *)
(* any range of the command and the stick and any joystick messages of the *)
(* model.                                                                  *)
(***************************************************************************)
EXTENDS ControlInput, TLAPS

Ticks == {"fsm", "axes", "reset", "simulation", "clear", "clearing"}

(* The steps of a tick before which a key or a button still acts on it.    *)
KeyActsFrom(k) ==
  CASE k \in {"W", "S", "Space", "N"} -> {"fsm", "axes"}
    [] k = "R"     -> {"fsm", "axes", "reset"}
    [] k = "Enter" -> {"fsm", "axes", "reset", "simulation"}
    [] OTHER       -> {}

PadActsFrom(p) ==
  CASE p = "X"    -> {"fsm", "axes"}
    [] p = "RB_Y" -> {"fsm", "axes", "reset"}
    [] p = "RB_X" -> {"fsm", "axes", "reset", "simulation"}
    [] OTHER      -> {}

(* What may still act: a key that is typed or waits for its step, a button *)
(* that waits for its step, and the calls the callback has still to make.  *)
KeyWaits == typed # "None" \/ tick \in KeyActsFrom(keyboard)
PadWaits == tick \in PadActsFrom(gamepad)
Waiting == (IF KeyWaits THEN 1 ELSE 0) + (IF PadWaits THEN 1 ELSE 0) + Len(buttons)

(* Until a key overruns another one there is no key to restore, so every   *)
(* press has acted, waits, or is lost.                                     *)
NothingRestored ==
  lastKeyboard = "None" /\ cleared = "None" /\ (typed # "None" => keyboard = "None")

IInv == ~overrun => NothingRestored /\ effects + Waiting <= presses
-----------------------------------------------------------------------------
(* What one joystick message adds to the calls to make.                    *)
LEMMA CallsAreButtons ==
  ASSUME NEW m \in Messages
  PROVE  CallsFor(m) \in Seq(Pads) /\ CallsFor(m) # <<>>
  <1>1. m \in {"X", "LB_X", "RB_X", "RB_Y"}
    BY InputAssumption DEF InputAssumption
  <1>2. CASE m = "X"
    BY <1>2 DEF CallsFor, Pads
  <1>3. CASE m = "LB_X"
    BY <1>3 DEF CallsFor, Pads
  <1>4. CASE m = "RB_X"
    BY <1>4 DEF CallsFor, Pads
  <1>5. CASE m = "RB_Y"
    BY <1>5 DEF CallsFor, Pads
  <1> QED
    BY <1>1, <1>2, <1>3, <1>4, <1>5

LEMMA CommandStaysBounded ==
  ASSUME x \in Axes \cup -MaxCommand..MaxCommand, NEW k
  PROVE  CommandFor(k) \in Axes \cup -MaxCommand..MaxCommand
  BY InputAssumption DEF InputAssumption, CommandFor, Clamp

(* Every variable keeps its type.                                          *)
THEOREM TypeCorrect == ControlSpec => []ControlTypeOK
<1> USE InputAssumption DEF InputAssumption
<1>1. ControlInit => ControlTypeOK
  <2> SUFFICES ASSUME ControlInit PROVE ControlTypeOK
    OBVIOUS
  <2>1. navigationMode \in BOOLEAN /\ simRunning \in BOOLEAN /\ overrun \in BOOLEAN
    BY Zenon DEF ControlInit
  <2>2. x \in Axes \cup -MaxCommand..MaxCommand /\ presses \in 0..MaxPresses /\ effects \in Nat
    BY DEF ControlInit
  <2> QED
    BY <2>1, <2>2 DEF ControlInit, ControlTypeOK, Pads
<1>2. ControlTypeOK /\ [ControlNext]_controlInputVars => ControlTypeOK'
  <2> SUFFICES ASSUME ControlTypeOK, [ControlNext]_controlInputVars PROVE ControlTypeOK'
    OBVIOUS
  <2> USE DEF ControlTypeOK
  <2>1. ASSUME NEW k \in Keys, SaveLastKey(k) PROVE ControlTypeOK'
    BY <2>1 DEF SaveLastKey
  <2>2. CASE WriteKey
    BY <2>2 DEF WriteKey, historyVars
  <2>3. ASSUME NEW m \in Messages, JoyMessage(m) PROVE ControlTypeOK'
    <3>1. buttons' \in Seq(Pads)
      BY <2>3, CallsAreButtons DEF JoyMessage
    <3>2. Len(buttons') \in Nat
      BY <3>1
    <3> QED
      BY <2>3, <3>1, <3>2 DEF JoyMessage, controlVars
  <2>4. ASSUME NEW a \in Axes, SetGamepad(a) PROVE ControlTypeOK'
    <3>1. Head(buttons) \in Pads /\ Tail(buttons) \in Seq(Pads)
      BY <2>4 DEF SetGamepad
    <3> QED
      BY <2>4, <3>1 DEF SetGamepad, historyVars
  <2>5. CASE FsmRun
    BY <2>5 DEF FsmRun, Step, historyVars
  <2>6. CASE UpdateCommand
    <3>1. x' \in Axes \cup -MaxCommand..MaxCommand
      BY <2>6, CommandStaysBounded DEF UpdateCommand
    <3>2. effects' \in Nat
      BY <2>6 DEF UpdateCommand, Acts
    <3>3. navigationMode' \in BOOLEAN
      BY <2>6 DEF UpdateCommand
    <3> QED
      BY <2>6, <3>1, <3>2, <3>3 DEF UpdateCommand, Step
  <2>7. CASE ResetWorld
    BY <2>7 DEF ResetWorld, Step, Acts
  <2>8. CASE ToggleSimulation
    <3>1. effects' \in Nat
      BY <2>8 DEF ToggleSimulation, Acts
    <3>2. simRunning' \in BOOLEAN
      BY <2>8 DEF ToggleSimulation
    <3> QED
      BY <2>8, <3>1, <3>2 DEF ToggleSimulation, Step
  <2>9. CASE ReadLastKey
    BY <2>9 DEF ReadLastKey, Step, controlVars, historyVars
  <2>10. CASE ClearInput
    BY <2>10 DEF ClearInput, Step, historyVars, Pads
  <2>11. CASE UNCHANGED controlInputVars
    BY <2>11 DEF controlInputVars, controlVars, threadVars, historyVars
  <2> QED
    BY <2>1, <2>2, <2>3, <2>4, <2>5, <2>6, <2>7, <2>8, <2>9, <2>10, <2>11
       DEF ControlNext, RobotControl, KeyboardInterface, JoyCallback
<1> QED
  BY <1>1, <1>2, PTL DEF ControlSpec
-----------------------------------------------------------------------------
(* Every step spends what waits, adds it to the presses, or loses it.      *)
LEMMA IInvInvariance == ControlSpec => []IInv
<1>1. ControlInit => IInv
  BY DEF ControlInit, IInv, NothingRestored, Waiting, KeyWaits, PadWaits, KeyActsFrom, PadActsFrom
<1>2. ControlTypeOK /\ IInv /\ [ControlNext]_controlInputVars => IInv'
  <2> SUFFICES ASSUME ControlTypeOK, IInv, [ControlNext]_controlInputVars, ~overrun'
               PROVE  NothingRestored' /\ (effects + Waiting <= presses)'
    BY DEF IInv
  <2>a. ~overrun
    BY DEF ControlNext, RobotControl, KeyboardInterface, JoyCallback, SaveLastKey, WriteKey,
           JoyMessage, SetGamepad, FsmRun, UpdateCommand, ResetWorld, ToggleSimulation,
           ReadLastKey, ClearInput, controlInputVars, controlVars, threadVars, historyVars
  <2>b. /\ NothingRestored /\ effects + Waiting <= presses
        /\ buttons \in Seq(Pads) /\ Len(buttons) \in Nat
        /\ effects \in Nat /\ presses \in Nat /\ tick \in Ticks
        /\ keyboard \in Keys \cup {"None"} /\ gamepad \in Pads
    BY <2>a DEF IInv, ControlTypeOK, Ticks
  <2> USE <2>a, <2>b
  <2> USE DEF NothingRestored, Waiting, KeyWaits, PadWaits
  <2>1. ASSUME NEW k \in Keys, SaveLastKey(k)
        PROVE  NothingRestored' /\ (effects + Waiting <= presses)'
    <3>1. keyboard = "None" /\ k # "None"
      BY <2>1 DEF SaveLastKey, Keys
    <3>2. ~KeyWaits
      BY <2>1, <3>1 DEF SaveLastKey, KeyActsFrom
    <3> QED
      BY <2>1, <3>1, <3>2 DEF SaveLastKey
  <2>2. CASE WriteKey
    BY <2>2 DEF WriteKey, historyVars
  <2>3. ASSUME NEW m \in Messages, JoyMessage(m)
        PROVE  NothingRestored' /\ (effects + Waiting <= presses)'
    <3>1. buttons' \in Seq(Pads) /\ Len(buttons') \in Nat /\ Len(buttons) = 0
      BY <2>3, CallsAreButtons DEF JoyMessage
    <3> QED
      BY <2>3, <3>1 DEF JoyMessage, controlVars
  <2>4. ASSUME NEW a \in Axes, SetGamepad(a)
        PROVE  NothingRestored' /\ (effects + Waiting <= presses)'
    <3>1. Len(buttons') = Len(buttons) - 1
      BY <2>4 DEF SetGamepad
    <3> QED
      BY <2>4, <3>1 DEF SetGamepad, historyVars
  <2>5. CASE FsmRun
    BY <2>5 DEF FsmRun, Step, historyVars, KeyActsFrom, PadActsFrom
  <2>6. CASE UpdateCommand
    BY <2>6 DEF UpdateCommand, Step, Acts, KeyActsFrom, PadActsFrom, Keys, Pads
  <2>7. CASE ResetWorld
    BY <2>7 DEF ResetWorld, Step, Acts, KeyActsFrom, PadActsFrom, Keys, Pads
  <2>8. CASE ToggleSimulation
    BY <2>8 DEF ToggleSimulation, Step, Acts, KeyActsFrom, PadActsFrom, Keys, Pads
  <2>9. CASE ReadLastKey
    BY <2>9 DEF ReadLastKey, Step, controlVars, historyVars, KeyActsFrom, PadActsFrom
  <2>10. CASE ClearInput
    BY <2>10 DEF ClearInput, Step, historyVars, KeyActsFrom, PadActsFrom
  <2>11. CASE UNCHANGED controlInputVars
    BY <2>11 DEF controlInputVars, controlVars, threadVars, historyVars
  <2> QED
    BY <2>1, <2>2, <2>3, <2>4, <2>5, <2>6, <2>7, <2>8, <2>9, <2>10, <2>11
       DEF ControlNext, RobotControl, KeyboardInterface, JoyCallback
<1> QED
  BY <1>1, <1>2, TypeCorrect, PTL DEF ControlSpec

(* SetKeyboard, ClearInput and the two restores of last_keyboard: as long  *)
(* as no key overruns another one, whatever the order of the threads, no   *)
(* press acts twice.                                                       *)
THEOREM PressesActOnce == ControlSpec => []EachPressActsOnce
<1>1. ControlTypeOK /\ IInv => EachPressActsOnce
  <2> SUFFICES ASSUME ControlTypeOK, IInv, ~overrun PROVE effects <= presses
    BY DEF EachPressActsOnce
  <2>1. Waiting \in Nat
    BY DEF Waiting, ControlTypeOK
  <2> QED
    BY <2>1 DEF IInv, ControlTypeOK
<1> QED
  BY <1>1, IInvInvariance, TypeCorrect, PTL
=============================================================================
