----------------------------- MODULE ViewerInput -----------------------------
(***************************************************************************)
(* Mouse, camera and perturbation of the MuJoCo viewer: the window adapter *)
(* (platform_ui_adapter.cc) turns button events into UiEvent calls, which  *)
(* leave work for Sync at the end of the frame.  Rectangle 3 is the 3D     *)
(* view; 0 is none, 1 stands for the panels.  Bodies are numbers, 0 the    *)
(* world.  Whether two presses are close enough for a double click is the  *)
(* user's choice.                                                          *)
(***************************************************************************)
EXTENDS Integers, FiniteSets

CONSTANTS
  CameraCounts,  \* the ncam of the models that may be loaded
  Bodies,        \* the bodies that can be selected
  MaxCamera      \* bound: the menu index that ] counts to past the last camera

ASSUME InputAssumption ==
  /\ CameraCounts \subseteq Nat /\ Bodies \subseteq Nat \ {0}
  /\ MaxCamera \in Nat

VARIABLES
  frame,      \* "free", or "events" between PollEvents and Sync
  down,       \* the mouse buttons held
  dragrect,   \* state_.dragrect
  cam,        \* type, fixedcamid and trackbodyid of mjvCamera
  camera,     \* Simulate::camera
  ncam,       \* Simulate::ncam_
  select,     \* pert.select
  active,     \* pert.active
  newperturb, \* pending_.newperturb
  chosen,     \* pending_.select: "none", or how the select_state will be read
  kept,       \* history: a file with other cameras was loaded under the same name
  broken      \* history: a drag was broken off before its button was released

inputVars == <<frame, down, dragrect, cam, camera, ncam, select, active, newperturb,
               chosen, kept, broken>>

mouse == <<down, dragrect>>
view == <<cam, camera, ncam, kept>>
pert == <<select, active, newperturb, chosen, broken>>

Free == [type |-> "free", id |-> 0]
Track(body) == [type |-> "tracking", id |-> body]
Fixed(id) == [type |-> "fixed", id |-> id]

CameraIndex(c) == CASE c.type = "fixed"    -> 2 + c.id
                    [] c.type = "tracking" -> 1
                    [] OTHER               -> 0
-----------------------------------------------------------------------------
(* The adapter and the 3D events of UiEvent.                               *)

MouseButtons == {"left", "middle", "right"}

(* Alt swaps left and right.                                               *)
Swapped(button, alt) ==
  IF alt /\ button = "left" THEN "right"
  ELSE IF alt /\ button = "right" THEN "left" ELSE button

(* OnMouseButton: a press starts a drag in the rectangle under the mouse.  *)
(* In the view, Ctrl with a selected body asks for a perturbation if left  *)
(* or right is held by then, whichever button this press is of, and a      *)
(* double click for a selection.                                           *)
Press(button, rect, ctrl, alt, double) ==
  /\ frame = "events" /\ button \notin down
  /\ down' = down \cup {button}
  /\ dragrect' = IF rect # 0 THEN rect ELSE dragrect
  /\ broken' = (broken \/ (dragrect = 3 /\ dragrect' # 3 /\ (active \/ newperturb)))
  /\ LET asked == rect = 3 /\ ctrl /\ select > 0 /\ down' # {"middle"} /\ ~active
     IN  newperturb' = ((newperturb \/ asked) /\ ~(rect = 3 /\ double))
  /\ IF rect = 3 /\ double
     THEN /\ active' = FALSE
          /\ chosen' = IF Swapped(button, alt) = "left" THEN "body"
                       ELSE IF ctrl THEN "track" ELSE "look"
     ELSE UNCHANGED <<active, chosen>>
  /\ UNCHANGED <<frame, view, select>>

ReleaseKeepsForce(button) ==  \* mutant: the release only stops the drag
  /\ frame = "events" /\ button \in down
  /\ down' = down \ {button} /\ dragrect' = 0
  /\ UNCHANGED <<frame, view, pert>>

(* A release that ends a drag of the view stops the perturbation.          *)
Release(button) ==
  /\ frame = "events" /\ button \in down
  /\ down' = down \ {button} /\ dragrect' = 0
  /\ IF dragrect = 3 THEN active' = FALSE /\ newperturb' = FALSE /\ broken' = FALSE
                     ELSE UNCHANGED <<active, newperturb, broken>>
  /\ UNCHANGED <<frame, view, select, chosen>>

(* OnWindowResize stops the drag and says nothing to UiEvent about it.     *)
WindowResize ==
  /\ frame = "events"
  /\ dragrect' = 0
  /\ broken' = (broken \/ (dragrect = 3 /\ (active \/ newperturb)))
  /\ UNCHANGED <<frame, down, view, select, active, newperturb, chosen>>

(* The space key stops the perturbation, except one Sync has yet to start. *)
(* (What it does to run is in ViewerHistory.)                              *)
SpaceStopsForce ==
  /\ frame = "events"
  /\ active' = FALSE
  /\ broken' = (broken /\ newperturb)
  /\ UNCHANGED <<frame, mouse, view, select, newperturb, chosen>>

(* Page up: the parent (any body with a smaller number) is selected.       *)
PageUp ==
  /\ frame = "events" /\ select > 0
  /\ \E parent \in {b \in Bodies \cup {0} : b < select} : select' = parent
  /\ active' = (active /\ select' > 0)
  /\ UNCHANGED <<frame, mouse, view, newperturb, chosen, broken>>
-----------------------------------------------------------------------------
(* The camera.                                                             *)

UseFixed(index) == camera' = index /\ cam' = Fixed(index - 2)

CycleUpPast ==  \* mutant: the last camera is not the end of the cycle
  /\ frame = "events" /\ ncam > 0 /\ camera < MaxCamera
  /\ UseFixed(IF camera < 2 \/ camera = 2 + ncam THEN 2 ELSE camera + 1)
  /\ UNCHANGED <<frame, mouse, ncam, kept, pert>>

(* The key ] ...                                                           *)
CycleUp ==
  /\ frame = "events" /\ ncam > 0 /\ camera < MaxCamera
  /\ UseFixed(IF camera < 2 \/ camera = 2 + ncam - 1 THEN 2 ELSE camera + 1)
  /\ UNCHANGED <<frame, mouse, ncam, kept, pert>>

(* ... and the key [.                                                      *)
CycleDown ==
  /\ frame = "events" /\ ncam > 0
  /\ UseFixed(IF camera <= 2 THEN 2 + ncam - 1 ELSE camera - 1)
  /\ UNCHANGED <<frame, mouse, ncam, kept, pert>>

EscapeKey ==
  /\ frame = "events"
  /\ cam' = Free /\ camera' = 0
  /\ UNCHANGED <<frame, mouse, ncam, kept, pert>>

(* The camera menu; "Tracking" with nothing selected falls back to free.   *)
CameraMenu(index) ==
  /\ frame = "events"
  /\ CASE index = 0 -> cam' = Free /\ camera' = 0
       [] index = 1 -> IF select > 0 THEN cam' = Track(select) /\ camera' = 1
                                     ELSE cam' = Free /\ camera' = 0
       [] OTHER     -> UseFixed(index)
  /\ UNCHANGED <<frame, mouse, ncam, kept, pert>>

SettingsUnread ==  \* mutant: UpdateSettings leaves camera as it was
  UNCHANGED camera

(* UpdateSettings: the menu follows the camera.                            *)
UpdateSettings == camera' = CameraIndex(cam')
-----------------------------------------------------------------------------
(* The frame.                                                              *)

PollInput ==
  /\ frame = "free" /\ frame' = "events"
  /\ UNCHANGED <<mouse, view, pert>>

(* LoadOnRenderThread, before the events of its frame: the view is         *)
(* realigned unless the file has the same name as the last one.            *)
LoadCameras(count, sameFile) ==
  /\ frame = "free"
  /\ ncam' = count
  /\ cam' = IF sameFile THEN cam ELSE Free
  /\ kept' = (sameFile /\ (kept \/ count < ncam))
  /\ UpdateSettings
  /\ select' = 0 /\ active' = FALSE /\ broken' = FALSE
  /\ UNCHANGED <<frame, mouse, newperturb, chosen>>

(* What the double click chose, body 0 being a click on nothing.           *)
Chosen(body) ==
  CASE chosen = "none"  -> UNCHANGED <<select, cam>>
    [] chosen = "look"  -> body = 0 /\ UNCHANGED <<select, cam>>
    [] chosen = "track" -> /\ cam' = IF body > 0 THEN Track(body) ELSE cam
                           /\ UNCHANGED select
    [] chosen = "body"  -> select' = body /\ UNCHANGED cam

SyncPerturb ==
  /\ frame = "events" /\ frame' = "free"
  /\ active' = (active \/ newperturb)
  /\ newperturb' = FALSE
  /\ \E body \in Bodies \cup {0} : Chosen(body)
  /\ chosen' = "none"
  /\ UpdateSettings
  /\ UNCHANGED <<mouse, ncam, kept, broken>>

InputInit ==
  /\ frame = "free" /\ down = {} /\ dragrect = 0
  /\ cam = Free /\ camera = 0
  /\ ncam \in CameraCounts
  /\ select = 0 /\ active = FALSE /\ newperturb = FALSE /\ chosen = "none"
  /\ kept = FALSE /\ broken = FALSE

InputNext ==
  \/ PollInput \/ SyncPerturb
  \/ \E button \in MouseButtons :
       \/ \E rect \in {0, 1, 3}, ctrl, alt, double \in BOOLEAN :
            Press(button, rect, ctrl, alt, double)
       \/ Release(button)
  \/ WindowResize \/ SpaceStopsForce \/ PageUp
  \/ CycleUp \/ CycleDown \/ EscapeKey
  \/ \E index \in 0 .. ncam + 1 : CameraMenu(index)
  \/ \E count \in CameraCounts, sameFile \in BOOLEAN : LoadCameras(count, sameFile)

InputSpec == InputInit /\ [][InputNext]_inputVars
-----------------------------------------------------------------------------
InputTypeOK ==
  /\ frame \in {"free", "events"}
  /\ down \in SUBSET MouseButtons /\ dragrect \in {0, 1, 3}
  /\ cam.type \in {"free", "tracking", "fixed"} /\ cam.id \in Nat
  /\ camera \in Nat /\ ncam \in CameraCounts
  /\ select \in Bodies \cup {0}
  /\ {active, newperturb, kept, broken} \subseteq BOOLEAN
  /\ chosen \in {"none", "body", "look", "track"}

(* The menu shows the camera in use, whichever key, menu, double click or  *)
(* load changed it: the cycle keys count from the right place.             *)
MenuShowsCamera == camera = CameraIndex(cam)

(* A fixed camera exists in the model, unless a file was loaded again with *)
(* fewer cameras: nothing then moves the view off a camera that is gone.   *)
CameraExists == cam.type = "fixed" /\ ~kept => cam.id < ncam

(* A body is pushed only while the mouse drags the view, unless the drag   *)
(* was broken off: by a resize of the window, or by a second button        *)
(* pressed over a panel.  The force then goes on until the next drag ends. *)
ForceOnlyWhileDragging == active /\ ~broken => dragrect = 3 /\ down # {}

(* The camera and the mouse, together.                                     *)
ViewerInputSafe == InputTypeOK /\ MenuShowsCamera /\ CameraExists /\ ForceOnlyWhileDragging
=============================================================================
