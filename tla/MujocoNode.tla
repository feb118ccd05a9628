----------------------------- MODULE MujocoNode -----------------------------
(***************************************************************************)
(* The MuJoCo simulation node: class RL_Sim of rl_sim_mujoco.cpp, its      *)
(* physics thread (mujoco_utils.hpp) and the viewer it runs in its own     *)
(* thread (mj::Simulate).  Three threads share one mutex, one pending load *)
(* and a model that the physics thread replaces and frees.  A model is a   *)
(* number here, 0 is the null pointer; m and d always go together.         *)
(***************************************************************************)
EXTENDS Naturals

CONSTANTS
  MaxModels,   \* bound: models loaded with success
  MaxDrops,    \* bound: files dropped on the window
  MaxReloads   \* bound: presses of "Reload"

ASSUME BoundsAssumption ==
  MaxModels \in Nat \ {0} /\ MaxDrops \in Nat /\ MaxReloads \in Nat

VARIABLES
  mtx,          \* who holds sim->mtx: "free", "main", "physics" or "control"
  main,         \* the thread of main(): constructor, RenderLoop, destructor
  physics,      \* the detached thread of PhysicsThread
  control,      \* the thread of loop_control
  loadrequest,  \* Simulate::loadrequest
  model,        \* m and d
  loading,      \* mnew and dnew of the physics thread
  cause,        \* why it loads: "first", "drop" or "ui"
  offered,      \* mnew_ and dnew_ of the viewer
  shown,        \* m_ and d_ of the viewer
  nodeModel,    \* mj_model and mj_data of RL_Sim
  freed,        \* the models deleted
  droploadrequest, uiloadrequest, exitrequest,
  drops, reloads   \* files dropped and presses of Reload so far

vars == <<mtx, main, physics, control, loadrequest, model, loading, cause, offered,
          shown, nodeModel, freed, droploadrequest, uiloadrequest, exitrequest,
          drops, reloads>>

models == <<model, loading, cause, offered, shown, nodeModel, freed>>
requests == <<droploadrequest, uiloadrequest, exitrequest, drops, reloads>>

Models == 1 .. MaxModels

PhysicsGoes(from, to) == physics = from /\ physics' = to
MainGoes(from, to) == main = from /\ main' = to
-----------------------------------------------------------------------------
(* The physics thread.                                                     *)

LoadMessage ==
  /\ PhysicsGoes("message", "load")
  /\ mtx = "free"
  /\ loadrequest' = 3
  /\ UNCHANGED <<mtx, main, control, models, requests>>

(* LoadModel and mj_makeData.  The first model goes straight to m and d.   *)
(* The flag of a drop is taken back as soon as the file has been read.     *)
LoadModel ==
  /\ droploadrequest' = (droploadrequest /\ cause # "drop")
  /\ \/ /\ PhysicsGoes("load", "clear")
        /\ UNCHANGED <<loading, model>>
     \/ /\ PhysicsGoes("load", "offer")
        /\ loading < MaxModels
        /\ loading' = loading + 1
        /\ IF cause = "first" THEN mtx = "free" /\ model' = loading + 1
                              ELSE UNCHANGED model
  /\ UNCHANGED <<mtx, main, control, loadrequest, cause, offered, shown, nodeModel,
                 freed, uiloadrequest, exitrequest, drops, reloads>>

LoadWithoutWaiting ==  \* mutant: Load does not wait for the render thread
  /\ PhysicsGoes("offer", "install")
  /\ mtx = "free"
  /\ offered' = loading
  /\ loadrequest' = 2
  /\ UNCHANGED <<mtx, main, control, model, loading, cause, shown, nodeModel, freed,
                 requests>>

(* Simulate::Load hands the model over and waits for the render thread.    *)
Load ==
  /\ PhysicsGoes("offer", "await")
  /\ mtx = "free"
  /\ offered' = loading
  /\ loadrequest' = 2
  /\ UNCHANGED <<mtx, main, control, model, loading, cause, shown, nodeModel, freed,
                 requests>>

Loaded ==
  /\ PhysicsGoes("await", "install")
  /\ mtx = "free"
  /\ loadrequest = 0
  /\ UNCHANGED <<mtx, main, control, loadrequest, models, requests>>

AfterLoad == CASE cause = "first" -> "drop"
               [] cause = "drop"  -> "ui"
               [] cause = "ui"    -> "step"

(* The old model is deleted, the new one becomes m and d.                  *)
Install ==
  /\ PhysicsGoes("install", AfterLoad)
  /\ mtx = "free"
  /\ freed' = IF cause = "first" THEN freed ELSE freed \cup ({model} \ {0})
  /\ model' = loading
  /\ UNCHANGED <<mtx, main, control, loadrequest, loading, cause, offered, shown,
                 nodeModel, requests>>

LoadMessageClear ==
  /\ PhysicsGoes("clear", AfterLoad)
  /\ mtx = "free"
  /\ loadrequest' = 0
  /\ UNCHANGED <<mtx, main, control, models, requests>>

(* while (!exitrequest): first a dropped file ...                          *)
TestDrop ==
  /\ PhysicsGoes("drop", IF exitrequest # 0 THEN "free"
                         ELSE IF droploadrequest THEN "message" ELSE "ui")
  /\ cause' = IF physics' = "message" THEN "drop" ELSE cause
  /\ UNCHANGED <<mtx, main, control, loadrequest, model, loading, offered, shown,
                 nodeModel, freed, requests>>

(* ... then a press of Reload.                                             *)
TestReload ==
  /\ PhysicsGoes("ui", IF uiloadrequest > 0 THEN "message" ELSE "step")
  /\ IF uiloadrequest > 0
     THEN uiloadrequest' = uiloadrequest - 1 /\ cause' = "ui"
     ELSE UNCHANGED <<uiloadrequest, cause>>
  /\ UNCHANGED <<mtx, main, control, loadrequest, model, loading, offered, shown,
                 nodeModel, freed, droploadrequest, exitrequest, drops, reloads>>

(* The physics step, or mj_forward while paused.                           *)
PhysicsStep ==
  /\ PhysicsGoes("step", "drop")
  /\ mtx = "free"
  /\ UNCHANGED <<mtx, main, control, loadrequest, models, requests>>

(* Out of the loop everything is deleted, without the mutex.               *)
PhysicsEnd ==
  /\ PhysicsGoes("free", "gone")
  /\ freed' = freed \cup ({model} \ {0})
  /\ UNCHANGED <<mtx, main, control, loadrequest, model, loading, cause, offered,
                 shown, nodeModel, requests>>
-----------------------------------------------------------------------------
(* The main thread: the constructor polls d, takes m and d, starts the     *)
(* control loop and enters RenderLoop.                                     *)
Construct ==
  /\ MainGoes("wait", "lock")
  /\ model # 0
  /\ nodeModel' = model
  /\ control' = "idle"
  /\ UNCHANGED <<mtx, physics, loadrequest, model, loading, cause, offered, shown,
                 freed, requests>>

RenderNeverCounts ==  \* mutant: the frame that shows LOADING... is not counted
  /\ MainGoes("lock", "events")
  /\ mtx = "free" /\ mtx' = "main"
  /\ IF loadrequest = 1
     THEN shown' = offered /\ offered' = 0 /\ loadrequest' = 0
     ELSE UNCHANGED <<shown, offered, loadrequest>>
  /\ UNCHANGED <<physics, control, model, loading, cause, nodeModel, freed, requests>>

(* Top of a frame: a model offered one frame ago is taken over.            *)
RenderLock ==
  /\ MainGoes("lock", "events")
  /\ mtx = "free" /\ mtx' = "main"
  /\ CASE loadrequest = 1 -> shown' = offered /\ offered' = 0 /\ loadrequest' = 0
       [] loadrequest = 2 -> loadrequest' = 1 /\ UNCHANGED <<shown, offered>>
       [] OTHER           -> UNCHANGED <<shown, offered, loadrequest>>
  /\ UNCHANGED <<physics, control, model, loading, cause, nodeModel, freed, requests>>

(* Events are polled with the mutex held: "Quit" and "Reload" ...          *)
EventQuit ==
  /\ main = "events"
  /\ exitrequest' = 1
  /\ UNCHANGED <<mtx, main, physics, control, loadrequest, models, droploadrequest,
                 uiloadrequest, drops, reloads>>

EventReload ==
  /\ main = "events"
  /\ reloads < MaxReloads
  /\ reloads' = reloads + 1
  /\ uiloadrequest' = uiloadrequest + 1
  /\ UNCHANGED <<mtx, main, physics, control, loadrequest, models, droploadrequest,
                 exitrequest, drops>>

(* ... and a dropped file, which waits in a loop for the one before.       *)
EventFilesDrop ==
  /\ MainGoes("events", "spin")
  /\ drops < MaxDrops
  /\ drops' = drops + 1
  /\ UNCHANGED <<mtx, physics, control, loadrequest, models, droploadrequest,
                 uiloadrequest, exitrequest, reloads>>

SpinEnds ==
  /\ MainGoes("spin", "events")
  /\ ~droploadrequest
  /\ droploadrequest' = TRUE
  /\ UNCHANGED <<mtx, physics, control, loadrequest, models, uiloadrequest,
                 exitrequest, drops, reloads>>

(* Sync, then the lock goes out of scope and the frame is drawn.           *)
RenderSync ==
  /\ MainGoes("events", "draw")
  /\ mtx' = "free"
  /\ UNCHANGED <<physics, control, loadrequest, models, requests>>

RenderNeverLooks ==  \* mutant: the loop only looks at the window
  /\ \E closed \in BOOLEAN : MainGoes("draw", IF closed THEN "leave" ELSE "lock")
  /\ UNCHANGED <<mtx, physics, control, loadrequest, models, requests>>

(* The test of the loop: the user may have closed the window.              *)
RenderTest ==
  /\ \E closed \in BOOLEAN :
       MainGoes("draw", IF closed \/ exitrequest # 0 THEN "leave" ELSE "lock")
  /\ UNCHANGED <<mtx, physics, control, loadrequest, models, requests>>

RenderLeave ==
  /\ MainGoes("leave", "shutdown")
  /\ mtx = "free"
  /\ exitrequest' = 2
  /\ UNCHANGED <<mtx, physics, control, loadrequest, models, droploadrequest,
                 uiloadrequest, drops, reloads>>

(* The destructor stops the loops, which it does not join, and the program *)
(* ends.                                                                   *)
Destruct ==
  /\ MainGoes("shutdown", "gone")
  /\ UNCHANGED <<mtx, physics, control, loadrequest, models, requests>>

(* Ctrl+C.                                                                 *)
signalHandler ==
  /\ main \notin {"shutdown", "gone"}
  /\ exitrequest # 1
  /\ exitrequest' = 1
  /\ UNCHANGED <<mtx, main, physics, control, loadrequest, models, droploadrequest,
                 uiloadrequest, drops, reloads>>
-----------------------------------------------------------------------------
(* The control thread: RobotControl holds the mutex for the whole tick.    *)
ControlLock ==
  /\ control = "idle" /\ control' = "tick"
  /\ main # "gone"
  /\ mtx = "free" /\ mtx' = "control"
  /\ UNCHANGED <<main, physics, loadrequest, models, requests>>

RobotControl ==
  /\ control = "tick" /\ control' = "idle"
  /\ mtx' = "free"
  /\ UNCHANGED <<main, physics, loadrequest, models, requests>>
-----------------------------------------------------------------------------
Init ==
  /\ mtx = "free" /\ main = "wait" /\ physics = "message" /\ control = "off"
  /\ loadrequest = 0
  /\ model = 0 /\ loading = 0 /\ offered = 0 /\ shown = 0 /\ nodeModel = 0
  /\ cause = "first"
  /\ freed = {}
  /\ droploadrequest = FALSE /\ uiloadrequest = 0 /\ exitrequest = 0
  /\ drops = 0 /\ reloads = 0

PhysicsUnlocked == LoadModel \/ TestDrop \/ TestReload \/ PhysicsEnd

PhysicsLocks ==
  LoadMessage \/ Load \/ Loaded \/ Install \/ LoadMessageClear \/ PhysicsStep

MainUnlocked == Construct \/ SpinEnds \/ RenderSync \/ RenderTest \/ Destruct

MainLocks == RenderLock \/ RenderLeave

Events == EventQuit \/ EventReload \/ EventFilesDrop

Next ==
  \/ PhysicsUnlocked \/ PhysicsLocks
  \/ MainUnlocked \/ MainLocks
  \/ Events \/ signalHandler
  \/ ControlLock \/ RobotControl

Spec == Init /\ [][Next]_vars

(* Every thread keeps running.  Every holder of the mutex sleeps, draws or *)
(* waits with the mutex free between two tenures, so a thread that wants   *)
(* it gets it in the end.                                                  *)
FairSpec ==
  /\ Spec
  /\ WF_vars(PhysicsUnlocked) /\ SF_vars(PhysicsLocks) /\ SF_vars(LoadModel)
  /\ WF_vars(MainUnlocked) /\ SF_vars(MainLocks)
  /\ WF_vars(RobotControl)
-----------------------------------------------------------------------------
StatesTyped ==
  /\ mtx \in {"free", "main", "control"}
  /\ main \in {"wait", "lock", "events", "spin", "draw", "leave", "shutdown", "gone"}
  /\ physics \in {"message", "load", "offer", "await", "install", "clear", "drop",
                  "ui", "step", "free", "gone"}
  /\ control \in {"off", "idle", "tick"}
  /\ loadrequest \in 0 .. 3 /\ exitrequest \in 0 .. 2
  /\ cause \in {"first", "drop", "ui"}
  /\ {model, loading, offered, shown, nodeModel} \subseteq 0 .. MaxModels
  /\ freed \in SUBSET Models
  /\ uiloadrequest \in Nat /\ drops \in Nat /\ reloads \in Nat

TypeOK == StatesTyped /\ droploadrequest \in BOOLEAN

(* "we know the old model and data's memory can be free'd" (Load): until   *)
(* the program is asked to end, the viewer never works on a freed model,   *)
(* however loads, failed loads, drops and reloads follow each other.       *)
ViewerModelLive == main = "events" /\ exitrequest = 0 => shown \notin freed

(* The render thread takes over exactly the model the physics thread is    *)
(* waiting for, never a null pointer and never an older model.             *)
OfferIsAwaited ==
  loadrequest \in {1, 2} =>
    physics = "await" /\ offered = loading /\ offered # 0 /\ offered \notin freed

(* A window that says LOADING... has the physics thread at work on a load. *)
LabelMeansLoading ==
  loadrequest # 0 => physics \in {"load", "offer", "await", "clear"}

(* The hand-over of a model between the two threads, together.             *)
HandoverSafe == TypeOK /\ ViewerModelLive /\ OfferIsAwaited /\ LabelMeansLoading

Spinning == main = "spin" /\ droploadrequest

(* The handover is answered: the physics thread does not wait for ever,    *)
(* unless the program ends or a second file was dropped while the first    *)
(* was pending: then UiEvent waits in a loop, with the mutex that the      *)
(* physics thread needs before it can take the first file.                 *)
LoadAnswered ==
  physics = "await" ~> physics # "await" \/ exitrequest # 0 \/ Spinning

(* A request to exit ends the program, but for two states that never end:  *)
(* the constructor polls for a model that could not be loaded, and UiEvent *)
(* waits in a loop for a drop that nobody can take.                        *)
ExitCompletes ==
  exitrequest # 0 ~> (main = "gone" \/ [](main = "wait") \/ []Spinning)

(* "Lock the sim mutex once for the entire control cycle to prevent race   *)
(* conditions": with the mutex held, the control tick works on live data.  *)
(* Violated: RL_Sim keeps the pointers of the first model, and a reload    *)
(* deletes it.                                                             *)
ControlModelLive == control = "tick" /\ exitrequest = 0 => nodeModel \notin freed
=============================================================================
