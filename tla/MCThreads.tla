------------------------------ MODULE MCThreads ------------------------------
(***************************************************************************)
(* The threads every node has beside its callbacks, in two parts that share*)
(* no state: the input (the keyboard thread, the joystick callback and the *)
(* control thread around struct Control) and the loops themselves (LoopFunc*)
(* from start to shutdown).  Each behaviour is one of one part.            *)
(***************************************************************************)
EXTENDS ControlInput, LoopFunc

VARIABLE part   \* the part that moves

threadsVars == <<part, controlInputVars, vars>>

Parts == {"input", "loops"}

InputPart(Action) == part = "input" /\ Action /\ UNCHANGED <<part, vars>>

LoopsPart(Action) == part = "loops" /\ Action /\ UNCHANGED <<part, controlInputVars>>

(* The part that does not move rests in its initial state.                 *)
ThreadsInit == part \in Parts /\ ControlInit /\ Init

ThreadsNext == InputPart(ControlNext) \/ LoopsPart(Next)

(* Fair to the parts as ControlFairSpec and FairSpec are.                  *)
ThreadsSpec ==
  /\ ThreadsInit /\ [][ThreadsNext]_threadsVars
  /\ WF_threadsVars(InputPart(RobotControl)) /\ WF_threadsVars(InputPart(WriteKey))
  /\ \A l \in Names :
       WF_threadsVars(LoopsPart(Owner(l))) /\ WF_threadsVars(LoopsPart(ThreadStep(l)))
-----------------------------------------------------------------------------
(* The three loops of RL_Sim and RL_Real.                                  *)
RobotLoops == <<"keyboard", "control", "rl">>
=============================================================================
