----------------------------- MODULE RobotModes -----------------------------
(***************************************************************************)
(* What the Go2 state machine promises to whoever drives the robot, with   *)
(* none of its mechanism: four modes, a flag saying that the stand-up has  *)
(* been completed since GetUp was entered, and a flag saying that the      *)
(* policy thread is allowed to produce actions.  Go2Fsm implements this.   *)
(***************************************************************************)

VARIABLES mode, stood, engaged

modeVars == <<mode, stood, engaged>>

Init ==
  /\ mode = "Passive"
  /\ stood = FALSE
  /\ engaged = FALSE

(* The only way up.  A robot already near a target pose may count as       *)
(* standing from the first tick on, so stood is left open.                 *)
StandUp ==
  /\ mode # "GetUp"
  /\ mode' = "GetUp"
  /\ stood' \in BOOLEAN
  /\ engaged' = FALSE

FinishStanding ==
  /\ mode = "GetUp"
  /\ stood' = TRUE
  /\ UNCHANGED <<mode, engaged>>

(* The policy mode is entered by a robot that has finished standing up.    *)
StartPolicyMode ==
  /\ mode = "GetUp"
  /\ stood
  /\ mode' = "RL"
  /\ stood' = FALSE
  /\ engaged' \in BOOLEAN

(* Inside the policy mode the policy may be engaged and held back.         *)
EngageOrHold ==
  /\ mode = "RL"
  /\ engaged' = ~engaged
  /\ UNCHANGED <<mode, stood>>

LieDown ==
  /\ \/ mode = "GetUp" /\ stood
     \/ mode = "RL"
  /\ mode' = "GetDown"
  /\ stood' = FALSE
  /\ engaged' = FALSE

Relax ==
  /\ mode # "Passive"
  /\ mode' = "Passive"
  /\ stood' = FALSE
  /\ engaged' = FALSE

Next ==
  \/ StandUp
  \/ FinishStanding
  \/ StartPolicyMode
  \/ EngageOrHold
  \/ LieDown
  \/ Relax

Spec == Init /\ [][Next]_modeVars

=============================================================================
