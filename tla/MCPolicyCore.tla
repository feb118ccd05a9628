----------------------------- MODULE MCPolicyCore -----------------------------
(***************************************************************************)
(* The parts of the policy core that one run of the model passes through   *)
(* and that no state relates: the history of observations, the contract of *)
(* the model, its output, the orientations it observes, and the reference  *)
(* motion.  Each behaviour is one of one part.                             *)
(***************************************************************************)
EXTENDS MCPolicyContract, ObservationBuffer, PolicyOutput, Orientation, MotionLoader

VARIABLE part   \* the part that moves

Parts == {"history", "contract", "output", "orientation", "motion"}

coreVars == <<part, vars, contractVars, outputVars, orientationVars, motionVars>>

(* A part that does not move rests.                                        *)
SomeConfig == CHOOSE c \in Configs : TRUE

ContractStart ==
  IF part = "contract" THEN ContractInit
  ELSE /\ node = "sim" /\ cfg = SomeConfig /\ net = <<>>
       /\ phase = "idle" /\ buffer = <<>> /\ episode = 0 /\ used = <<>>

OutputStart ==
  IF part = "output" THEN OutputInit
  ELSE setting = <<>> /\ gain = <<>> /\ robot = <<>> /\ output = <<>>

CoreInit ==
  /\ part \in Parts
  /\ Init /\ ContractStart /\ OutputStart /\ OrientationInit /\ MotionInit

HistoryPart ==
  /\ part = "history" /\ Next
  /\ UNCHANGED <<part, contractVars, outputVars, orientationVars, motionVars>>

ContractPart ==
  /\ part = "contract" /\ ContractNext
  /\ UNCHANGED <<part, vars, outputVars, orientationVars, motionVars>>

OutputPart ==
  /\ part = "output" /\ OutputNext
  /\ UNCHANGED <<part, vars, contractVars, orientationVars, motionVars>>

OrientationPart ==
  /\ part = "orientation" /\ OrientationNext
  /\ UNCHANGED <<part, vars, contractVars, outputVars, motionVars>>

MotionPart ==
  /\ part = "motion" /\ MotionNext
  /\ UNCHANGED <<part, vars, contractVars, outputVars, orientationVars>>

CoreNext == HistoryPart \/ ContractPart \/ OutputPart \/ OrientationPart \/ MotionPart

CoreSpec == CoreInit /\ [][CoreNext]_coreVars
-----------------------------------------------------------------------------
(* Terms of different widths, so that a term read at the offset or with the*)
(* width of another one is told apart.                                     *)
TermDims == <<2, 1, 3>>

(* Three joints, so that the one behind the end of a list of limits tells  *)
(* its first entry from its last one.                                      *)
OutputValues == {-2, 3}
ScaleChoices == {<<1, 1, 1>>, <<2, 1, 1>>, <<1>>}
LimitChoices == {<<2>>, <<3, 1>>}

QuaternionComponents == {-1, 0, 1}

(* A quarter turn about an axis, or none; and three of them in a row.      *)
QuarterTurns ==
  {<<1, 0, 0, 0>>} \cup
  {[[i \in 1..4 |-> 0] EXCEPT ![1] = 1, ![axis] = way] : axis \in 2..4, way \in {-1, 1}}

ThreeQuarterTurns ==
  {QuaternionMultiply(QuaternionMultiply(p, q), r) : p, q, r \in QuarterTurns}

MotionFiles ==
  {<<>>, <<-1>>, <<3>>, <<0, 5>>, <<-1, 2, 0, -1, 4, 4, 1>>, <<1, 2, 3, 0>>}

(* LayoutAsTrained says much of each state: it is looked at where the      *)
(* history moves.                                                          *)
HistoryLayout == part = "history" => TypeOK /\ LayoutAsTrained

(* ContractSafe holds of a contract; the one of a part at rest is none.    *)
ContractKept == part = "contract" => ContractSafe
=============================================================================
