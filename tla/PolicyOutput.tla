----------------------------- MODULE PolicyOutput -----------------------------
(***************************************************************************)
(* ComputeOutput: what becomes of the actions of the network - position    *)
(* targets for the motor controllers, and torques for the logs and the     *)
(* torque-controlled robots, which must say the same.                      *)
(***************************************************************************)
EXTENDS VectorMath

CONSTANTS
  NumJoints,
  Values,      \* values of an action, a position and a velocity
  Gains,       \* values of a stiffness and a damping
  ScaleLists,  \* the lists action_scale may be
  LimitLists,  \* the lists torque_limits may be
  Reach,       \* joint_pos_limit_upper of every joint; the lower limit is its negative
  Wheels       \* wheel_indices

ASSUME OutputAssumption ==
  /\ NumJoints \in Nat \ {0} /\ Reach \in Nat
  /\ Values \subseteq Int /\ Gains \subseteq Nat
  /\ Wheels \subseteq 1..NumJoints
  /\ \A l \in ScaleLists : l \in Seq(Int) /\ Wheels \subseteq DOMAIN l
  /\ \A l \in LimitLists : l \in Seq(Nat) /\ l # <<>>

VARIABLES
  setting,   \* action_scale, torque_limits, whether there are position limits, rl_kp, rl_kd
  gain,      \* gain_alpha
  robot,     \* obs.dof_pos and obs.dof_vel; default_dof_pos is zero
  output     \* output_dof_pos, output_dof_vel and output_dof_tau

outputVars == <<setting, gain, robot, output>>

Indices == 1..NumJoints
Zeros(n) == [i \in 1..n |-> 0]
Chooses(values) == [Indices -> values]
-----------------------------------------------------------------------------
(* ComputeOutput: a wheel's action is its velocity target, any other one an*)
(* offset of the position target.                                          *)
PositionPart(scaled) == [i \in 1..Len(scaled) |-> IF i \in Wheels THEN 0 ELSE scaled[i]]
VelocityPart(scaled, n) ==
  [i \in 1..n |-> IF i \in Wheels THEN scaled[i] ELSE 0]

TargetUnlimited(scaled) ==  \* mutant: the torque is computed from the action as it came
  PositionPart(scaled)

PositionTarget(scaled) ==
  LET target == Plus(PositionPart(scaled), Zeros(NumJoints))
      reach == [i \in Indices |-> Reach]
  IN  IF setting.limited THEN ClampVector(target, Negated(reach), reach) ELSE target

TorqueTarget(scaled) == PositionTarget(scaled)

(* The damping is scaled with the damage too; the limits come last.        *)
DampingUndamaged(torque) ==  \* mutant: a dead joint still brakes
  Minus(torque, Times(setting.kd, robot.vel))

Damped(torque) == Minus(torque, Times(Times(setting.kd, gain), robot.vel))

LimitFirst(scaled, velocity) ==  \* mutant: the damping is added behind the limits
  Damped(ClampVector(
    Times(Times(setting.kp, gain), Minus(Plus(TorqueTarget(scaled), velocity), robot.pos)),
    Negated(setting.torqueLimits), setting.torqueLimits))

Torque(scaled, velocity) ==
  ClampVector(
    Damped(Times(Times(setting.kp, gain),
                 Minus(Plus(TorqueTarget(scaled), velocity), robot.pos))),
    Negated(setting.torqueLimits), setting.torqueLimits)

ComputeOutput(actions) ==
  LET scaled == Times(actions, setting.scale)
      velocity == VelocityPart(scaled, Len(actions))
  IN  output' = [pos |-> PositionTarget(scaled), vel |-> velocity,
                 tau |-> Torque(scaled, velocity)]

Act ==
  /\ \E actions \in Chooses(Values) : ComputeOutput(actions)
  /\ UNCHANGED <<setting, gain, robot>>

(* SetGainAlpha, with the gains clamped to 0..1.                           *)
Damage ==
  /\ gain' \in Chooses({0, 1})
  /\ output' = <<>>
  /\ UNCHANGED <<setting, robot>>
-----------------------------------------------------------------------------
OutputInit ==
  /\ setting \in [scale : ScaleLists, torqueLimits : LimitLists, limited : BOOLEAN,
                  kp : Chooses(Gains), kd : Chooses(Gains)]
  /\ gain = [i \in Indices |-> 1]
  /\ robot \in [pos : Chooses(Values), vel : Chooses(Values)]
  /\ output = <<>>

OutputNext == Act \/ Damage

OutputSpec == OutputInit /\ [][OutputNext]_outputVars
-----------------------------------------------------------------------------
(* The joints every parameter list reaches.                                *)
Complete == Len(setting.scale) >= NumJoints

(* The torque limits that may hold for joint i: its own entry of the list, *)
(* or, for a joint behind the end of the list, some entry of it.           *)
LimitsOf(i) ==
  IF i \in DOMAIN setting.torqueLimits THEN {setting.torqueLimits[i]}
  ELSE {setting.torqueLimits[j] : j \in DOMAIN setting.torqueLimits}

(* What a motor controller with the same gains would apply to joint i to   *)
(* reach the targets that are sent along.                                  *)
TargetTorque(i) ==
  setting.kp[i] * (output.pos[i] + output.vel[i] - robot.pos[i]) - setting.kd[i] * robot.vel[i]

(* No torque exceeds its limit, whichever entry of the list stands in for  *)
(* a missing one, and no position target leaves the joint's range.         *)
OutputWithinLimits ==
  output # <<>> =>
    /\ \A i \in DOMAIN output.tau :
         \E limit \in LimitsOf(i) : Magnitude(output.tau[i]) <= limit
    /\ setting.limited => \A i \in DOMAIN output.pos : Magnitude(output.pos[i]) <= Reach

(* The torque is the one the motor controller would apply, cut off at its  *)
(* limit, also when the position target was cut off; and a dead joint gets *)
(* none.                                                                   *)
TorqueMeetsTargets ==
  output # <<>> /\ Complete =>
    /\ Len(output.pos) = NumJoints /\ Len(output.tau) = NumJoints
    /\ \A i \in Indices : \E limit \in LimitsOf(i) :
         output.tau[i] = IF gain[i] = 0 THEN 0 ELSE ClampedTo(TargetTorque(i), -limit, limit)

(* The targets and the torques stay within their limits and agree.         *)
OutputSafe == OutputWithinLimits /\ TorqueMeetsTargets

(* The comment of clamp: "If min_vals or max_vals are shorter than vec, the*)
(* last value is reused".  A joint behind the end of torque_limits would be*)
(* limited by the last entry.                                              *)
LastLimitReused ==
  output # <<>> =>
    LET n == Len(setting.torqueLimits)
    IN  \A i \in DOMAIN output.tau :
          i > n => Magnitude(output.tau[i]) <= setting.torqueLimits[n]
=============================================================================
