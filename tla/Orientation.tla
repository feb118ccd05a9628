------------------------------ MODULE Orientation ------------------------------
(***************************************************************************)
(* What ComputeObservation makes of orientations: directions of the world  *)
(* seen from the body (gravity_vec, ang_vel), and the orientation of a     *)
(* reference motion relative to the robot (motion_anchor_ori_b), whose     *)
(* heading MotionLoader::Reset takes from the robot.                       *)
(*                                                                         *)
(* Quaternions are those of VectorMath.  A torso quaternion stands for the *)
(* base and the waist together (ComputeTorsoQuat).                         *)
(***************************************************************************)
EXTENDS VectorMath

CONSTANTS
  Components,   \* values of a quaternion's and a vector's component
  TorsoTurns    \* orientations of a torso, that head along an axis (see VectorMath)

ASSUME OrientationAssumption ==
  /\ Components \subseteq Int /\ {0, 1} \subseteq Components
  /\ TorsoTurns \subseteq [1..4 -> Int]
  /\ \A q \in TorsoTurns : Heading(q)[1] = 0 \/ Heading(q)[2] = 0

VARIABLES
  quat,       \* obs.base_quat
  world,      \* a vector of the world
  torsoQuat,  \* the robot's torso, at Reset and ever since
  reference,  \* the motion's torso in its first frame
  initQuat    \* world_to_init_, <<>> before Reset

orientationVars == <<quat, world, torsoQuat, reference, initQuat>>
-----------------------------------------------------------------------------
(* The robot, or the vector, turns.                                        *)
Turn ==
  /\ \/ \E i \in 1..4, c \in Components :
          quat' = [quat EXCEPT ![i] = c] /\ Norm2(quat') # 0 /\ UNCHANGED world
     \/ \E i \in 1..3, c \in Components :
          world' = [world EXCEPT ![i] = c] /\ UNCHANGED quat
  /\ initQuat = <<>>
  /\ UNCHANGED <<torsoQuat, reference, initQuat>>

AlignmentSwapped(robotTorso, motionTorso) ==  \* mutant: from the robot to the motion
  QuaternionMultiply(QuaternionYawOnly(motionTorso),
                     QuaternionConjugate(QuaternionYawOnly(robotTorso)))

ComputeYawAlignment(robotTorso, motionTorso) ==
  QuaternionMultiply(QuaternionYawOnly(robotTorso),
                     QuaternionConjugate(QuaternionYawOnly(motionTorso)))

(* A motion may be started, again and again, whatever way the robot is     *)
(* turned.                                                                 *)
ResetAlignment(torso, first) ==
  /\ quat = <<0, 0, 0, 1>> /\ world = <<0, 0, -1>>  \* bound: one thing moves at a time
  /\ initQuat # <<>> => first = reference
  /\ torsoQuat' = torso /\ reference' = first
  /\ initQuat' = ComputeYawAlignment(torso, first)
  /\ UNCHANGED <<quat, world>>

(* motion_anchor_ori_b before its matrix: the reference seen by the robot. *)
RelativeQuat ==
  QuaternionMultiply(QuaternionConjugate(torsoQuat), QuaternionMultiply(initQuat, reference))
-----------------------------------------------------------------------------
(* InitObservations; its base_quat is a half turn in the order w, x, y, z. *)
OrientationInit ==
  /\ quat = <<0, 0, 0, 1>> /\ world = <<0, 0, -1>>
  /\ torsoQuat = <<1, 0, 0, 0>> /\ reference = <<1, 0, 0, 0>> /\ initQuat = <<>>

OrientationNext == Turn \/ \E torso, first \in TorsoTurns : ResetAlignment(torso, first)

OrientationSpec == OrientationInit /\ [][OrientationNext]_orientationVars
-----------------------------------------------------------------------------
(* What is observed of a world vector is its conjugation with the robot's  *)
(* orientation, the transposed rotation matrix says the same, and the six  *)
(* numbers of the anchor observation are that matrix's first two columns.  *)
FramesAgree ==
  LET m == QuaternionToRotationMatrix(quat)
      seen == QuatRotateInverse(quat, world)
  IN  /\ QuaternionMultiply(QuaternionMultiply(QuaternionConjugate(quat), <<0>> \o world), quat)
           = <<0>> \o seen
      /\ \A i \in 1..3 : seen[i] = m[i] * world[1] + m[i + 3] * world[2] + m[i + 6] * world[3]
      /\ world \in {<<1, 0, 0>>, <<0, 1, 0>>} =>
           LET c == MatrixFirstTwoColumns(m)
               k == IF world[1] = 1 THEN 1 ELSE 2
           IN  <<c[k], c[k + 2], c[k + 4]>> = QuatRotateInverse(QuaternionConjugate(quat), world)

(* q and r are the same rotation.                                          *)
SameRotation(q, r) ==
  \A i, j \in 1..4 : q[i] * r[j] = q[j] * r[i]

(* After Reset the motion heads where the robot does, however both are     *)
(* rolled or pitched: a robot that stands as the motion's first frame does *)
(* sees it without any rotation, whatever the heading of the two.          *)
MotionStartsAligned ==
  initQuat # <<>> =>
    LET aligned == QuaternionMultiply(initQuat, reference)
    IN  /\ Heading(reference) # <<0, 0>> =>
             SameRotation(QuaternionYawOnly(aligned), QuaternionYawOnly(torsoQuat))
        /\ (\E yaw \in {<<1, 0, 0, 0>>, <<0, 0, 0, 1>>, <<1, 0, 0, 1>>, <<1, 0, 0, -1>>} :
              SameRotation(QuaternionMultiply(yaw, reference), torsoQuat))
             /\ Heading(reference) # <<0, 0>> => SameRotation(RelativeQuat, <<1, 0, 0, 0>>)

(* World and body are never confused, and a motion starts where the robot  *)
(* heads.                                                                  *)
OrientationSafe == FramesAgree /\ MotionStartsAligned
=============================================================================
