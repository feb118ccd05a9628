------------------------------ MODULE MotionLoader ------------------------------
(***************************************************************************)
(* MotionLoader: a reference motion is read from a file of recorded frames *)
(* and played back by time, interpolating between two frames.              *)
(*                                                                         *)
(* Time is counted in ticks, TicksPerFrame to dt.  A position between two  *)
(* frames is kept as the numerator of a fraction over Denominator, so that *)
(* nothing is rounded.  One joint stands for all; orientations are in      *)
(* Orientation, velocities (one subtraction) are left out.                 *)
(***************************************************************************)
EXTENDS Integers, Sequences, SequencesExt

CONSTANTS
  Files,          \* the recorded files: a sequence of joint positions, or -1 for a short row
  TicksPerFrame,  \* ticks in dt
  MaxTime         \* bound: ticks up to which time is counted

ASSUME MotionAssumption ==
  /\ TicksPerFrame \in Nat \ {0} /\ MaxTime \in Nat
  /\ \A f \in Files : f \in Seq(Nat \cup {-1})

VARIABLES
  motion,   \* joint_positions_ of the loaded motion, <<>> while there is none
  failed,   \* the constructor threw, or read beyond its data
  time,     \* the argument of the last Update
  index0,   \* index_0_, from 0
  index1,   \* index_1_
  blend     \* blend_, a numerator over Denominator

motionVars == <<motion, failed, time, index0, index1, blend>>

NumFrames == Len(motion)
Denominator == NumFrames * TicksPerFrame  \* duration_ in ticks
-----------------------------------------------------------------------------
(* LoadFromCSV: rows of less than seven values are skipped, no row at all  *)
(* throws.  ComputeVelocities: the only frame of a motion has no velocity  *)
(* before it to reuse, and back() of an empty vector is undefined: taken   *)
(* as a crash.                                                             *)
AddFrame(frames, row) == IF row = -1 THEN frames ELSE Append(frames, row)

LoadFromCSV(file) == FoldLeft(AddFrame, <<>>, file)

Construct(file) ==
  /\ motion = <<>> /\ ~failed
  /\ LET frames == LoadFromCSV(file)
     IN  IF Len(frames) > 1
         THEN motion' = frames /\ UNCHANGED failed
         ELSE failed' = TRUE /\ UNCHANGED motion
  /\ UNCHANGED <<time, index0, index1, blend>>

(* Update: time / duration_ is clamped to 0..1 and spread over the frames. *)
LastFrameDropped == NumFrames - 2  \* mutant: the last frame is never reached

LastFrame == NumFrames - 1

NextFrame(f) == IF f + 1 < NumFrames THEN f + 1 ELSE NumFrames - 1

Progress(t) == IF t < 0 THEN 0 ELSE IF t > Denominator THEN Denominator ELSE t

Update(t) ==
  LET position == Progress(t) * LastFrame
  IN  /\ motion # <<>>
      /\ time' = t
      /\ index0' = position \div Denominator
      /\ index1' = NextFrame(index0')
      /\ blend' = position % Denominator
      /\ UNCHANGED <<motion, failed>>

(* Reset(): Update(0), and the alignment that Orientation models.          *)
ResetMotion == Update(0)

(* GetJointPos, over Denominator.                                          *)
JointPosSwapped(f0, f1, b) ==  \* mutant: the weights swapped
  motion[f0 + 1] * b + motion[f1 + 1] * (Denominator - b)

JointPos(f0, f1, b) ==
  motion[f0 + 1] * (Denominator - b) + motion[f1 + 1] * b
-----------------------------------------------------------------------------
MotionInit ==
  /\ motion = <<>> /\ failed = FALSE
  /\ time = 0 /\ index0 = 0 /\ index1 = 0 /\ blend = 0

(* Time goes on, starts over, or is asked for before the start.            *)
MotionNext ==
  \/ \E file \in Files : Construct(file)
  \/ time < MaxTime /\ Update(time + 1)
  \/ ResetMotion
  \/ Update(-1)

MotionSpec == MotionInit /\ [][MotionNext]_motionVars
-----------------------------------------------------------------------------
(* No index is ever beyond the recorded frames, and the end of the motion  *)
(* holds its last frame.                                                   *)
FramesExist ==
  motion # <<>> =>
    /\ index0 \in 0..NumFrames - 1 /\ index1 \in 0..NumFrames - 1
    /\ blend \in 0..Denominator - 1
    /\ time >= Denominator => index0 = NumFrames - 1 /\ blend = 0

(* duration_ counts a frame more than the recording has steps, so playback *)
(* is slower than the recording: at any time by less than one frame, up to *)
(* the end.                                                                *)
LagUnderOneFrame ==
  motion # <<>> /\ time \in 0..Denominator =>
    LET frame == index0 * Denominator + blend   \* times Denominator
        recorded == time * NumFrames            \* the frame of this time, times Denominator
    IN  frame <= recorded /\ recorded <= frame + Denominator

Away(a, b) == IF a < b THEN b - a ELSE a - b

(* From one tick to the next the reference moves no further than one tick  *)
(* of the steepest step of the recording: it never jumps, and between      *)
(* frames it stays between them.                                           *)
ReferenceIsContinuous ==
  [][ motion # <<>> /\ time' = time + 1 =>
        \E i \in 1..NumFrames - 1 :
          Away(JointPos(index0', index1', blend'), JointPos(index0, index1, blend))
            <= (NumFrames - 1) * Away(motion[i], motion[i + 1])
    ]_motionVars

(* The reference exists, keeps up with the recording and never jumps.      *)
MotionFollowed == [](FramesExist /\ LagUnderOneFrame) /\ ReferenceIsContinuous
=============================================================================
