------------------------------ MODULE VectorMath ------------------------------
(***************************************************************************)
(* vector_math.hpp over integers.  A vector is a sequence.  A quaternion   *)
(* <<w, x, y, z>> stands for itself divided by its norm, so the functions  *)
(* that assume a unit quaternion return their result multiplied with       *)
(* Norm2(q), which makes them exact; functions that go through an angle    *)
(* are exact for quarter turns.                                            *)
(***************************************************************************)
EXTENDS Integers, Sequences

ShorterLen(a, b) == IF Len(a) <= Len(b) THEN Len(a) ELSE Len(b)

(* operator+, -, * and / of two vectors: as long as the shorter one.       *)
Plus(a, b) == [i \in 1..ShorterLen(a, b) |-> a[i] + b[i]]
Minus(a, b) == [i \in 1..ShorterLen(a, b) |-> a[i] - b[i]]
Times(a, b) == [i \in 1..ShorterLen(a, b) |-> a[i] * b[i]]
Negated(a) == [i \in 1..Len(a) |-> -a[i]]

ClampedTo(v, low, high) == IF v < low THEN low ELSE IF v > high THEN high ELSE v

(* clamp of a vector: a bound that is missing is the first one, and without*)
(* bounds the value itself.                                                *)
BoundAt(bounds, i, v) ==
  IF i <= Len(bounds) THEN bounds[i] ELSE IF bounds = <<>> THEN v ELSE bounds[1]

ClampVector(a, low, high) ==
  [i \in 1..Len(a) |-> ClampedTo(a[i], BoundAt(low, i, a[i]), BoundAt(high, i, a[i]))]
-----------------------------------------------------------------------------
Norm2(q) == q[1] * q[1] + q[2] * q[2] + q[3] * q[3] + q[4] * q[4]

QuaternionMultiply(p, q) ==
  << p[1] * q[1] - p[2] * q[2] - p[3] * q[3] - p[4] * q[4],
     p[1] * q[2] + p[2] * q[1] + p[3] * q[4] - p[4] * q[3],
     p[1] * q[3] - p[2] * q[4] + p[3] * q[1] + p[4] * q[2],
     p[1] * q[4] + p[2] * q[3] - p[3] * q[2] + p[4] * q[1] >>

QuaternionConjugate(q) == <<q[1], -q[2], -q[3], -q[4]>>

Dot(q, v) == q[2] * v[1] + q[3] * v[2] + q[4] * v[3]
Cross(q, v) ==
  << q[3] * v[3] - q[4] * v[2], q[4] * v[1] - q[2] * v[3], q[2] * v[2] - q[3] * v[1] >>

RotateForward(q, v) ==  \* mutant: from the body into the world
  [i \in 1..3 |-> v[i] * (2 * q[1] * q[1] - Norm2(q)) + 2 * q[1] * Cross(q, v)[i]
                  + 2 * q[i + 1] * Dot(q, v)]

QuatRotateInverse(q, v) ==
  [i \in 1..3 |-> v[i] * (2 * q[1] * q[1] - Norm2(q)) - 2 * q[1] * Cross(q, v)[i]
                  + 2 * q[i + 1] * Dot(q, v)]

(* By rows.                                                                *)
QuaternionToRotationMatrix(q) ==
  LET w == q[1]  x == q[2]  y == q[3]  z == q[4]  n == Norm2(q)
  IN  << n - 2 * (y * y + z * z), 2 * (x * y - w * z), 2 * (x * z + w * y),
         2 * (x * y + w * z), n - 2 * (x * x + z * z), 2 * (y * z - w * x),
         2 * (x * z - w * y), 2 * (y * z + w * x), n - 2 * (x * x + y * y) >>

MatrixFirstTwoRows(m) ==  \* mutant: rows for columns
  <<m[1], m[4], m[2], m[5], m[3], m[6]>>

MatrixFirstTwoColumns(m) == <<m[1], m[2], m[4], m[5], m[7], m[8]>>

(* cos and sin of the yaw angle, times Norm2(q) or less when pitched.      *)
Heading(q) ==
  << Norm2(q) - 2 * (q[3] * q[3] + q[4] * q[4]), 2 * (q[1] * q[4] + q[2] * q[3]) >>

Magnitude(n) == IF n < 0 THEN -n ELSE n

(* The rotation by the yaw angle alone, for an angle that is a multiple of *)
(* a quarter turn: its half has cosine 1 + cos and sine sin, up to a factor*)
(* atan2(0, 0) is 0.                                                       *)
QuaternionYawOnly(q) ==
  LET h == Heading(q)
      r == IF Magnitude(h[1]) > Magnitude(h[2]) THEN Magnitude(h[1]) ELSE Magnitude(h[2])
  IN  CASE h = <<0, 0>>         -> <<1, 0, 0, 0>>
        [] h = <<-r, 0>> /\ r # 0 -> <<0, 0, 0, 1>>
        [] OTHER                -> <<r + h[1], 0, 0, h[2]>>
=============================================================================
