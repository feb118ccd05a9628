---------------------------- MODULE SequenceLemmas ----------------------------
(***************************************************************************)
(* What the proofs need of indices: induction over a set of numbers in     *)
(* place of a predicate, and the largest index, by which a fold takes the  *)
(* elements of a sequence in order; and of division by a constant.         *)
(***************************************************************************)
EXTENDS Integers, Sequences, SequencesExt, FiniteSetsExt, WellFoundedInduction, TLAPS

Less == OpToRel(<, Nat)

(* Induction over the natural numbers, for a set in place of a predicate.  *)
LEMMA InductionOnSet ==
  ASSUME NEW T, 0 \in T, \A n \in Nat : n \in T => n + 1 \in T
  PROVE  \A n \in Nat : n \in T
  <1> SUFFICES ASSUME ~ \A n \in Nat : n \in T PROVE FALSE
    OBVIOUS
  <1> DEFINE U == Nat \ T
  <1>1. U \subseteq Nat /\ U # {}
    OBVIOUS
  <1> HIDE DEF U
  <1>2. PICK m \in U : \A y \in U : <<y, m>> \notin Less
    BY <1>1, NatLessThanWellFounded, WFMin DEF Less
  <1>3. m \in Nat /\ m \notin T
    BY DEF U
  <1>4. m - 1 \in Nat
    BY <1>3
  <1>5. m - 1 \notin U
    <2>1. <<m - 1, m>> \in Less
      BY <1>3, <1>4 DEF Less, OpToRel
    <2> QED
      BY <1>2, <2>1
  <1> QED
    BY <1>3, <1>4, <1>5 DEF U

LEMMA MaxOfIndices ==
  ASSUME NEW n \in Nat, NEW S \in SUBSET (1..n), S # {}
  PROVE  Max(S) \in S /\ \A k \in S : Max(S) >= k
  <1> DEFINE Below == {n - i : i \in S}
  <1>1. Below \subseteq Nat /\ Below # {}
    <2>1. \A i \in 1..n : n - i \in Nat
      OBVIOUS
    <2>2. PICK i \in S : TRUE
      OBVIOUS
    <2>3. n - i \in Below
      OBVIOUS
    <2> QED
      BY <2>1, <2>3
  <1> HIDE DEF Below
  <1>2. PICK b \in Below : \A c \in Below : <<c, b>> \notin Less
    BY <1>1, NatLessThanWellFounded, WFMin DEF Less
  <1>3. \A c \in Below : ~(c < b)
    BY <1>1, <1>2 DEF Less, OpToRel
  <1>4. PICK i \in S : b = n - i
    BY DEF Below
  <1>5. \A k \in S : i >= k
    <2> TAKE k \in S
    <2>1. n - k \in Below
      BY DEF Below
    <2> QED
      BY <1>1, <1>3, <1>4, <2>1
  <1> QED
    BY <1>5 DEF Max

(* The largest number of a sequence is one of its numbers.                 *)
LEMMA MaxOfSequence ==
  ASSUME NEW s \in Seq(Int), s # <<>>
  PROVE  Max(ToSet(s)) \in ToSet(s) /\ \A k \in DOMAIN s : s[k] <= Max(ToSet(s))
  <1> DEFINE n == Len(s)
  <1>1. n \in Nat \ {0} /\ DOMAIN s = 1..n /\ \A i \in 1..n : s[i] \in Int
    OBVIOUS
  <1> HIDE DEF n
  <1> DEFINE T == {m \in Nat : m > 0 /\ m <= n => \E i \in 1..m : \A j \in 1..m : s[j] <= s[i]}
  <1>2. 0 \in T
    OBVIOUS
  <1>3. ASSUME NEW m \in Nat, m \in T
        PROVE  m + 1 \in T
    <2> SUFFICES ASSUME m + 1 <= n
                 PROVE  \E i \in 1..m + 1 : \A j \in 1..m + 1 : s[j] <= s[i]
      <3>1. m + 1 \in Nat
        OBVIOUS
      <3> QED
        BY <3>1
    <2>0. \A i \in 1..m + 1 : s[i] \in Int /\ (i # m + 1 => i \in 1..m)
      BY <1>1
    <2>1. CASE m = 0
      BY <2>0, <2>1
    <2>2. CASE m # 0
      <3>1. PICK i \in 1..m : \A j \in 1..m : s[j] <= s[i]
        BY <1>1, <1>3, <2>2
      <3>2. i \in 1..m + 1 /\ m + 1 \in 1..m + 1
        OBVIOUS
      <3>3. CASE s[m + 1] <= s[i]
        BY <2>0, <3>1, <3>2, <3>3
      <3>4. CASE ~(s[m + 1] <= s[i])
        <4>1. \A j \in 1..m + 1 : s[j] <= s[m + 1]
          BY <2>0, <3>1, <3>2, <3>4
        <4> QED
          BY <3>2, <4>1
      <3> QED
        BY <3>3, <3>4
    <2> QED
      BY <2>1, <2>2
  <1> HIDE DEF T
  <1>4. n \in T
    BY <1>1, <1>2, <1>3, InductionOnSet
  <1>5. PICK i \in 1..n : \A j \in 1..n : s[j] <= s[i]
    BY <1>1, <1>4 DEF T
  <1>6. s[i] \in ToSet(s) /\ \A y \in ToSet(s) : s[i] >= y
    BY <1>1, <1>5 DEF ToSet
  <1>7. Max(ToSet(s)) \in ToSet(s) /\ \A y \in ToSet(s) : Max(ToSet(s)) >= y
    BY <1>6 DEF Max
  <1>8. \A k \in DOMAIN s : s[k] \in ToSet(s)
    BY DEF ToSet
  <1>9. ToSet(s) \subseteq Int
    BY <1>1 DEF ToSet
  <1> QED
    BY <1>7, <1>8, <1>9
-----------------------------------------------------------------------------
(* A sum of numbers, as FoldLeft computes it.                              *)
Sums(g, w, n) ==
  g = [S \in SUBSET (1..n) |-> IF S = {} THEN 0 ELSE g[S \ {Max(S)}] + w[Max(S)]]

LEMMA SumExists ==
  ASSUME NEW w, NEW n \in Nat
  PROVE  \E g : Sums(g, w, n)
  <1> DEFINE T == {m \in Nat : \E g : Sums(g, w, m)}
  <1>1. 0 \in T
    <2> DEFINE g == [S \in SUBSET (1..0) |-> 0]
    <2>1. SUBSET (1..0) = {{}}
      OBVIOUS
    <2>2. g = [S \in SUBSET (1..0) |-> IF S = {} THEN 0 ELSE g[S \ {Max(S)}] + w[Max(S)]]
      BY <2>1
    <2> QED
      BY <2>2 DEF Sums
  <1>2. ASSUME NEW m \in Nat, m \in T
        PROVE  m + 1 \in T
    <2>1. PICK g : Sums(g, w, m)
      BY <1>2
    <2> DEFINE h == [S \in SUBSET (1..m + 1) |->
                      IF m + 1 \in S THEN g[S \ {m + 1}] + w[m + 1] ELSE g[S]]
    <2>2. ASSUME NEW S \in SUBSET (1..m + 1)
          PROVE  h[S] = IF S = {} THEN 0 ELSE h[S \ {Max(S)}] + w[Max(S)]
      <3>1. CASE m + 1 \in S
        <4>1. Max(S) \in S /\ Max(S) >= m + 1
          <5>1. m + 1 \in Nat
            OBVIOUS
          <5> QED
            BY <3>1, <5>1, MaxOfIndices
        <4>2. Max(S) = m + 1
          <5>1. \A i \in 1..m + 1 : i >= m + 1 => i = m + 1
            OBVIOUS
          <5> QED
            BY <4>1, <5>1
        <4>3. S \ {m + 1} \in SUBSET (1..m + 1) /\ m + 1 \notin S \ {m + 1}
          OBVIOUS
        <4> QED
          BY <3>1, <4>2, <4>3
      <3>2. CASE m + 1 \notin S
        <4>1. S \in SUBSET (1..m)
          BY <3>2
        <4>2. h[S] = g[S]
          BY <3>2
        <4>3. CASE S = {}
          BY <2>1, <4>1, <4>2, <4>3 DEF Sums
        <4>4. CASE S # {}
          <5>1. S \ {Max(S)} \in SUBSET (1..m + 1) /\ m + 1 \notin S \ {Max(S)}
            BY <3>2
          <5>2. h[S \ {Max(S)}] = g[S \ {Max(S)}]
            BY <5>1
          <5>3. g[S] = g[S \ {Max(S)}] + w[Max(S)]
            BY <2>1, <4>1, <4>4 DEF Sums
          <5> QED
            BY <4>2, <4>4, <5>2, <5>3
        <4> QED
          BY <4>3, <4>4
      <3> QED
        BY <3>1, <3>2
    <2>3. Sums(h, w, m + 1)
      BY <2>2 DEF Sums
    <2> QED
      BY <2>3
  <1> HIDE DEF T
  <1>3. n \in T
    BY <1>1, <1>2, InductionOnSet
  <1> QED
    BY <1>3 DEF T

LEMMA SumOfOneMore ==
  ASSUME NEW w, NEW n \in Nat, NEW g, Sums(g, w, n)
  PROVE  g[1..0] = 0 /\ \A k \in 0..n - 1 : g[1..k + 1] = g[1..k] + w[k + 1]
  <1>1. g[1..0] = 0
    <2>1. 1..0 = {} /\ {} \in SUBSET (1..n)
      OBVIOUS
    <2> QED
      BY <2>1 DEF Sums
  <1>2. ASSUME NEW k \in 0..n - 1
        PROVE  g[1..k + 1] = g[1..k] + w[k + 1]
    <2> DEFINE I == 1..k + 1
    <2>1. k + 1 \in I /\ k + 1 \in Nat
      OBVIOUS
    <2>2. I \in SUBSET I /\ I # {}
      BY <2>1
    <2>3. Max(I) \in I /\ Max(I) >= k + 1
      BY <2>1, <2>2, MaxOfIndices
    <2>4. Max(I) = k + 1 /\ I \ {k + 1} = 1..k /\ I \in SUBSET (1..n)
      BY <2>3
    <2> QED
      BY <2>2, <2>4 DEF Sums
  <1> QED
    BY <1>1, <1>2

Agree(v, w, m) == \A i \in 1..m : v[i] = w[i]

(* The sum of the first m numbers depends on these alone.                  *)
LEMMA SumOfFirst ==
  ASSUME NEW m \in Nat, NEW n \in Nat, m <= n,
         NEW v, NEW w \in [1..n -> Nat], Agree(v, w, m),
         NEW g, NEW h, Sums(g, v, m), Sums(h, w, n)
  PROVE  g[1..m] = h[1..m] /\ h[1..m] \in Nat
  <1> DEFINE T == {k \in Nat : k <= m => g[1..k] = h[1..k] /\ h[1..k] \in Nat}
  <1>1. 0 \in T
    <2>1. g[1..0] = 0 /\ h[1..0] = 0
      BY SumOfOneMore
    <2> QED
      BY <2>1
  <1>2. ASSUME NEW k \in Nat, k \in T
        PROVE  k + 1 \in T
    <2> SUFFICES ASSUME k + 1 <= m
                 PROVE  g[1..k + 1] = h[1..k + 1] /\ h[1..k + 1] \in Nat
      <3>1. k + 1 \in Nat
        OBVIOUS
      <3> QED
        BY <3>1
    <2>1. k \in 0..m - 1 /\ k \in 0..n - 1 /\ k + 1 \in 1..m /\ k + 1 \in 1..n
      OBVIOUS
    <2>2. g[1..k + 1] = g[1..k] + v[k + 1] /\ h[1..k + 1] = h[1..k] + w[k + 1]
      <3>1. \A j \in 0..m - 1 : g[1..j + 1] = g[1..j] + v[j + 1]
        BY SumOfOneMore, Zenon
      <3>2. \A j \in 0..n - 1 : h[1..j + 1] = h[1..j] + w[j + 1]
        BY SumOfOneMore, Zenon
      <3> QED
        BY <2>1, <3>1, <3>2, Zenon
    <2>3. g[1..k] = h[1..k] /\ h[1..k] \in Nat
      BY <1>2, <2>1
    <2> QED
      BY <2>1, <2>2, <2>3 DEF Agree
  <1> HIDE DEF T
  <1>3. m \in T
    BY <1>1, <1>2, InductionOnSet
  <1> QED
    BY <1>3 DEF T

(* No sum shrinks.                                                         *)
LEMMA SumGrows ==
  ASSUME NEW n \in Nat, NEW w \in [1..n -> Nat], NEW g, Sums(g, w, n)
  PROVE  \A k \in 0..n : g[1..k] \in Nat /\ g[1..k] <= g[1..n]
  <1> DEFINE Grown(k) == g[1..k] \in Nat /\ \A i \in 0..k : g[1..i] \in Nat /\ g[1..i] <= g[1..k]
             T == {k \in Nat : k <= n => Grown(k)}
  <1>1. 0 \in T
    <2>1. g[1..0] = 0
      BY SumOfOneMore
    <2>2. \A i \in 0..0 : i = 0
      OBVIOUS
    <2> QED
      BY <2>1, <2>2
  <1>2. ASSUME NEW k \in Nat, k \in T
        PROVE  k + 1 \in T
    <2> SUFFICES ASSUME k + 1 <= n PROVE Grown(k + 1)
      BY DEF T
    <2>1. k \in 0..n - 1 /\ k + 1 \in 1..n /\ k <= n
      OBVIOUS
    <2>2. g[1..k + 1] = g[1..k] + w[k + 1] /\ w[k + 1] \in Nat
      BY <2>1, SumOfOneMore
    <2>3. g[1..k] \in Nat /\ \A i \in 0..k : g[1..i] \in Nat /\ g[1..i] <= g[1..k]
      BY <1>2, <2>1
    <2>4. ASSUME NEW i \in 0..k + 1
          PROVE  g[1..i] \in Nat /\ g[1..i] <= g[1..k + 1]
      <3>1. CASE i = k + 1
        BY <2>2, <2>3, <3>1
      <3>2. CASE i # k + 1
        <4>1. i \in 0..k
          BY <3>2
        <4> QED
          BY <2>2, <2>3, <4>1
      <3> QED
        BY <3>1, <3>2
    <2>5. g[1..k + 1] \in Nat
      BY <2>2, <2>3
    <2> QED
      BY <2>4, <2>5
  <1> HIDE DEF T
  <1>3. n \in T
    BY <1>1, <1>2, InductionOnSet
  <1> QED
    BY <1>3 DEF T

LEMMA SumOfSequence ==
  ASSUME NEW s, NEW n \in Nat, DOMAIN s = 1..n
  PROVE  \E g : Sums(g, s, n) /\ FoldLeft(+, 0, s) = g[1..n]
  <1> DEFINE F == CHOOSE g : Sums(g, s, n)
  <1>1. Sums(F, s, n)
    BY SumExists
  <1>2. FoldLeft(+, 0, s) = F[1..n]
    BY DEF FoldLeft, MapThenFoldSet, Sums
  <1> QED
    BY <1>1, <1>2
-----------------------------------------------------------------------------
(* FlattenSeq puts its sequences one after the other: number p of sequence *)
(* i is p places behind the lengths of those before it.                    *)
Blocks(seqs, n, S) == seqs \in [1..n -> Seq(S)]

Offsets(off, seqs, n) ==
  /\ off \in [0..n -> Nat] /\ off[0] = 0
  /\ \A i \in 1..n : off[i] = off[i - 1] + Len(seqs[i])

Flattens(f, seqs, n) ==
  f = [i \in 1..n |-> IF i = 1 THEN seqs[i] ELSE f[i - 1] \o seqs[i]]

Joined(s, seqs, off, n, S) ==
  /\ s \in Seq(S) /\ Len(s) = off[n]
  /\ \A i \in 1..n : \A p \in 1..Len(seqs[i]) : s[off[i - 1] + p] = seqs[i][p]

LEMMA FlattenExists ==
  ASSUME NEW seqs, NEW n \in Nat
  PROVE  \E f : Flattens(f, seqs, n)
  <1> DEFINE T == {m \in Nat : \E f : Flattens(f, seqs, m)}
  <1>1. 0 \in T
    <2> DEFINE f == [i \in 1..0 |-> seqs[i]]
    <2>1. f = [i \in 1..0 |-> IF i = 1 THEN seqs[i] ELSE f[i - 1] \o seqs[i]]
      OBVIOUS
    <2> QED
      BY <2>1 DEF Flattens
  <1>2. ASSUME NEW m \in Nat, m \in T
        PROVE  m + 1 \in T
    <2>1. PICK f : Flattens(f, seqs, m)
      BY <1>2
    <2> DEFINE last == IF m + 1 = 1 THEN seqs[m + 1] ELSE f[m] \o seqs[m + 1]
               h == [i \in 1..m + 1 |-> IF i = m + 1 THEN last ELSE f[i]]
    <2>2. ASSUME NEW i \in 1..m + 1
          PROVE  h[i] = IF i = 1 THEN seqs[i] ELSE h[i - 1] \o seqs[i]
      <3>1. CASE i = m + 1
        BY <3>1
      <3>2. CASE i # m + 1
        <4>1. i \in 1..m
          BY <3>2
        <4>2. h[i] = f[i] /\ f[i] = IF i = 1 THEN seqs[i] ELSE f[i - 1] \o seqs[i]
          BY <2>1, <3>2, <4>1 DEF Flattens
        <4>3. i # 1 => h[i - 1] = f[i - 1]
          BY <4>1
        <4> QED
          BY <4>2, <4>3
      <3> QED
        BY <3>1, <3>2
    <2> HIDE DEF last
    <2>3. Flattens(h, seqs, m + 1)
      BY <2>2 DEF Flattens
    <2>4. m + 1 \in Nat
      OBVIOUS
    <2> QED
      BY <2>3, <2>4
  <1> HIDE DEF T
  <1>3. n \in T
    BY <1>1, <1>2, InductionOnSet
  <1> QED
    BY <1>3 DEF T

InTurn(s, a, b, S) ==
  /\ s \in Seq(S) /\ Len(s) = Len(a) + Len(b)
  /\ \A p \in 1..Len(a) : s[p] = a[p]
  /\ \A p \in 1..Len(b) : s[Len(a) + p] = b[p]

LEMMA JoinedPlaces ==
  ASSUME NEW S, NEW a \in Seq(S), NEW b \in Seq(S)
  PROVE  InTurn(a \o b, a, b, S)
  BY DEF InTurn

LEMMA FlattenedPlaces ==
  ASSUME NEW S, NEW n \in Nat \ {0}, NEW seqs, NEW off,
         Blocks(seqs, n, S), Offsets(off, seqs, n)
  PROVE  Joined(FlattenSeq(seqs), seqs, off, n, S)
  <1> DEFINE F == CHOOSE f : Flattens(f, seqs, n)
  <1>1. Flattens(F, seqs, n)
    BY FlattenExists
  <1>2. Len(seqs) = n
    BY DEF Blocks
  <1>3. FlattenSeq(seqs) = F[n]
    BY <1>2 DEF FlattenSeq, Flattens
  <1> HIDE DEF F
  <1>4. /\ off \in [0..n -> Nat] /\ off[0] = 0
        /\ \A i \in 1..n : off[i] = off[i - 1] + Len(seqs[i]) /\ seqs[i] \in Seq(S)
    BY DEF Offsets, Blocks
  <1> DEFINE Placed(k) ==
               /\ F[k] \in Seq(S) /\ Len(F[k]) = off[k]
               /\ \A i \in 0..k : off[i] <= off[k]
               /\ \A i \in 1..k : \A p \in 1..Len(seqs[i]) : F[k][off[i - 1] + p] = seqs[i][p]
             T == {k \in Nat : k + 1 <= n => Placed(k + 1)}
  <1>5. 0 \in T
    <2>1. 1 \in 1..n /\ 0 \in 0..n
      OBVIOUS
    <2>2. F[1] = seqs[1] /\ off[1] = Len(seqs[1]) /\ seqs[1] \in Seq(S)
      BY <1>1, <1>4, <2>1 DEF Flattens
    <2>3. Placed(1)
      <3>1. \A i \in 0..1 : off[i] <= off[1]
        BY <1>4, <2>1, <2>2
      <3>2. \A i \in 1..1 : \A p \in 1..Len(seqs[i]) : off[i - 1] + p = p /\ i = 1
        BY <1>4
      <3> QED
        BY <2>2, <3>1, <3>2
    <2> QED
      BY <2>3
  <1>6. ASSUME NEW k \in Nat, k \in T
        PROVE  k + 1 \in T
    <2>m. PICK m \in Nat : m = k + 1
      OBVIOUS
    <2> SUFFICES ASSUME m + 1 <= n PROVE Placed(m + 1)
      BY <2>m DEF T
    <2>1. m \in 1..n /\ m + 1 \in 1..n /\ m + 1 # 1 /\ m + 1 - 1 = m /\ m <= n
      BY <2>m
    <2>2. /\ F[m] \in Seq(S) /\ Len(F[m]) = off[m]
          /\ \A i \in 0..m : off[i] <= off[m]
          /\ \A i \in 1..m : \A p \in 1..Len(seqs[i]) : F[m][off[i - 1] + p] = seqs[i][p]
      BY <1>6, <2>1, <2>m DEF T
    <2> HIDE DEF T, Placed
    <2>4. /\ off[m + 1] = off[m] + Len(seqs[m + 1]) /\ seqs[m + 1] \in Seq(S)
          /\ off[m] \in Nat /\ off[m + 1] \in Nat /\ m \in Nat
      <3>1. m \in 0..n /\ m + 1 \in 0..n
        BY <2>1
      <3> QED
        BY <1>4, <2>1, <3>1
    <2>0. F[m] \in Seq(S) /\ Len(F[m]) = off[m] /\ Len(seqs[m + 1]) \in Nat
      BY <2>2, <2>4
    <2>3. /\ F[m + 1] \in Seq(S) /\ Len(F[m + 1]) = Len(F[m]) + Len(seqs[m + 1])
          /\ \A p \in 1..Len(F[m]) : F[m + 1][p] = F[m][p]
          /\ \A p \in 1..Len(seqs[m + 1]) : F[m + 1][Len(F[m]) + p] = seqs[m + 1][p]
      <3>1. \A i \in 1..n : F[i] = IF i = 1 THEN seqs[i] ELSE F[i - 1] \o seqs[i]
        BY <1>1 DEF Flattens
      <3>2. F[m + 1] = F[m] \o seqs[m + 1]
        <4>1. PICK j \in 1..n : j = m + 1 /\ j # 1 /\ j - 1 = m
          BY <2>1
        <4>2. F[j] = F[j - 1] \o seqs[j]
          BY <3>1, <4>1, Zenon
        <4>3. F[j] = F[m + 1] /\ F[j - 1] = F[m] /\ seqs[j] = seqs[m + 1]
          BY <4>1
        <4> QED
          BY <4>2, <4>3, Zenon
      <3>3. PICK a, b : a = F[m] /\ b = seqs[m + 1]
        OBVIOUS
      <3>4. F[m + 1] = a \o b
        BY <2>1, <3>2, <3>3, Zenon
      <3>5. a \in Seq(S) /\ b \in Seq(S)
        BY <2>0, <2>4, <3>3
      <3>6. InTurn(a \o b, a, b, S)
        BY <3>5, JoinedPlaces
      <3> QED
        BY <3>3, <3>4, <3>6, Zenon DEF InTurn
    <2>5. F[m + 1] \in Seq(S) /\ Len(F[m + 1]) = off[m + 1]
      BY <2>0, <2>3, <2>4
    <2>6. \A i \in 0..m + 1 : off[i] <= off[m + 1]
      <3> TAKE i \in 0..m + 1
      <3>1. CASE i = m + 1
        BY <2>4, <3>1
      <3>2. CASE i # m + 1
        <4>1. i \in 0..m /\ i \in 0..n
          BY <2>1, <2>4, <3>2
        <4>2. off[i] <= off[m] /\ off[i] \in Nat
          BY <1>4, <2>2, <4>1
        <4> QED
          BY <2>0, <2>4, <4>2
      <3> QED
        BY <3>1, <3>2
    <2>7. ASSUME NEW i \in 1..m + 1, NEW p \in 1..Len(seqs[i])
          PROVE  F[m + 1][off[i - 1] + p] = seqs[i][p]
      <3>0. i \in 1..n /\ i - 1 \in 0..n
        BY <2>1, <2>4
      <3>3. off[i - 1] \in Nat /\ Len(seqs[i]) \in Nat /\ p \in Nat
        BY <1>4, <3>0
      <3>1. CASE i = m + 1
        <4>1. i - 1 = m
          BY <2>4, <3>1
        <4>2. off[i - 1] = Len(F[m])
          BY <2>0, <4>1
        <4>3. p \in 1..Len(seqs[m + 1])
          BY <3>1
        <4>4. F[m + 1][Len(F[m]) + p] = seqs[m + 1][p]
          BY <2>3, <4>3
        <4> QED
          BY <3>1, <4>2, <4>4
      <3>2. CASE i # m + 1
        <4>1. i \in 1..m /\ i \in 0..m
          BY <2>1, <2>4, <3>2
        <4>2. off[i] = off[i - 1] + Len(seqs[i]) /\ off[i] <= off[m]
          BY <1>4, <2>2, <3>0, <4>1
        <4>3. off[i - 1] + p \in 1..off[m]
          <5>1. PICK x \in Nat, y \in Nat, z \in Nat :
                  x = off[i - 1] /\ y = Len(seqs[i]) /\ z = off[m]
            BY <2>4, <3>3
          <5>2. x + y <= z /\ p \in 1..y
            BY <4>2, <5>1
          <5>3. x + p \in 1..z
            BY <5>2
          <5> QED
            BY <5>1, <5>3
        <4>4. F[m + 1][off[i - 1] + p] = F[m][off[i - 1] + p]
          BY <2>0, <2>3, <4>3
        <4>5. F[m][off[i - 1] + p] = seqs[i][p]
          BY <2>2, <4>1
        <4> QED
          BY <4>4, <4>5
      <3> QED
        BY <3>1, <3>2
    <2> QED
      BY <2>5, <2>6, <2>7 DEF Placed
  <1> HIDE DEF T
  <1>7. n - 1 \in T
    <2>1. n - 1 \in Nat
      OBVIOUS
    <2> QED
      BY <1>5, <1>6, <2>1, InductionOnSet
  <1>8. Placed(n)
    <2>1. n - 1 + 1 = n
      OBVIOUS
    <2> QED
      BY <1>7, <2>1 DEF T
  <1> QED
    BY <1>3, <1>8 DEF Joined
-----------------------------------------------------------------------------
(* The place of a number: a multiple of the divisor and a remainder.       *)
Place(x, q, b, d) == q \in Int /\ b \in 0..d - 1 /\ x = q * d + b

LEMMA Division ==
  ASSUME NEW a \in Int, NEW d \in Nat \ {0}
  PROVE  Place(a, a \div d, a % d, d) /\ (a \in Nat => a \div d \in Nat)
  <1>1. a \div d \in Int /\ a % d \in 0..d - 1
    OBVIOUS
  <1>2. a = d * (a \div d) + (a % d)
    OBVIOUS
  <1>3. a >= 0 => a \div d >= 0
    OBVIOUS
  <1> QED
    BY <1>1, <1>2, <1>3 DEF Place

(* Of two multiples the larger one is a whole divisor behind the other.    *)
LEMMA LaterMultiple ==
  ASSUME NEW d \in Nat \ {0}, NEW q \in Int, NEW r \in Int, q < r
  PROVE  q * d + d <= r * d
  <1>1. PICK k \in Nat : r = q + 1 + k
    <2>1. r - q - 1 \in Nat /\ r = q + 1 + (r - q - 1)
      OBVIOUS
    <2> QED
      BY <2>1
  <1>2. r * d = q * d + d + k * d /\ k * d \in Nat /\ q * d \in Int
    BY <1>1
  <1> QED
    BY <1>2

LEMMA PlaceIsUnique ==
  ASSUME NEW d \in Nat \ {0}, NEW q \in Int, NEW r \in Int, NEW b \in 0..d - 1, NEW c \in 0..d - 1,
         q * d + b = r * d + c
  PROVE  q = r /\ b = c
  <1>0. q * d \in Int /\ r * d \in Int
    OBVIOUS
  <1>1. ~(q < r)
    <2> SUFFICES ASSUME q < r PROVE FALSE
      OBVIOUS
    <2>1. q * d + d <= r * d
      BY LaterMultiple
    <2> QED
      BY <1>0, <2>1
  <1>2. ~(r < q)
    <2> SUFFICES ASSUME r < q PROVE FALSE
      OBVIOUS
    <2>1. r * d + d <= q * d
      BY LaterMultiple
    <2> QED
      BY <1>0, <2>1
  <1>3. q = r
    BY <1>1, <1>2
  <1> QED
    BY <1>0, <1>3

LEMMA OnePlace ==
  ASSUME NEW d \in Nat \ {0}, NEW x, NEW q, NEW b, NEW r, NEW c, Place(x, q, b, d), Place(x, r, c, d)
  PROVE  q = r /\ b = c
  BY PlaceIsUnique DEF Place

(* A product is no smaller than its factor.                                *)
LEMMA ProductIsLarger ==
  ASSUME NEW n \in Nat \ {0}, NEW t \in Nat \ {0}
  PROVE  n * t \in Nat \ {0} /\ n <= n * t
  <1>1. PICK k \in Nat : t = k + 1
    <2>1. t - 1 \in Nat /\ t = t - 1 + 1
      OBVIOUS
    <2> QED
      BY <2>1
  <1>2. n * t = n * k + n /\ n * k \in Nat
    BY <1>1
  <1> QED
    BY <1>2
===============================================================================
