--------------------------- MODULE PolicyCore_proofs --------------------------
(***************************************************************************)
(* What is proved of the policy core: the history of observations and the  *)
(* order get_obs_vec takes them in, the contract between the node and its  *)
(* model, the output, the reference motion and the orientations.  Each has *)
(* its invariant, its steps and its theorem.                               *)
(***************************************************************************)
EXTENDS MCPolicyCore, SequenceLemmas, SequenceTheorems

(***** The history of observations ***************************************)

LEMMA InitialBuffer == Init => TypeOK /\ NewestFirst
  <1> SUFFICES ASSUME Init PROVE TypeOK /\ NewestFirst
    OBVIOUS
  <1>1. TypeOK
    BY BufferAssumption DEF Init, TypeOK
  <1>2. ASSUME NEW e \in Envs, NEW t \in Steps
        PROVE  obsBuf[e][t] = Remembered(e, t)
    <2>1. obsBuf[e][t] = 0 /\ log[e] = <<>> /\ base[e] = 0
      BY DEF Init
    <2>2. ~(t < Len(log[e]))
      BY <2>1 DEF Steps
    <2> QED
      BY <2>1, <2>2 DEF Remembered
  <1> QED
    BY <1>1, <1>2 DEF NewestFirst

LEMMA InsertStep ==
  ASSUME TypeOK, NewestFirst, Insert
  PROVE  TypeOK' /\ NewestFirst'
  <1>1. /\ given' = given + 1 /\ given' \in 0..MaxObservations
        /\ 0 \in Steps /\ HistoryLength \in Nat \ {0}
    BY BufferAssumption DEF Insert, TypeOK, Steps
  <1>2. ASSUME NEW e \in Envs
        PROVE  /\ obsBuf'[e] \in [Steps -> Nat]
               /\ \A t \in Steps :
                    obsBuf'[e][t] = IF t = 0 THEN given' ELSE obsBuf[e][t - 1]
    <2>1. /\ obsBuf'[e] = [Shift(obsBuf[e]) EXCEPT ![0] = given']
          /\ obsBuf[e] \in [Steps -> Nat]
      BY <1>2 DEF Insert, TypeOK
    <2>2. /\ Shift(obsBuf[e]) \in [Steps -> Nat]
          /\ \A t \in Steps \ {0} : Shift(obsBuf[e])[t] = obsBuf[e][t - 1]
      BY <1>1, <2>1 DEF Shift, Steps
    <2> QED
      BY <1>1, <2>1, <2>2
  <1>3. /\ obsBuf' = [e \in Envs |-> obsBuf'[e]]
        /\ log' = [e \in Envs |-> Append(log[e], given')]
        /\ base' = base
    BY DEF Insert
  <1>4. TypeOK'
    BY <1>1, <1>2, <1>3 DEF TypeOK
  <1>5. ASSUME NEW e \in Envs, NEW t \in Steps
        PROVE  obsBuf'[e][t] = Remembered(e, t)'
    <2>1. /\ log[e] \in Seq(Nat)
          /\ log'[e] = Append(log[e], given')
          /\ Len(log'[e]) = Len(log[e]) + 1
          /\ base'[e] = base[e]
      BY <1>3 DEF TypeOK
    <2>2. CASE t = 0
      BY <1>2, <2>1, <2>2 DEF Remembered
    <2>3. CASE t # 0
      <3>1. t - 1 \in Steps /\ t \in Nat
        BY <1>1, <2>3 DEF Steps
      <3>2. obsBuf'[e][t] = Remembered(e, t - 1)
        BY <1>2, <2>3, <3>1 DEF NewestFirst
      <3>3. CASE t - 1 < Len(log[e])
        <4>1. Len(log[e]) - (t - 1) \in 1..Len(log[e])
          BY <2>1, <3>1, <3>3, <2>3
        <4>2. log'[e][Len(log'[e]) - t] = log[e][Len(log[e]) - (t - 1)]
          BY <2>1, <3>1, <4>1
        <4> QED
          BY <2>1, <3>1, <3>2, <3>3, <4>2 DEF Remembered
      <3>4. CASE ~(t - 1 < Len(log[e]))
        BY <2>1, <3>1, <3>2, <3>4 DEF Remembered
      <3> QED
        BY <3>3, <3>4
    <2> QED
      BY <2>2, <2>3
  <1> QED
    BY <1>4, <1>5 DEF NewestFirst

LEMMA ResetStep ==
  ASSUME TypeOK, NewestFirst, NEW envs \in SUBSET Envs, Reset(envs)
  PROVE  TypeOK' /\ NewestFirst'
  <1>1. given' \in 0..MaxObservations /\ given' \in Nat
    BY BufferAssumption DEF Reset, TypeOK
  <1>2. TypeOK'
    BY <1>1 DEF Reset, TypeOK
  <1>3. ASSUME NEW e \in Envs, NEW t \in Steps
        PROVE  obsBuf'[e][t] = Remembered(e, t)'
    <2>1. CASE e \in envs
      <3>1. obsBuf'[e][t] = given' /\ log'[e] = <<>> /\ base'[e] = given'
        BY <2>1 DEF Reset
      <3>2. t \in Nat
        BY DEF Steps
      <3> QED
        BY <3>1, <3>2 DEF Remembered
    <2>2. CASE e \notin envs
      BY <2>2 DEF Reset, NewestFirst, Remembered
    <2> QED
      BY <2>1, <2>2
  <1> QED
    BY <1>2, <1>3 DEF NewestFirst

LEMMA BufferStep == TypeOK /\ NewestFirst /\ [Next]_vars => TypeOK' /\ NewestFirst'
  <1> SUFFICES ASSUME TypeOK, NewestFirst, [Next]_vars
               PROVE  TypeOK' /\ NewestFirst'
    OBVIOUS
  <1>1. CASE UNCHANGED vars
    BY <1>1 DEF vars, TypeOK, NewestFirst, Remembered
  <1> QED
    BY <1>1, InsertStep, ResetStep DEF Next

(* Index 0 is the latest observation and every further index one step      *)
(* older, with the observation of the last reset before the first insert.  *)
THEOREM HistoryIsNewestFirst == Spec => [](TypeOK /\ NewestFirst)
  BY InitialBuffer, BufferStep, PTL DEF Spec
-----------------------------------------------------------------------------
(***** The layout of what is taken of it *********************************)

(* Where the terms begin: each behind the one before it, the last ending   *)
(* with the observation.                                                   *)
LEMMA TermsInOrder ==
  /\ NumObs \in Nat /\ TermOffset(1) = 0 /\ TermOffset(Len(Dims) + 1) = NumObs
  /\ \A d \in DOMAIN Dims :
       /\ Dims[d] \in Nat \ {0} /\ TermOffset(d) \in Nat
       /\ TermOffset(d + 1) = TermOffset(d) + Dims[d] /\ TermOffset(d + 1) <= NumObs
  <1> DEFINE n == Len(Dims)
  <1>1. n \in Nat /\ DOMAIN Dims = 1..n /\ Dims \in [1..n -> Nat] /\ \A d \in 1..n : Dims[d] # 0
    BY BufferAssumption
  <1>2. ASSUME NEW d \in 1..n + 1
        PROVE  /\ SubSeq(Dims, 1, d - 1) \in Seq(Nat) /\ DOMAIN SubSeq(Dims, 1, d - 1) = 1..d - 1
               /\ \A i \in 1..d - 1 : SubSeq(Dims, 1, d - 1)[i] = Dims[i]
               /\ d - 1 \in Nat /\ d - 1 <= n
    BY BufferAssumption
  <1>3. SubSeq(Dims, 1, n) = Dims /\ n + 1 - 1 = n
    BY BufferAssumption
  <1> HIDE DEF n
  <1>4. PICK g : Sums(g, Dims, n) /\ NumObs = g[1..n]
    BY <1>1, SumOfSequence DEF NumObs
  <1>5. ASSUME NEW d \in 1..n + 1
        PROVE  TermOffset(d) = g[1..d - 1]
    <2>1. PICK first, m : first = SubSeq(Dims, 1, d - 1) /\ m = d - 1
      OBVIOUS
    <2>2. m \in Nat /\ DOMAIN first = 1..m /\ m <= n /\ \A i \in 1..m : first[i] = Dims[i]
      BY <1>2, <2>1
    <2>3. PICK h : Sums(h, first, m) /\ FoldLeft(+, 0, first) = h[1..m]
      BY <2>2, SumOfSequence
    <2>4. PICK w : w = Dims
      OBVIOUS
    <2>5. /\ m \in Nat /\ n \in Nat /\ m <= n /\ w \in [1..n -> Nat]
          /\ Agree(first, w, m) /\ Sums(h, first, m) /\ Sums(g, w, n)
      BY <1>1, <1>4, <2>2, <2>3, <2>4 DEF Agree
    <2>6. h[1..m] = g[1..m]
      BY <2>5, SumOfFirst
    <2> QED
      BY <2>1, <2>3, <2>6 DEF TermOffset
  <1>6. \A k \in 0..n : g[1..k] \in Nat /\ g[1..k] <= g[1..n]
    BY <1>1, <1>4, SumGrows
  <1>7. g[1..0] = 0 /\ \A k \in 0..n - 1 : g[1..k + 1] = g[1..k] + Dims[k + 1]
    BY <1>1, <1>4, SumOfOneMore
  <1>8. NumObs \in Nat /\ TermOffset(1) = 0 /\ TermOffset(n + 1) = NumObs
    <2>1. TermOffset(1) = g[1..0]
      BY <1>1, <1>5
    <2>2. TermOffset(n + 1) = g[1..n]
      BY <1>1, <1>3, <1>5
    <2>3. n \in 0..n
      BY <1>1
    <2> QED
      BY <1>4, <1>6, <1>7, <2>1, <2>2, <2>3
  <1>9. ASSUME NEW d \in 1..n
        PROVE  /\ Dims[d] \in Nat \ {0} /\ TermOffset(d) \in Nat
               /\ TermOffset(d + 1) = TermOffset(d) + Dims[d] /\ TermOffset(d + 1) <= NumObs
    <2>1. PICK k \in 0..n - 1 : k = d - 1 /\ d = k + 1
      BY <1>1
    <2>2. g[1..k + 1] = g[1..k] + Dims[k + 1] /\ k \in 0..n /\ k + 1 \in 0..n
      BY <1>1, <1>7
    <2>3. d \in 1..n + 1 /\ d + 1 \in 1..n + 1 /\ d - 1 = k /\ d + 1 - 1 = d
      BY <1>1, <2>1
    <2>4. TermOffset(d) = g[1..k] /\ TermOffset(d + 1) = g[1..d]
      BY <1>5, <2>3
    <2>5. g[1..k] \in Nat /\ g[1..d] <= g[1..n]
      BY <1>6, <2>1, <2>2
    <2>6. g[1..d] = g[1..k] + Dims[d]
      BY <2>1, <2>2
    <2> QED
      BY <1>1, <1>4, <2>4, <2>5, <2>6
  <1> QED
    BY <1>1, <1>8, <1>9 DEF n
-----------------------------------------------------------------------------
(* Place j of block k of width w.                                          *)
LEMMA InBlock ==
  ASSUME NEW n \in Nat, NEW w \in Nat, NEW k \in 1..n, NEW j \in 1..w
  PROVE  (k - 1) * w + j \in 1..n * w
  <1>1. k * w \in Nat /\ n * w \in Nat /\ (k - 1) * w \in Nat
    OBVIOUS
  <1>2. (k - 1) * w + w = k * w
    OBVIOUS
  <1>3. k * w <= n * w
    <2>1. n - k \in Nat /\ (n - k) * w \in Nat
      OBVIOUS
    <2>2. n * w = k * w + (n - k) * w
      OBVIOUS
    <2> QED
      BY <1>1, <2>1, <2>2
  <1> QED
    BY <1>1, <1>2, <1>3

(* The chosen observations of e are among S.                               *)
Chosen(e, obsIds, n, S) ==
  DOMAIN obsIds = 1..n /\ \A k \in 1..n : obsBuf[e][obsIds[k]] \in S

(* s is `width' numbers of each of the chosen observations in turn.        *)
ChosenInTurn(s, e, obsIds, n, S, first, width) ==
  /\ s \in Seq(S \X Nat) /\ Len(s) = n * width
  /\ \A k \in 1..n : \A j \in 1..width :
       s[(k - 1) * width + j] = <<obsBuf[e][obsIds[k]], first + j - 1>>

LEMMA SlicesLayout ==
  ASSUME NEW e, NEW S, NEW obsIds, NEW n \in Nat \ {0}, Chosen(e, obsIds, n, S),
         NEW first \in Nat, NEW width \in Nat
  PROVE  ChosenInTurn(Slices(e, obsIds, first, width), e, obsIds, n, S, first, width)
  <1> DEFINE slice(k) == [j \in 1..width |-> <<obsBuf[e][obsIds[k]], first + j - 1>>]
             seqs == [k \in 1..n |-> slice(k)]
             off == [k \in 0..n |-> k * width]
  <1>0. n \in Nat \ {0} /\ DOMAIN obsIds = 1..n /\ \A k \in 1..n : obsBuf[e][obsIds[k]] \in S
    BY DEF Chosen
  <1>1. \A k \in 1..n : \A j \in 1..width : <<obsBuf[e][obsIds[k]], first + j - 1>> \in S \X Nat
    BY <1>0
  <1>2. \A k \in 1..n : slice(k) \in Seq(S \X Nat) /\ Len(slice(k)) = width
    BY <1>1
  <1>3. Slices(e, obsIds, first, width) = FlattenSeq(seqs)
    BY <1>0 DEF Slices
  <1> HIDE DEF slice
  <1>4. Blocks(seqs, n, S \X Nat)
    BY <1>2 DEF Blocks
  <1>5. \A k \in 1..n : seqs[k] = slice(k)
    OBVIOUS
  <1> HIDE DEF seqs
  <1>6. Offsets(off, seqs, n)
    <2>1. off \in [0..n -> Nat] /\ off[0] = 0
      BY <1>0
    <2>2. ASSUME NEW k \in 1..n
          PROVE  off[k] = off[k - 1] + Len(seqs[k])
      <3>1. off[k] = k * width /\ off[k - 1] = (k - 1) * width
        BY <1>0
      <3>2. Len(seqs[k]) = width
        BY <1>2, <1>5
      <3> QED
        BY <3>1, <3>2
    <2> QED
      BY <2>1, <2>2 DEF Offsets
  <1>7. off[n] = n * width /\ \A k \in 1..n : off[k - 1] = (k - 1) * width
    BY <1>0
  <1> HIDE DEF off
  <1>p. PICK R : R = S \X Nat
    OBVIOUS
  <1>q. n \in Nat \ {0} /\ Blocks(seqs, n, R) /\ Offsets(off, seqs, n)
    BY <1>0, <1>4, <1>6, <1>p
  <1>r. Joined(FlattenSeq(seqs), seqs, off, n, R)
    BY <1>q, FlattenedPlaces
  <1>8. /\ FlattenSeq(seqs) \in Seq(S \X Nat) /\ Len(FlattenSeq(seqs)) = off[n]
        /\ \A k \in 1..n : \A j \in 1..Len(seqs[k]) :
             FlattenSeq(seqs)[off[k - 1] + j] = seqs[k][j]
    BY <1>p, <1>r DEF Joined
  <1>9. ASSUME NEW k \in 1..n, NEW j \in 1..width
        PROVE  FlattenSeq(seqs)[(k - 1) * width + j] = <<obsBuf[e][obsIds[k]], first + j - 1>>
    <2>1. FlattenSeq(seqs)[off[k - 1] + j] = seqs[k][j]
      BY <1>2, <1>5, <1>8
    <2>2. seqs[k][j] = <<obsBuf[e][obsIds[k]], first + j - 1>>
      BY <1>5 DEF slice
    <2> QED
      BY <1>7, <2>1, <2>2
  <1> QED
    BY <1>3, <1>7, <1>8, <1>9 DEF ChosenInTurn

(* s is term after term, each of the chosen observations in turn.          *)
TermsInTurn(s, e, obsIds, n, S) ==
  /\ s \in Seq(S \X Nat) /\ Len(s) = n * NumObs
  /\ \A d \in DOMAIN Dims : \A k \in 1..n : \A j \in 1..Dims[d] :
       s[n * TermOffset(d) + ((k - 1) * Dims[d] + j)]
         = <<obsBuf[e][obsIds[k]], TermOffset(d) + j - 1>>

LEMMA SlicesByTermLayout ==
  ASSUME NEW e, NEW S, NEW obsIds, NEW n \in Nat \ {0}, Chosen(e, obsIds, n, S)
  PROVE  TermsInTurn(SlicesByTerm(e, obsIds), e, obsIds, n, S)
  <1> DEFINE D == Len(Dims)
             seqs == [d \in 1..D |-> Slices(e, obsIds, TermOffset(d), Dims[d])]
             off == [d \in 0..D |-> n * TermOffset(d + 1)]
  <1>0. n \in Nat \ {0}
    BY DEF Chosen
  <1>1. D \in Nat \ {0} /\ DOMAIN Dims = 1..D
    BY BufferAssumption
  <1>2. /\ NumObs \in Nat /\ TermOffset(1) = 0 /\ TermOffset(D + 1) = NumObs
        /\ \A d \in 1..D : /\ Dims[d] \in Nat /\ TermOffset(d) \in Nat
                           /\ TermOffset(d + 1) = TermOffset(d) + Dims[d]
    BY <1>1, TermsInOrder
  <1> HIDE DEF D
  <1>3. SlicesByTerm(e, obsIds) = FlattenSeq(seqs)
    BY <1>1 DEF SlicesByTerm
  <1>4. PICK R : R = S \X Nat
    OBVIOUS
  <1>5. ASSUME NEW d \in 1..D
        PROVE  /\ seqs[d] \in Seq(R) /\ Len(seqs[d]) = n * Dims[d]
               /\ \A k \in 1..n : \A j \in 1..Dims[d] :
                    seqs[d][(k - 1) * Dims[d] + j]
                      = <<obsBuf[e][obsIds[k]], TermOffset(d) + j - 1>>
    <2>1. PICK first \in Nat, width \in Nat : first = TermOffset(d) /\ width = Dims[d]
      BY <1>2
    <2>2. seqs[d] = Slices(e, obsIds, first, width)
      BY <2>1
    <2>3. ChosenInTurn(Slices(e, obsIds, first, width), e, obsIds, n, S, first, width)
      BY SlicesLayout
    <2> QED
      BY <1>4, <2>1, <2>2, <2>3, Zenon DEF ChosenInTurn
  <1>6. Blocks(seqs, D, R)
    BY <1>5 DEF Blocks
  <1> HIDE DEF seqs
  <1>7. Offsets(off, seqs, D)
    <2>1. off \in [0..D -> Nat]
      <3>1. ASSUME NEW d \in 0..D
            PROVE  n * TermOffset(d + 1) \in Nat
        <4>1. TermOffset(d + 1) \in Nat
          <5>1. d + 1 \in 1..D \/ d = D
            BY <1>1
          <5> QED
            BY <1>2, <5>1
        <4>2. \A x \in Nat : n * x \in Nat
          BY <1>0
        <4> QED
          BY <4>1, <4>2
      <3> QED
        BY <3>1
    <2>2. off[0] = 0
      <3>1. 0 \in 0..D /\ 0 + 1 = 1 /\ n * 0 = 0
        BY <1>0, <1>1
      <3> QED
        BY <1>2, <3>1
    <2>3. ASSUME NEW d \in 1..D
          PROVE  off[d] = off[d - 1] + Len(seqs[d])
      <3>1. off[d] = n * TermOffset(d + 1) /\ off[d - 1] = n * TermOffset(d)
        BY <1>1
      <3>2. \A x, y \in Nat : n * (x + y) = n * x + n * y
        BY <1>0
      <3>3. n * TermOffset(d + 1) = n * TermOffset(d) + n * Dims[d]
        <4>1. PICK x, y : x = TermOffset(d) /\ y = Dims[d]
          OBVIOUS
        <4>2. x \in Nat /\ y \in Nat /\ TermOffset(d + 1) = x + y
          BY <1>2, <4>1
        <4>3. n * (x + y) = n * x + n * y
          BY <3>2, <4>2
        <4> QED
          BY <4>1, <4>2, <4>3, Zenon
      <3>4. Len(seqs[d]) = n * Dims[d]
        BY <1>5
      <3> QED
        BY <3>1, <3>3, <3>4, Zenon
    <2> QED
      BY <2>1, <2>2, <2>3 DEF Offsets
  <1>8. off[D] = n * NumObs /\ \A d \in 1..D : off[d - 1] = n * TermOffset(d)
    BY <1>1, <1>2
  <1> HIDE DEF off
  <1>j. Joined(FlattenSeq(seqs), seqs, off, D, R)
    BY <1>1, <1>6, <1>7, FlattenedPlaces
  <1>9. /\ FlattenSeq(seqs) \in Seq(R) /\ Len(FlattenSeq(seqs)) = off[D]
        /\ \A d \in 1..D : \A p \in 1..Len(seqs[d]) :
             FlattenSeq(seqs)[off[d - 1] + p] = seqs[d][p]
    BY <1>j DEF Joined
  <1>10. ASSUME NEW d \in 1..D, NEW k \in 1..n, NEW j \in 1..Dims[d]
         PROVE  FlattenSeq(seqs)[n * TermOffset(d) + ((k - 1) * Dims[d] + j)]
                  = <<obsBuf[e][obsIds[k]], TermOffset(d) + j - 1>>
    <2>1. PICK p : p = (k - 1) * Dims[d] + j
      OBVIOUS
    <2>2. p \in 1..n * Dims[d]
      BY <1>0, <1>2, <2>1, InBlock
    <2>3. FlattenSeq(seqs)[off[d - 1] + p] = seqs[d][p]
      BY <1>5, <1>9, <2>2
    <2>4. seqs[d][p] = <<obsBuf[e][obsIds[k]], TermOffset(d) + j - 1>>
      BY <1>5, <2>1
    <2> QED
      BY <1>8, <2>1, <2>3, <2>4
  <1> QED
    BY <1>1, <1>3, <1>4, <1>8, <1>9, <1>10, Zenon DEF TermsInTurn

(* What get_obs_vec takes of environment e.                                *)
EnvBlock(priority, e, obsIds) ==
  IF priority = "time" THEN Slices(e, obsIds, 0, NumObs) ELSE SlicesByTerm(e, obsIds)

(* Place (priority, k, d, j) in what is taken of one environment, from 1.  *)
Within(priority, n, k, d, j) ==
  IF priority = "time"
  THEN (k - 1) * NumObs + TermOffset(d) + j + 1
  ELSE n * TermOffset(d) + (k - 1) * Dims[d] + j + 1

AllInPlace(s, priority, e, obsIds, n, S) ==
  /\ s \in Seq(S \X Nat) /\ Len(s) = n * NumObs
  /\ \A k \in 1..n : \A d \in DOMAIN Dims : \A j \in 0..Dims[d] - 1 :
       /\ Within(priority, n, k, d, j) \in 1..n * NumObs
       /\ s[Within(priority, n, k, d, j)] = <<obsBuf[e][obsIds[k]], TermOffset(d) + j>>

LEMMA EnvBlockLayout ==
  ASSUME NEW priority, NEW e, NEW S, NEW obsIds, NEW n \in Nat \ {0}, Chosen(e, obsIds, n, S)
  PROVE  AllInPlace(EnvBlock(priority, e, obsIds), priority, e, obsIds, n, S)
  <1>1. PICK N \in Nat : N = NumObs
    BY TermsInOrder
  <1>2. ASSUME NEW k \in 1..n, NEW d \in DOMAIN Dims, NEW j \in 0..Dims[d] - 1
        PROVE  \E w, t, i \in Nat :
                 /\ w = Dims[d] /\ t = TermOffset(d) /\ i = j + 1 /\ i \in 1..w
                 /\ t + w = TermOffset(d + 1) /\ t + w <= N
    <2>1. /\ Dims[d] \in Nat /\ TermOffset(d) \in Nat
          /\ TermOffset(d + 1) = TermOffset(d) + Dims[d] /\ TermOffset(d + 1) <= N
      BY <1>1, TermsInOrder
    <2>2. j + 1 \in Nat /\ j + 1 \in 1..Dims[d]
      BY <2>1
    <2> QED
      BY <2>1, <2>2
  <1>3. CASE priority = "time"
    <2>1. EnvBlock(priority, e, obsIds) = Slices(e, obsIds, 0, N)
      BY <1>1, <1>3 DEF EnvBlock
    <2>2. ChosenInTurn(Slices(e, obsIds, 0, N), e, obsIds, n, S, 0, N)
      <3>1. PICK z \in Nat : z = 0
        OBVIOUS
      <3>2. ChosenInTurn(Slices(e, obsIds, z, N), e, obsIds, n, S, z, N)
        BY SlicesLayout
      <3> QED
        BY <3>1, <3>2
    <2>3. ASSUME NEW k \in 1..n, NEW d \in DOMAIN Dims, NEW j \in 0..Dims[d] - 1
          PROVE  /\ Within(priority, n, k, d, j) \in 1..n * N
                 /\ Slices(e, obsIds, 0, N)[Within(priority, n, k, d, j)]
                      = <<obsBuf[e][obsIds[k]], TermOffset(d) + j>>
      <3>1. PICK w, t, i \in Nat :
              /\ w = Dims[d] /\ t = TermOffset(d) /\ i = j + 1 /\ i \in 1..w
              /\ t + w = TermOffset(d + 1) /\ t + w <= N
        BY <1>2
      <3>2. PICK p \in 1..N : p = t + i
        BY <3>1
      <3>3. Within(priority, n, k, d, j) = (k - 1) * N + p
        <4>1. PICK x \in Int : x = (k - 1) * N
          OBVIOUS
        <4>2. Within(priority, n, k, d, j) = x + t + j + 1
          BY <1>1, <1>3, <3>1, <4>1 DEF Within
        <4> QED
          BY <3>1, <3>2, <4>1, <4>2
      <3>4. (k - 1) * N + p \in 1..n * N
        BY InBlock
      <3>5. Slices(e, obsIds, 0, N)[(k - 1) * N + p] = <<obsBuf[e][obsIds[k]], 0 + p - 1>>
        BY <2>2 DEF ChosenInTurn
      <3>6. 0 + p - 1 = TermOffset(d) + j
        BY <3>1, <3>2
      <3> QED
        BY <3>3, <3>4, <3>5, <3>6
    <2> QED
      BY <1>1, <2>1, <2>2, <2>3 DEF ChosenInTurn, AllInPlace
  <1>4. CASE priority # "time"
    <2>1. EnvBlock(priority, e, obsIds) = SlicesByTerm(e, obsIds)
      BY <1>4 DEF EnvBlock
    <2>2. TermsInTurn(SlicesByTerm(e, obsIds), e, obsIds, n, S)
      BY SlicesByTermLayout
    <2>3. ASSUME NEW k \in 1..n, NEW d \in DOMAIN Dims, NEW j \in 0..Dims[d] - 1
          PROVE  /\ Within(priority, n, k, d, j) \in 1..n * N
                 /\ SlicesByTerm(e, obsIds)[Within(priority, n, k, d, j)]
                      = <<obsBuf[e][obsIds[k]], TermOffset(d) + j>>
      <3>1. PICK w, t, i \in Nat :
              /\ w = Dims[d] /\ t = TermOffset(d) /\ i = j + 1 /\ i \in 1..w
              /\ t + w = TermOffset(d + 1) /\ t + w <= N
        BY <1>2
      <3>2. PICK q : q = (k - 1) * w + i
        OBVIOUS
      <3>3. q \in 1..n * w
        BY <3>1, <3>2, InBlock
      <3>4. Within(priority, n, k, d, j) = n * t + q
        <4>1. PICK x \in Int, y \in Int : x = (k - 1) * w /\ y = n * t
          OBVIOUS
        <4>2. Within(priority, n, k, d, j) = y + x + j + 1
          BY <1>4, <3>1, <4>1 DEF Within
        <4> QED
          BY <3>1, <3>2, <4>1, <4>2
      <3>5. n * t \in Nat /\ n * w \in Nat /\ n * t + n * w <= n * N
        <4>1. n * t \in Nat /\ n * w \in Nat /\ n * t + n * w = n * (t + w)
          OBVIOUS
        <4>2. PICK u \in Nat : N = t + w + u
          <5>1. N - (t + w) \in Nat /\ N = t + w + (N - (t + w))
            BY <3>1
          <5> QED
            BY <5>1
        <4>3. n * N = n * (t + w) + n * u /\ n * u \in Nat
          <5>1. \A a \in Nat : n * (a + u) = n * a + n * u
            OBVIOUS
          <5>2. t + w \in Nat /\ n * u \in Nat
            OBVIOUS
          <5> QED
            BY <4>2, <5>1, <5>2
        <4> QED
          BY <4>1, <4>3
      <3>6. n * t + q \in 1..n * N
        BY <3>3, <3>5
      <3>7. SlicesByTerm(e, obsIds)[n * t + q] = <<obsBuf[e][obsIds[k]], t + i - 1>>
        BY <2>2, <3>1, <3>2 DEF TermsInTurn
      <3>8. t + i - 1 = TermOffset(d) + j
        BY <3>1
      <3> QED
        BY <3>4, <3>6, <3>7, <3>8
    <2> QED
      BY <1>1, <2>1, <2>2, <2>3 DEF TermsInTurn, AllInPlace
  <1> QED
    BY <1>3, <1>4

(* get_obs_vec is exact for every sequence of steps.                       *)
LEMMA OutputAsTrained ==
  ASSUME TypeOK, NewestFirst, NEW priority, NEW obsIds \in Seq(Steps), obsIds # <<>>
  PROVE  AsTrained(priority, obsIds)
  <1>1. PICK n \in Nat \ {0} : n = Len(obsIds) /\ DOMAIN obsIds = 1..n
    OBVIOUS
  <1>2. PICK M \in Nat, N \in Nat \ {0} : M = n * NumObs /\ N = NumEnvs
    <2>1. NumObs \in Nat /\ NumEnvs \in Nat \ {0}
      BY BufferAssumption, TermsInOrder
    <2>2. \A x \in Nat : n * x \in Nat
      OBVIOUS
    <2> QED
      BY <2>1, <2>2
  <1>3. \A k \in 1..n : obsIds[k] \in Steps
    BY <1>1
  <1>4. \A e \in Envs : Chosen(e, obsIds, n, Nat)
    BY <1>1, <1>3 DEF Chosen, TypeOK
  <1>5. \A e \in Envs : AllInPlace(EnvBlock(priority, e, obsIds), priority, e, obsIds, n, Nat)
    BY <1>4, EnvBlockLayout
  <1>6. PICK R : R = Nat \X Nat
    OBVIOUS
  <1>7. \A i \in 1..N : i - 1 \in Envs
    BY <1>2 DEF Envs
  <1> DEFINE seqs == [i \in 1..N |-> EnvBlock(priority, i - 1, obsIds)]
             off == [i \in 0..N |-> i * M]
  <1>8. GetObsVec(priority, obsIds) = FlattenSeq(seqs)
    BY <1>2 DEF GetObsVec, EnvBlock
  <1>9. ASSUME NEW i \in 1..N
        PROVE  seqs[i] = EnvBlock(priority, i - 1, obsIds) /\ seqs[i] \in Seq(R) /\ Len(seqs[i]) = M
    BY <1>2, <1>5, <1>6, <1>7 DEF AllInPlace
  <1>10. Blocks(seqs, N, R)
    BY <1>9 DEF Blocks
  <1> HIDE DEF seqs
  <1>11. /\ off \in [0..N -> Nat] /\ off[0] = 0 /\ off[N] = N * M
         /\ \A i \in 1..N : off[i] = off[i - 1] + M /\ off[i - 1] = (i - 1) * M
    OBVIOUS
  <1> HIDE DEF off
  <1>12. Offsets(off, seqs, N)
    BY <1>9, <1>11 DEF Offsets
  <1>15. Joined(FlattenSeq(seqs), seqs, off, N, R)
    BY <1>10, <1>12, FlattenedPlaces
  <1>16. PICK taken : taken = GetObsVec(priority, obsIds)
    OBVIOUS
  <1>17. /\ Len(taken) = N * M
         /\ \A i \in 1..N : \A p \in 1..M :
              taken[(i - 1) * M + p] = EnvBlock(priority, i - 1, obsIds)[p]
    <2>1. Len(taken) = N * M
      BY <1>8, <1>11, <1>15, <1>16 DEF Joined
    <2>2. ASSUME NEW i \in 1..N, NEW p \in 1..M
          PROVE  taken[(i - 1) * M + p] = EnvBlock(priority, i - 1, obsIds)[p]
      <3>1. Len(seqs[i]) = M /\ seqs[i] = EnvBlock(priority, i - 1, obsIds)
        BY <1>9
      <3>2. FlattenSeq(seqs)[off[i - 1] + p] = seqs[i][p]
        BY <1>15, <3>1 DEF Joined
      <3> QED
        BY <1>8, <1>11, <1>16, <3>1, <3>2, Zenon
    <2> QED
      BY <2>1, <2>2
  <1>18. Len(taken) = NumEnvs * Len(obsIds) * NumObs
    <2>1. \A x \in Nat : N * (n * x) = N * n * x
      OBVIOUS
    <2> QED
      BY <1>1, <1>2, <1>17, <2>1, TermsInOrder
  <1>19. ASSUME NEW e \in Envs, NEW k \in DOMAIN obsIds, NEW d \in DOMAIN Dims,
                NEW j \in 0..Dims[d] - 1
         PROVE  taken[Position(priority, e, obsIds, k, d, j)]
                  = <<Remembered(e, obsIds[k]), TermOffset(d) + j>>
    <2>1. k \in 1..n /\ obsBuf[e][obsIds[k]] = Remembered(e, obsIds[k])
      BY <1>1, <1>3 DEF NewestFirst
    <2>2. PICK i \in 1..N : e = i - 1
      <3>1. PICK i : i = e + 1
        OBVIOUS
      <3>2. i \in 1..N /\ e = i - 1
        BY <1>2, <3>1 DEF Envs
      <3> QED
        BY <3>2, Zenon
    <2>3. PICK p \in 1..M : p = Within(priority, n, k, d, j)
      BY <1>2, <1>5, <2>1 DEF AllInPlace
    <2>4. EnvBlock(priority, e, obsIds)[p] = <<Remembered(e, obsIds[k]), TermOffset(d) + j>>
      BY <1>5, <2>1, <2>3, SMTT(30) DEF AllInPlace
    <2>5. Position(priority, e, obsIds, k, d, j) = (i - 1) * M + p
      <3>1. PICK x \in Int : x = (i - 1) * M
        OBVIOUS
      <3>2. e * Len(obsIds) * NumObs = x
        <4>1. \A y, z \in Nat : y * (n * z) = y * n * z
          OBVIOUS
        <4>2. e \in Nat /\ NumObs \in Nat
          BY <2>2, TermsInOrder
        <4> QED
          BY <1>1, <1>2, <2>2, <3>1, <4>1, <4>2
      <3>3. PICK w \in Nat, t \in Nat, m \in Nat :
              w = Dims[d] /\ t = TermOffset(d) /\ m = NumObs
        BY TermsInOrder
      <3>4. CASE priority = "time"
        <4>1. PICK y \in Int : y = (k - 1) * m
          BY <2>1
        <4>2. Position(priority, e, obsIds, k, d, j) = x + (y + t + j) + 1
          BY <3>2, <3>3, <3>4, <4>1 DEF Position
        <4>3. p = y + t + j + 1
          BY <2>3, <3>3, <3>4, <4>1 DEF Within
        <4>4. x + (y + t + j) + 1 = x + p
          <5>1. j \in Int
            BY <3>3
          <5> QED
            BY <4>3, <5>1
        <4> QED
          BY <3>1, <4>2, <4>4, Zenon
      <3>5. CASE priority # "time"
        <4>1. PICK y \in Int, z \in Int : y = (k - 1) * w /\ z = n * t
          BY <2>1
        <4>2. Position(priority, e, obsIds, k, d, j) = x + (z + y + j) + 1
          BY <1>1, <3>2, <3>3, <3>5, <4>1 DEF Position
        <4>3. p = z + y + j + 1
          BY <2>3, <3>3, <3>5, <4>1 DEF Within
        <4>4. x + (z + y + j) + 1 = x + p
          <5>1. j \in Int
            BY <3>3
          <5> QED
            BY <4>3, <5>1
        <4> QED
          BY <3>1, <4>2, <4>4, Zenon
      <3> QED
        BY <3>4, <3>5
    <2>6. taken[(i - 1) * M + p] = EnvBlock(priority, i - 1, obsIds)[p]
      BY <1>17
    <2> QED
      BY <2>2, <2>4, <2>5, <2>6
  <1> QED
    BY <1>16, <1>18, <1>19 DEF AsTrained
-----------------------------------------------------------------------------
(***** The contract of the model *****************************************)

(* The history of a node that runs its policy reaches back to the oldest   *)
(* frame the policy looks at, and the contract of the network was tried.   *)
ReadyToRun ==
  phase = "ready" =>
    /\ ~ HistoryRejected
    /\ Len(buffer) = Len(EmptyHistory)
    /\ cfg.validate => ContractHolds(Width(cfg.defaultLen))

ContractTyped ==
  /\ node \in Nodes /\ cfg \in Configs /\ net \in Models
  /\ phase \in {"idle", "ready", "failed", "crashed"}
  /\ buffer \in Seq(0..MaxRuns)
  /\ episode \in 0..MaxRuns
  /\ used \in Seq([frames : Seq(Nat), shape : Seq(Int)])

ContractInv == ContractTyped /\ ReadyToRun /\ ValidatedPolicyRuns /\ HistoryIsOfThisVisit
-----------------------------------------------------------------------------
(* The observation is as wide when it is validated as when it is run: the  *)
(* default pose is no longer than the robot.                               *)
LEMMA TermsAreAlike ==
  ASSUME cfg \in Configs, NEW dofs \in {cfg.defaultLen, NumDofs}, NEW term
  PROVE  /\ TermWidth(term, dofs) \in Nat
         /\ TermWidth(term, dofs) = TermWidth(term, NumDofs)
  <1>1. NumDofs \in Nat /\ cfg.defaultLen \in Nat /\ cfg.defaultLen <= NumDofs
    <2>1. cfg.defaultLen \in DefaultLens
      BY DEF Configs
    <2>2. NumDofs \in Nat /\ cfg.defaultLen \in 0..NumDofs
      BY <2>1, ContractAssumption DEF ContractAssumption
    <2> QED
      BY <2>2
  <1>2. ASSUME NEW d \in {cfg.defaultLen, NumDofs}
        PROVE  Min({d, cfg.defaultLen}) = cfg.defaultLen
    BY <1>1 DEF Min
  <1>3. Min({dofs, cfg.defaultLen}) = cfg.defaultLen /\ Min({NumDofs, cfg.defaultLen}) = cfg.defaultLen
    BY <1>2
  <1>4. AnchorOri \in Nat /\ 2 * NumDofs \in Nat
    BY <1>1 DEF AnchorOri
  <1> QED
    BY <1>1, <1>3, <1>4 DEF TermWidth

(* Width adds the widths of the terms up.                                  *)
WidthSums(g, dofs, n) ==
  g = [S \in SUBSET (1..n) |->
        IF S = {} THEN 0 ELSE g[S \ {Max(S)}] + TermWidth(cfg.terms[Max(S)], dofs)]

LEMMA WidthIsSum ==
  ASSUME NEW dofs, NEW n \in Nat, DOMAIN cfg.terms = 1..n
  PROVE  \E g : /\ Sums(g, [i \in 1..n |-> TermWidth(cfg.terms[i], dofs)], n)
               /\ Width(dofs) = g[1..n]
  <1> DEFINE w == [i \in 1..n |-> TermWidth(cfg.terms[i], dofs)]
             F == CHOOSE g : WidthSums(g, dofs, n)
  <1>1. \A S \in SUBSET (1..n) : S # {} => w[Max(S)] = TermWidth(cfg.terms[Max(S)], dofs)
    <2>1. \A S \in SUBSET (1..n) : S # {} => Max(S) \in 1..n
      BY MaxOfIndices
    <2> QED
      BY <2>1
  <1> HIDE DEF w
  <1>2. \A g : Sums(g, w, n) <=> WidthSums(g, dofs, n)
    BY <1>1 DEF Sums, WidthSums
  <1>3. \E g : WidthSums(g, dofs, n)
    BY <1>2, SumExists
  <1>4. WidthSums(F, dofs, n)
    BY <1>3
  <1>5. Width(dofs) = F[1..n]
    BY DEF Width, FoldLeft, MapThenFoldSet, WidthSums
  <1> QED
    BY <1>2, <1>4, <1>5 DEF w

LEMMA WidthIsAlike ==
  ASSUME cfg \in Configs
  PROVE  Width(cfg.defaultLen) = Width(NumDofs) /\ Width(NumDofs) \in Nat
  <1> DEFINE n == Len(cfg.terms)
             w(dofs) == [i \in 1..n |-> TermWidth(cfg.terms[i], dofs)]
  <1>1. n \in Nat /\ DOMAIN cfg.terms = 1..n
    BY ContractAssumption DEF ContractAssumption, Configs
  <1> HIDE DEF n
  <1>2. w(NumDofs) \in [1..n -> Nat] /\ w(cfg.defaultLen) = w(NumDofs)
    BY TermsAreAlike
  <1>3. PICK g : Sums(g, w(cfg.defaultLen), n) /\ Width(cfg.defaultLen) = g[1..n]
    BY <1>1, WidthIsSum
  <1>4. PICK h : Sums(h, w(NumDofs), n) /\ Width(NumDofs) = h[1..n]
    BY <1>1, WidthIsSum
  <1>5. n \in Nat /\ n <= n /\ Agree(w(cfg.defaultLen), w(NumDofs), n)
    BY <1>1, <1>2 DEF Agree
  <1> HIDE DEF w
  <1>6. g[1..n] = h[1..n] /\ h[1..n] \in Nat
    BY <1>2, <1>3, <1>4, <1>5, SumOfFirst
  <1> QED
    BY <1>3, <1>4, <1>6
-----------------------------------------------------------------------------
(* A history and what is selected from it.                                 *)
InFront(inserted, frames, frame, S) ==
  /\ inserted \in Seq(S) /\ Len(inserted) = Len(frames)
  /\ \A t \in 1..Len(frames) : inserted[t] = IF t = 1 THEN frame ELSE frames[t - 1]

LEMMA InsertedInFront ==
  ASSUME NEW S, NEW frames \in Seq(S), NEW frame \in S
  PROVE  InFront(Inserted(frames, frame), frames, frame, S)
  <1>1. CASE frames = <<>>
    BY <1>1 DEF Inserted, InFront
  <1>2. CASE frames # <<>>
    <2>1. Inserted(frames, frame) = <<frame>> \o SubSeq(frames, 1, Len(frames) - 1)
      BY <1>2 DEF Inserted, Front
    <2> DEFINE n == Len(frames) - 1
    <2>0. n \in Nat /\ n + 1 = Len(frames) /\ \A t \in 1..n : frames[t] \in S
      BY <1>2
    <2> HIDE DEF n
    <2>2. /\ SubSeq(frames, 1, n) \in Seq(S) /\ Len(SubSeq(frames, 1, n)) = n
          /\ \A t \in 1..n : SubSeq(frames, 1, n)[t] = frames[t]
      BY <2>0
    <2>3. Inserted(frames, frame) = <<frame>> \o SubSeq(frames, 1, n)
      BY <2>1 DEF n
    <2>4. <<frame>> \in Seq(S) /\ Len(<<frame>>) = 1 /\ <<frame>>[1] = frame
      OBVIOUS
    <2>5. /\ <<frame>> \o SubSeq(frames, 1, n) \in Seq(S)
          /\ Len(<<frame>> \o SubSeq(frames, 1, n)) = 1 + n
          /\ \A p \in 1..1 : (<<frame>> \o SubSeq(frames, 1, n))[p] = <<frame>>[p]
          /\ \A p \in 1..n : (<<frame>> \o SubSeq(frames, 1, n))[1 + p] = SubSeq(frames, 1, n)[p]
      <3>1. PICK a, b : a = <<frame>> /\ b = SubSeq(frames, 1, n)
        OBVIOUS
      <3>2. a \in Seq(S) /\ b \in Seq(S) /\ Len(a) = 1 /\ Len(b) = n
        BY <2>2, <2>4, <3>1
      <3>3. InTurn(a \o b, a, b, S)
        BY <3>2, JoinedPlaces
      <3> QED
        BY <3>1, <3>2, <3>3, Zenon DEF InTurn
    <2>6. ASSUME NEW t \in 1..n + 1
          PROVE  Inserted(frames, frame)[t] = IF t = 1 THEN frame ELSE frames[t - 1]
      <3>1. CASE t = 1
        BY <2>3, <2>4, <2>5, <3>1
      <3>2. CASE t # 1
        <4>1. PICK p \in 1..n : t = 1 + p /\ t - 1 = p
          BY <2>0, <3>2
        <4>2. Inserted(frames, frame)[1 + p] = frames[p]
          BY <2>2, <2>3, <2>5, <4>1
        <4> QED
          BY <3>2, <4>1, <4>2
      <3> QED
        BY <3>1, <3>2
    <2> QED
      BY <2>0, <2>3, <2>5, <2>6 DEF InFront
  <1> QED
    BY <1>1, <1>2

LEMMA WarmIsLevel ==
  ASSUME NEW S, NEW frames \in Seq(S), NEW frame \in S
  PROVE  /\ WarmStart(frames, frame) \in Seq(S)
         /\ Len(WarmStart(frames, frame)) = Len(frames)
         /\ \A t \in 1..Len(frames) : WarmStart(frames, frame)[t] = frame
  BY DEF WarmStart

(* The history reaches back far enough for every frame the policy wants.   *)
Reaching(frames) ==
  \A k \in DOMAIN cfg.history : cfg.history[k] + 1 \in 1..Len(frames)

LEMMA SelectedFrames ==
  ASSUME NEW S, NEW frames \in Seq(S), cfg \in Configs, Reaching(frames)
  PROVE  /\ Select(frames, cfg.history) \in Seq(S)
         /\ Len(Select(frames, cfg.history)) = Len(cfg.history)
  <1>1. cfg.history \in Seq(Int)
    BY ContractAssumption DEF ContractAssumption, Configs
  <1>2. \A k \in 1..Len(cfg.history) : frames[cfg.history[k] + 1] \in S
    BY <1>1 DEF Reaching
  <1>3. Len(cfg.history) \in Nat /\ DOMAIN cfg.history = 1..Len(cfg.history)
    BY <1>1
  <1> QED
    BY <1>2, <1>3 DEF Select

LEMMA EmptyReaches ==
  ASSUME cfg \in Configs, ~ HistoryRejected
  PROVE  /\ EmptyHistory \in Seq({0})
         /\ cfg.history = <<>> <=> EmptyHistory = <<>>
         /\ \A frames \in Seq(Int) : Len(frames) = Len(EmptyHistory) => Reaching(frames)
  <1>1. cfg.history \in Seq(Int)
    BY ContractAssumption DEF ContractAssumption, Configs
  <1>2. CASE cfg.history = <<>>
    BY <1>2 DEF EmptyHistory, Reaching
  <1>3. CASE cfg.history # <<>>
    <2> DEFINE M == Max(ToSet(cfg.history))
    <2>1. M \in ToSet(cfg.history) /\ \A k \in DOMAIN cfg.history : cfg.history[k] <= M
      BY <1>1, <1>3, MaxOfSequence
    <2>2. \A k \in DOMAIN cfg.history : cfg.history[k] \in Nat
      BY <1>1 DEF HistoryRejected
    <2>3. M \in Nat
      BY <2>1, <2>2 DEF ToSet
    <2>4. EmptyHistory = [t \in 1..M + 1 |-> 0]
      BY <1>3 DEF EmptyHistory
    <2> HIDE DEF M
    <2>5. EmptyHistory \in Seq({0}) /\ Len(EmptyHistory) = M + 1 /\ EmptyHistory # <<>>
      BY <2>3, <2>4
    <2>6. \A k \in DOMAIN cfg.history : cfg.history[k] + 1 \in 1..M + 1
      BY <2>1, <2>2, <2>3
    <2> QED
      BY <1>3, <2>5, <2>6 DEF Reaching
  <1> QED
    BY <1>2, <1>3
-----------------------------------------------------------------------------
(* The runtimes look at the shapes of the tensors and the numbers of their *)
(* frames only.                                                            *)
SameTensors(a, b) ==
  /\ Len(a) = Len(b) /\ DOMAIN a = DOMAIN b
  /\ \A i \in DOMAIN a : a[i].shape = b[i].shape /\ Len(a[i].frames) = Len(b[i].frames)

LEMMA SameTensorsRunAlike ==
  ASSUME NEW a, NEW b, NEW width, SameTensors(a, b), a # <<>> <=> b # <<>>,
         ForwardWithShapes(a, width)
  PROVE  ForwardWithShapes(b, width)
  <1>1. NetworkTakes(a) => NetworkTakes(b)
    BY DEF NetworkTakes, SameTensors
  <1>2. TorchForward(a, width) => TorchForward(b, width)
    BY <1>1 DEF TorchForward, SameTensors
  <1>3. OnnxForward(a, width) => OnnxForward(b, width)
    BY <1>2 DEF OnnxForward, SameTensors
  <1> QED
    BY <1>2, <1>3 DEF ForwardWithShapes
-----------------------------------------------------------------------------
(* The input of a policy with the frames F of its history: what the        *)
(* contract is tried with, and what each node has to give.                 *)
Shaped(frame, F, width) ==
  IF cfg.history = <<>> THEN <<Single(frame, width)>>
  ELSE IF cfg.mode = "obs_history"
  THEN <<Single(frame, width), Tensor(F, <<1, Len(F), width>>)>>
  ELSE <<Flat(F, width)>>

LEMMA ShapedAlike ==
  ASSUME NEW f, NEW g, NEW F, NEW G, NEW width, Len(F) = Len(G)
  PROVE  /\ SameTensors(Shaped(f, F, width), Shaped(g, G, width))
         /\ Shaped(f, F, width) # <<>> /\ Shaped(g, G, width) # <<>>
  BY DEF SameTensors, Shaped, Single, Tensor, Flat

LEMMA ShapedIsTyped ==
  ASSUME NEW f \in Nat, NEW F \in Seq(Nat), NEW width \in Int
  PROVE  Shaped(f, F, width) \in Seq([frames : Seq(Nat), shape : Seq(Int)])
  <1> DEFINE R == [frames : Seq(Nat), shape : Seq(Int)]
  <1>1. Len(F) \in Int /\ Len(F) * width \in Int
    OBVIOUS
  <1>2. \A d \in Int : <<f>> \in Seq(Nat) /\ <<1, d>> \in Seq(Int)
    OBVIOUS
  <1>3. Single(f, width) \in R
    BY <1>2 DEF Single, Tensor
  <1>4. Flat(F, width) \in R
    BY <1>1, <1>2 DEF Flat, Tensor
  <1>5. <<1, Len(F), width>> \in Seq(Int)
    BY <1>1
  <1>6. Tensor(F, <<1, Len(F), width>>) \in R
    BY <1>5 DEF Tensor
  <1> HIDE DEF R
  <1>7. \A x, y \in R : <<x>> \in Seq(R) /\ <<x, y>> \in Seq(R)
    OBVIOUS
  <1> QED
    BY <1>3, <1>4, <1>6, <1>7 DEF Shaped, R

LEMMA ValidatedInput ==
  ASSUME NEW past, NEW frame, NEW width, NEW warmed
  PROVE  BuildPolicyModelInput(past, frame, width, warmed)
           = Shaped(frame, Select(Inserted(IF cfg.warm /\ ~warmed THEN WarmStart(past, frame)
                                           ELSE past, frame), cfg.history), width)
  BY DEF BuildPolicyModelInput, Shaped

LEMMA SimInputIsShaped ==
  ASSUME NEW frame, NEW width, BuildAccepts(width),
         Len(Select(SimHistory(frame), cfg.history)) = Len(cfg.history)
  PROVE  SimInput(frame, width)
           = Shaped(frame, Select(SimHistory(frame), cfg.history), width)
  BY DEF SimInput, Shaped, BuildAccepts

LEMMA OneInputIsShaped ==
  ASSUME NEW frame, NEW width, cfg.mode # "obs_history"
  PROVE  OneInput(frame, width)
           = Shaped(frame, Select(Inserted(buffer, frame), cfg.history), width)
  BY DEF OneInput, Shaped

(* Only the first dimension of the network may be dynamic, and it is       *)
(* stored as the 1 that the tensor has there.                              *)
LEMMA StoredShapesFit ==
  ASSUME net \in Models, Static, cfg.mode # "obs_history",
         NEW f, NEW F, NEW width, ForwardWithShapes(Shaped(f, F, width), width)
  PROVE  Forward(Shaped(f, F, width), width)
  <1> DEFINE input == Shaped(f, F, width)
  <1>1. PICK frames, dim : input = <<Tensor(frames, <<1, dim>>)>>
    BY DEF Shaped, Single, Flat
  <1>2. /\ DOMAIN input = {1} /\ Len(input) = 1 /\ input # <<>>
        /\ input[1].frames = frames /\ input[1].shape = <<1, dim>>
    BY <1>1 DEF Tensor
  <1> HIDE DEF input
  <1>3. TorchForward(input, width)
    BY DEF ForwardWithShapes, OnnxForward, input
  <1>4. CASE net.file # "onnx"
    BY <1>2, <1>3, <1>4 DEF Forward, input
  <1>5. CASE net.file = "onnx"
    <2> DEFINE stored == [i \in DOMAIN input |-> Tensor(input[i].frames, InputShapes[i])]
    <2>1. /\ net.signature \in Seq(Seq(Int)) /\ Len(net.signature) = 1
          /\ Len(net.signature[1]) = 2
          /\ net.signature[1][1] \in {-1, 1} /\ net.signature[1][2] \in {-1, dim}
      <3>1. net.signature \in Seq(Seq(Int))
        BY ContractAssumption DEF ContractAssumption, Models
      <3>2. NetworkTakes(input)
        BY <1>3 DEF TorchForward
      <3>3. Len(net.signature) = 1
        BY <1>2, <3>2 DEF NetworkTakes
      <3>4. /\ Len(<<1, dim>>) = Len(net.signature[1])
            /\ \A d \in DOMAIN <<1, dim>> : net.signature[1][d] \in {-1, <<1, dim>>[d]}
        BY <1>2, <3>2 DEF NetworkTakes
      <3>5. Len(<<1, dim>>) = 2 /\ DOMAIN <<1, dim>> = {1, 2}
        OBVIOUS
      <3> QED
        BY <3>1, <3>3, <3>4, <3>5
    <2>2. net.signature[1][2] = dim /\ net.signature[1][2] # -1
      <3>1. 1 \in DOMAIN net.signature /\ 2 \in 2..Len(net.signature[1])
        BY <2>1
      <3> QED
        BY <2>1, <3>1 DEF Static
    <2>3. InputShapes[1] = <<1, dim>> /\ Len(InputShapes) = 1
      <3>1. DOMAIN net.signature = 1..1 /\ DOMAIN net.signature[1] = 1..2
        BY <2>1
      <3>2. InputShapes = [i \in 1..1 |-> InputShapes[i]]
        BY <3>1 DEF InputShapes
      <3>3. InputShapes[1] = [d \in 1..2 |-> IF net.signature[1][d] = -1 THEN 1 ELSE net.signature[1][d]]
        BY <3>1 DEF InputShapes
      <3>4. InputShapes[1][1] = 1 /\ InputShapes[1][2] = dim
        BY <2>1, <2>2, <3>3
      <3> QED
        BY <3>2, <3>3, <3>4
    <2>4. SameTensors(input, stored) /\ stored # <<>>
      BY <1>2, <2>3 DEF SameTensors, Tensor
    <2>5. ForwardWithShapes(stored, width)
      BY <1>2, <2>4, SameTensorsRunAlike DEF input
    <2>6. OnnxForward(stored, width)
      BY <1>5, <2>5 DEF ForwardWithShapes
    <2> QED
      BY <1>2, <1>5, <2>3, <2>6 DEF Forward, OnnxForwardStored, input
  <1> QED
    BY <1>4, <1>5
-----------------------------------------------------------------------------
(* What a run selects from is as long as the history, and reaches back.    *)
LEMMA FramesOfRun ==
  ASSUME ContractTyped, ReadyToRun, phase = "ready", episode < MaxRuns,
         NEW frames \in {SimHistory(episode + 1), Inserted(buffer, episode + 1)}
  PROVE  /\ frames \in Seq(0..MaxRuns) /\ Len(frames) = Len(buffer)
         /\ Select(frames, cfg.history) \in Seq(0..MaxRuns)
         /\ Len(Select(frames, cfg.history)) = Len(cfg.history)
  <1>1. /\ MaxRuns \in Nat /\ episode + 1 \in 0..MaxRuns
        /\ buffer \in Seq(0..MaxRuns) /\ cfg \in Configs /\ ~ HistoryRejected
        /\ Len(buffer) = Len(EmptyHistory)
    BY ContractAssumption DEF ContractAssumption, ContractTyped, ReadyToRun
  <1>2. /\ WarmStart(buffer, episode + 1) \in Seq(0..MaxRuns)
        /\ Len(WarmStart(buffer, episode + 1)) = Len(buffer)
    BY <1>1, WarmIsLevel
  <1>3. frames \in Seq(0..MaxRuns) /\ Len(frames) = Len(buffer)
    <2>1. PICK past \in {buffer, WarmStart(buffer, episode + 1)} :
            frames = Inserted(past, episode + 1)
      BY DEF SimHistory
    <2>2. past \in Seq(0..MaxRuns) /\ Len(past) = Len(buffer)
      BY <1>1, <1>2, <2>1
    <2>3. /\ Inserted(past, episode + 1) \in Seq(0..MaxRuns)
          /\ Len(Inserted(past, episode + 1)) = Len(past)
      <3>1. PICK S, frame : S = 0..MaxRuns /\ frame = episode + 1
        OBVIOUS
      <3>2. past \in Seq(S) /\ frame \in S
        BY <1>1, <2>2, <3>1
      <3>3. InFront(Inserted(past, frame), past, frame, S)
        BY <3>2, InsertedInFront
      <3> QED
        BY <3>1, <3>3 DEF InFront
    <2> QED
      BY <2>1, <2>2, <2>3
  <1>4. frames \in Seq(Int)
    <2>1. Len(frames) \in Nat /\ frames = [t \in 1..Len(frames) |-> frames[t]]
      BY <1>3
    <2>2. \A t \in 1..Len(frames) : frames[t] \in Int
      BY <1>1, <1>3
    <2> QED
      BY <2>1, <2>2
  <1>5. Reaching(frames)
    BY <1>1, <1>3, <1>4, EmptyReaches
  <1> QED
    BY <1>1, <1>3, <1>5, SelectedFrames

(* The contract was tried with tensors of the same shapes.                 *)
LEMMA TriedInput ==
  ASSUME cfg \in Configs, ~ HistoryRejected, NEW width
  PROVE  \E F : /\ BuildPolicyModelInput(EmptyHistory, -1, width, FALSE) = Shaped(-1, F, width)
                /\ Len(F) = Len(cfg.history)
  <1> DEFINE started == IF cfg.warm /\ ~FALSE THEN WarmStart(EmptyHistory, -1) ELSE EmptyHistory
             past == Inserted(started, -1)
  <1>1. BuildPolicyModelInput(EmptyHistory, -1, width, FALSE)
          = Shaped(-1, Select(past, cfg.history), width)
    BY ValidatedInput
  <1>2. EmptyHistory \in Seq(Int) /\ -1 \in Int
    BY EmptyReaches
  <1>3. /\ WarmStart(EmptyHistory, -1) \in Seq(Int)
        /\ Len(WarmStart(EmptyHistory, -1)) = Len(EmptyHistory)
    BY <1>2, WarmIsLevel
  <1>4. started \in Seq(Int) /\ Len(started) = Len(EmptyHistory)
    BY <1>2, <1>3
  <1> HIDE DEF started
  <1>5. past \in Seq(Int) /\ Len(past) = Len(EmptyHistory)
    <2>1. InFront(Inserted(started, -1), started, -1, Int)
      BY <1>2, <1>4, InsertedInFront
    <2> QED
      BY <1>4, <2>1 DEF InFront
  <1> HIDE DEF past
  <1>6. Len(Select(past, cfg.history)) = Len(cfg.history)
    BY <1>5, EmptyReaches, SelectedFrames
  <1> QED
    BY <1>1, <1>6

LEMMA RunAsTried ==
  ASSUME ContractTyped, ReadyToRun, phase = "ready", cfg.validate,
         NEW f, NEW F, Len(F) = Len(cfg.history)
  PROVE  /\ BuildAccepts(Width(NumDofs))
         /\ ForwardWithShapes(Shaped(f, F, Width(NumDofs)), Width(NumDofs))
  <1>1. /\ cfg \in Configs /\ ~ HistoryRejected
        /\ Width(cfg.defaultLen) = Width(NumDofs)
        /\ ContractHolds(Width(cfg.defaultLen))
    BY WidthIsAlike DEF ContractTyped, ReadyToRun
  <1> DEFINE width == Width(NumDofs)
  <1>2. /\ BuildAccepts(width)
        /\ ForwardWithShapes(BuildPolicyModelInput(EmptyHistory, -1, width, FALSE), width)
    BY <1>1 DEF ContractHolds
  <1> HIDE DEF width
  <1>3. PICK G : /\ BuildPolicyModelInput(EmptyHistory, -1, width, FALSE) = Shaped(-1, G, width)
                 /\ Len(G) = Len(cfg.history)
    BY <1>1, TriedInput
  <1>4. /\ SameTensors(Shaped(-1, G, width), Shaped(f, F, width))
        /\ Shaped(-1, G, width) # <<>> /\ Shaped(f, F, width) # <<>>
    BY <1>3, ShapedAlike
  <1>5. ForwardWithShapes(Shaped(f, F, width), width)
    BY <1>2, <1>3, <1>4, SameTensorsRunAlike
  <1> QED
    BY <1>2, <1>5 DEF width
-----------------------------------------------------------------------------
LEMMA ContractInitially == ContractInit => ContractInv
  <1> SUFFICES ASSUME ContractInit PROVE ContractInv
    OBVIOUS
  <1>1. ContractTyped
    <2>1. MaxRuns \in Nat /\ 0 \in 0..MaxRuns
      BY ContractAssumption DEF ContractAssumption
    <2>2. \A E : <<>> \in Seq(E)
      OBVIOUS
    <2> QED
      BY <2>1, <2>2 DEF ContractInit, ContractTyped
  <1>2. ReadyToRun /\ ValidatedPolicyRuns /\ HistoryIsOfThisVisit
    BY DEF ContractInit, ReadyToRun, ValidatedPolicyRuns, HistoryIsOfThisVisit
  <1> QED
    BY <1>1, <1>2 DEF ContractInv

(* What the operators of the contract look at does not change.             *)
LEMMA PolicyKept ==
  ASSUME UNCHANGED <<node, cfg, net>>
  PROVE  /\ EmptyHistory' = EmptyHistory /\ HistoryRejected' = HistoryRejected
         /\ Supported' = Supported
         /\ ContractHolds(Width(cfg.defaultLen))' = ContractHolds(Width(cfg.defaultLen))
  <1>1. EmptyHistory' = EmptyHistory
    BY DEF EmptyHistory
  <1>2. HistoryRejected' = HistoryRejected
    BY DEF HistoryRejected
  <1>3. Supported' = Supported
    BY DEF Supported, Static
  <1>4. Width(cfg.defaultLen)' = Width(cfg.defaultLen)
    BY DEF Width, FoldLeft, MapThenFoldSet, TermWidth
  <1> DEFINE width == Width(cfg.defaultLen)
             input == BuildPolicyModelInput(EmptyHistory, -1, width, FALSE)
  <1>5. BuildAccepts(width)' = BuildAccepts(width)
    BY <1>4 DEF BuildAccepts
  <1>6. input' = input
    BY <1>1, <1>4 DEF BuildPolicyModelInput, Select, Inserted, WarmStart, Single, Flat, Tensor
  <1>7. ForwardWithShapes(input, width)' = ForwardWithShapes(input, width)
    BY <1>4, <1>6, ZenonT(30) DEF ForwardWithShapes, OnnxForward, TorchForward, NetworkTakes
  <1> QED
    BY <1>1, <1>2, <1>3, <1>4, <1>5, <1>7 DEF ContractHolds

LEMMA InitRLStep ==
  ASSUME ContractInv, NEW loads \in BOOLEAN, InitRL(loads)
  PROVE  ContractInv'
  <1>1. /\ UNCHANGED <<node, cfg, net, used>> /\ episode' = 0
        /\ phase' \in {"ready", "failed"}
        /\ phase' = "ready" => ~ HistoryRejected
        /\ IF HistoryRejected THEN buffer' = buffer ELSE buffer' = EmptyHistory
        /\ phase' = "ready" /\ cfg.validate => ContractHolds(Width(cfg.defaultLen))
    BY DEF InitRL, AfterValidation
  <1>2. cfg \in Configs /\ buffer \in Seq(0..MaxRuns) /\ MaxRuns \in Nat
    BY ContractAssumption DEF ContractAssumption, ContractInv, ContractTyped
  <1>3. ~ HistoryRejected => EmptyHistory \in Seq({0})
    BY <1>2, EmptyReaches
  <1>4. buffer' \in Seq(0..MaxRuns)
    <2>1. \A s \in Seq({0}) : s \in Seq(0..MaxRuns)
      BY <1>2
    <2> QED
      BY <1>1, <1>2, <1>3, <2>1
  <1>5. ContractTyped'
    BY <1>1, <1>2, <1>4 DEF ContractInv, ContractTyped
  <1>6. ReadyToRun'
    BY <1>1, PolicyKept DEF ReadyToRun
  <1>7. ValidatedPolicyRuns'
    BY <1>1 DEF ValidatedPolicyRuns
  <1>8. HistoryIsOfThisVisit'
    <2>1. phase' = "ready" => \A t \in DOMAIN buffer' : buffer'[t] = 0
      BY <1>1, <1>3
    <2> QED
      <3>1. ASSUME phase' = "ready", NEW t \in DOMAIN buffer'
            PROVE  buffer'[t] = 0 /\ ~(t <= episode') /\ ~(episode' > 0)
        BY <1>1, <1>4, <2>1, <3>1
      <3> QED
        BY <3>1 DEF HistoryIsOfThisVisit
  <1> QED
    BY <1>5, <1>6, <1>7, <1>8 DEF ContractInv

LEMMA LeaveStep == ContractInv /\ Leave => ContractInv'
  <1> SUFFICES ASSUME ContractInv, Leave PROVE ContractInv'
    OBVIOUS
  <1>1. phase' = "idle" /\ UNCHANGED <<node, cfg, net, buffer, episode, used>>
    BY DEF Leave
  <1> QED
    BY <1>1 DEF ContractInv, ContractTyped, ReadyToRun, ValidatedPolicyRuns, HistoryIsOfThisVisit

(* The frames after a run: this one in front.                              *)
LEMMA FramesAfterRun ==
  ASSUME ContractInv, RunModel
  PROVE  HistoryIsOfThisVisit'
  <1> DEFINE frame == episode + 1
             warmed == node = "sim" /\ cfg.mode = "obs_history" /\ cfg.warm
             past == IF warmed /\ episode = 0 THEN WarmStart(buffer, frame) ELSE buffer
  <1>1. /\ MaxRuns \in Nat /\ frame \in 0..MaxRuns /\ episode \in Nat
        /\ buffer \in Seq(0..MaxRuns) /\ phase = "ready"
        /\ episode' = frame /\ UNCHANGED <<node, cfg, net>>
        /\ buffer' = Inserted(past, frame)
    BY ContractAssumption
    DEF ContractAssumption, ContractInv, ContractTyped, RunModel, SimHistory
  <1>2. \A t \in 1..Len(buffer) :
          past[t] = IF t <= episode THEN frame - t ELSE IF warmed THEN 1 ELSE 0
    <2>1. CASE warmed /\ episode = 0
      <3>1. \A t \in 1..Len(buffer) : past[t] = frame /\ ~(t <= episode)
        BY <1>1, <2>1 DEF WarmStart
      <3> QED
        BY <2>1, <3>1
    <2>2. CASE ~(warmed /\ episode = 0)
      <3>1. \A t \in 1..Len(buffer) :
              buffer[t] = IF t <= episode THEN episode + 1 - t
                          ELSE IF warmed /\ episode > 0 THEN 1 ELSE 0
        BY <1>1 DEF ContractInv, HistoryIsOfThisVisit
      <3> QED
        BY <1>1, <2>2, <3>1
    <2> QED
      BY <2>1, <2>2
  <1>3. past \in Seq(0..MaxRuns) /\ Len(past) = Len(buffer)
    BY <1>1, WarmIsLevel
  <1> HIDE DEF past
  <1>4. /\ Len(buffer') = Len(buffer) /\ buffer' \in Seq(0..MaxRuns)
        /\ \A t \in 1..Len(buffer) : buffer'[t] = IF t = 1 THEN frame ELSE past[t - 1]
    <2>1. PICK S, f : S = 0..MaxRuns /\ f = frame
      OBVIOUS
    <2>2. past \in Seq(S) /\ f \in S
      BY <1>1, <1>3, <2>1
    <2>3. InFront(Inserted(past, f), past, f, S)
      BY <2>2, InsertedInFront
    <2> QED
      BY <1>1, <1>3, <2>1, <2>3 DEF InFront
  <1>5. ASSUME NEW t \in DOMAIN buffer'
        PROVE  buffer'[t] = IF t <= frame THEN frame + 1 - t ELSE IF warmed THEN 1 ELSE 0
    <2>1. t \in 1..Len(buffer) /\ Len(buffer) \in Nat
      BY <1>1, <1>4
    <2>2. CASE t = 1
      BY <1>1, <1>4, <2>1, <2>2
    <2>3. CASE t # 1
      <3>1. t - 1 \in 1..Len(buffer)
        BY <2>1, <2>3
      <3>2. past[t - 1] = IF t - 1 <= episode THEN frame - (t - 1) ELSE IF warmed THEN 1 ELSE 0
        BY <1>2, <3>1
      <3> QED
        <4>1. frame - (t - 1) = frame + 1 - t /\ (t - 1 <= episode <=> t <= frame)
          BY <1>1, <2>1
        <4>2. buffer'[t] = past[t - 1]
          BY <1>4, <2>1, <2>3
        <4> QED
          BY <3>2, <4>1, <4>2
    <2> QED
      BY <2>2, <2>3
  <1>6. frame > 0
    BY <1>1
  <1> QED
    BY <1>1, <1>5, <1>6 DEF HistoryIsOfThisVisit

LEMMA InputIsTyped ==
  ASSUME cfg \in Configs, NEW frame \in Nat, NEW width \in Int,
         Select(SimHistory(frame), cfg.history) \in Seq(Nat),
         Select(Inserted(buffer, frame), cfg.history) \in Seq(Nat)
  PROVE  /\ SimInput(frame, width) \in Seq([frames : Seq(Nat), shape : Seq(Int)])
         /\ OneInput(frame, width) \in Seq([frames : Seq(Nat), shape : Seq(Int)])
  <1> DEFINE R == [frames : Seq(Nat), shape : Seq(Int)]
  <1>1. /\ cfg.numObs \in Int /\ cfg.length \in Int /\ Len(cfg.history) \in Int
    <2>1. cfg.numObs \in ObsSizes /\ cfg.length \in Lengths /\ cfg.history \in HistoryLists
      BY DEF Configs
    <2>2. ObsSizes \subseteq Int /\ Lengths \subseteq Int /\ HistoryLists \subseteq Seq(Int)
      BY ContractAssumption DEF ContractAssumption
    <2>3. \A s \in Seq(Int) : Len(s) \in Int
      OBVIOUS
    <2>4. cfg.history \in Seq(Int)
      BY <2>1, <2>2
    <2> QED
      BY <2>1, <2>2, <2>3, <2>4
  <1>2. \A d \in Int : Single(frame, d) \in R
    BY DEF Single, Tensor
  <1>3. ASSUME NEW F \in Seq(Nat)
        PROVE  /\ Flat(F, width) \in R
               /\ \A l, d \in Int : Tensor(F, <<1, l, d>>) \in R
    <2>1. Len(F) * width \in Int
      OBVIOUS
    <2>2. \A l, d \in Int : <<1, l>> \in Seq(Int) /\ <<1, l, d>> \in Seq(Int)
      OBVIOUS
    <2> QED
      BY <2>1, <2>2 DEF Flat, Tensor
  <1> HIDE DEF R
  <1>4. <<>> \in Seq(R) /\ \A x, y \in R : <<x>> \in Seq(R) /\ <<x, y>> \in Seq(R)
    OBVIOUS
  <1>5. SimInput(frame, width) \in Seq(R)
    BY <1>1, <1>2, <1>3, <1>4 DEF SimInput
  <1>6. OneInput(frame, width) \in Seq(R)
    BY <1>2, <1>3, <1>4 DEF OneInput
  <1> QED
    BY <1>5, <1>6 DEF R

LEMMA RunModelStep == ContractInv /\ RunModel => ContractInv'
  <1> SUFFICES ASSUME ContractInv, RunModel PROVE ContractInv'
    OBVIOUS
  <1> DEFINE width == Width(NumDofs)
             frame == episode + 1
             frames == IF node = "sim" THEN SimHistory(frame) ELSE Inserted(buffer, frame)
  <1>1. /\ phase = "ready" /\ episode < MaxRuns /\ episode' = frame
        /\ UNCHANGED <<node, cfg, net>>
        /\ used' = IF node = "sim" THEN SimInput(frame, width) ELSE OneInput(frame, width)
        /\ buffer' = frames
        /\ phase' = IF IF node = "sim" THEN ForwardWithShapes(used', width)
                                       ELSE Forward(used', width)
                    THEN "ready" ELSE "crashed"
    BY DEF RunModel
  <1>2. ContractTyped /\ ReadyToRun /\ MaxRuns \in Nat
    BY ContractAssumption DEF ContractAssumption, ContractInv
  <1>3. /\ frames \in Seq(0..MaxRuns) /\ Len(frames) = Len(buffer)
        /\ Select(frames, cfg.history) \in Seq(0..MaxRuns)
        /\ Len(Select(frames, cfg.history)) = Len(cfg.history)
    BY <1>1, <1>2, FramesOfRun
  <1>4. /\ cfg \in Configs /\ net \in Models /\ node \in Nodes /\ frame \in 0..MaxRuns
        /\ width \in Nat
    BY <1>1, <1>2, WidthIsAlike DEF ContractTyped
  <1>5. ContractTyped'
    <2>1. /\ Select(SimHistory(frame), cfg.history) \in Seq(Nat)
          /\ Select(Inserted(buffer, frame), cfg.history) \in Seq(Nat)
      <3>1. /\ Select(SimHistory(frame), cfg.history) \in Seq(0..MaxRuns)
            /\ Select(Inserted(buffer, frame), cfg.history) \in Seq(0..MaxRuns)
        BY <1>1, <1>2, FramesOfRun
      <3>2. \A s \in Seq(0..MaxRuns) : s \in Seq(Nat)
        BY <1>2
      <3> QED
        BY <3>1, <3>2
    <2>2. used' \in Seq([frames : Seq(Nat), shape : Seq(Int)])
      BY <1>1, <1>4, <2>1, InputIsTyped
    <2>3. buffer' \in Seq(0..MaxRuns)
      BY <1>1, <1>3
    <2>4. phase' \in {"ready", "crashed"}
      BY <1>1
    <2> QED
      BY <1>1, <1>4, <2>2, <2>3, <2>4 DEF ContractTyped
  <1>6. ReadyToRun'
    <2>1. ~ HistoryRejected /\ Len(buffer') = Len(EmptyHistory)
      BY <1>1, <1>2, <1>3 DEF ReadyToRun
    <2>2. cfg.validate => ContractHolds(Width(cfg.defaultLen))
      BY <1>1, <1>2 DEF ReadyToRun
    <2> QED
      BY <1>1, <2>1, <2>2, PolicyKept DEF ReadyToRun
  <1>7. ValidatedPolicyRuns'
    <2> SUFFICES ASSUME cfg.validate, Supported PROVE phase' # "crashed"
      BY <1>1, PolicyKept DEF ValidatedPolicyRuns
    <2> DEFINE F == Select(frames, cfg.history)
    <2>1. BuildAccepts(width) /\ ForwardWithShapes(Shaped(frame, F, width), width)
      BY <1>1, <1>2, <1>3, RunAsTried
    <2>2. CASE node = "sim"
      <3>1. used' = Shaped(frame, F, width)
        BY <1>1, <1>3, <2>1, <2>2, SimInputIsShaped
      <3> QED
        BY <1>1, <2>1, <2>2, <3>1
    <2>3. CASE node # "sim"
      <3>1. cfg.mode # "obs_history" /\ Static
        BY <2>3 DEF Supported
      <3>2. used' = Shaped(frame, F, width)
        BY <1>1, <2>3, <3>1, OneInputIsShaped
      <3>3. Forward(used', width)
        BY <1>4, <2>1, <3>1, <3>2, StoredShapesFit
      <3> QED
        BY <1>1, <2>3, <3>3
    <2> QED
      BY <2>2, <2>3
  <1>8. HistoryIsOfThisVisit'
    BY FramesAfterRun
  <1> QED
    BY <1>5, <1>6, <1>7, <1>8 DEF ContractInv
-----------------------------------------------------------------------------
LEMMA ContractStep == ContractInv /\ [ContractNext]_contractVars => ContractInv'
  <1>1. ContractInv /\ UNCHANGED contractVars => ContractInv'
    BY PolicyKept DEF contractVars, ContractInv, ContractTyped, ReadyToRun, ValidatedPolicyRuns,
                      HistoryIsOfThisVisit
  <1> QED
    BY <1>1, InitRLStep, LeaveStep, RunModelStep DEF ContractNext

LEMMA ContractInvIsSafe == ContractInv => ContractSafe
  <1>1. \A S : \A s \in Seq(S) : \A t \in DOMAIN s : s[t] \in S
    OBVIOUS
  <1> QED
    BY <1>1 DEF ContractInv, ContractSafe, ContractTyped, ContractTypeOK

(* A policy that was tried out never throws in the thread that runs it,    *)
(* whatever the network declares, and it runs on the frames of this visit  *)
(* alone: for any policy, robot, observation and history.                  *)
THEOREM ContractIsSafe == ContractSpec => []ContractSafe
  BY ContractInvIsSafe, ContractInitially, ContractStep, PTL DEF ContractSpec

(* rl_sim gives its model the very input the contract was tried with.      *)
THEOREM SimRunsTheContract == ContractSpec => RunsTheContract
  <1>1. ASSUME ContractInv, [ContractNext]_contractVars,
               episode' = episode + 1, cfg.validate, node = "sim",
               cfg.mode = "obs_history" \/ ~ cfg.warm
        PROVE  used' = BuildPolicyModelInput(buffer, episode', Width(NumDofs), episode > 0)
    <2>1. RunModel
      <3>1. episode \in 0..MaxRuns /\ MaxRuns \in Nat
        BY <1>1, ContractAssumption DEF ContractAssumption, ContractInv, ContractTyped
      <3>2. episode' # episode /\ episode' # 0
        BY <1>1, <3>1
      <3> QED
        BY <1>1, <3>2 DEF ContractNext, InitRL, Leave, contractVars
    <2> DEFINE frame == episode + 1
               width == Width(NumDofs)
               F == Select(SimHistory(frame), cfg.history)
    <2>2. /\ phase = "ready" /\ episode < MaxRuns /\ used' = SimInput(frame, width)
          /\ ContractTyped /\ ReadyToRun
      BY <1>1, <2>1 DEF RunModel, ContractInv
    <2>3. Len(F) = Len(cfg.history)
      BY <2>2, FramesOfRun
    <2>4. BuildAccepts(width)
      BY <1>1, <2>2, <2>3, RunAsTried
    <2>5. used' = Shaped(frame, F, width)
      BY <2>2, <2>3, <2>4, SimInputIsShaped
    <2>6. BuildPolicyModelInput(buffer, frame, width, episode > 0) = Shaped(frame, F, width)
      <3>1. episode \in Nat
        BY <2>2, ContractAssumption DEF ContractAssumption, ContractTyped
      <3>2. (cfg.warm /\ ~(episode > 0)) <=> (cfg.mode = "obs_history" /\ cfg.warm /\ episode = 0)
        BY <1>1, <3>1
      <3>3. SimHistory(frame)
              = Inserted(IF cfg.warm /\ ~(episode > 0) THEN WarmStart(buffer, frame)
                         ELSE buffer, frame)
        BY <3>2 DEF SimHistory
      <3> QED
        BY <3>3, ValidatedInput
    <2> QED
      BY <1>1, <2>5, <2>6
  <1>2. ContractInv /\ [ContractNext]_contractVars =>
          [episode' = episode + 1 /\ cfg.validate /\ node = "sim"
             /\ (cfg.mode = "obs_history" \/ ~cfg.warm)
           => used' = BuildPolicyModelInput(buffer, episode', Width(NumDofs), episode > 0)]_contractVars
    BY <1>1
  <1> QED
    BY <1>2, ContractInitially, ContractStep, PTL DEF ContractSpec, RunsTheContract
-----------------------------------------------------------------------------
(***** The output ********************************************************)

IsVector(a, n) == a \in Seq(Int) /\ Len(a) = n

OutputTyped ==
  /\ setting.scale \in ScaleLists /\ setting.torqueLimits \in LimitLists
  /\ setting.limited \in BOOLEAN
  /\ setting.kp \in Chooses(Gains) /\ setting.kd \in Chooses(Gains)
  /\ gain \in Chooses({0, 1})
  /\ robot.pos \in Chooses(Values) /\ robot.vel \in Chooses(Values)
-----------------------------------------------------------------------------
(* The operators of vector_math.hpp, element by element.                   *)
LEMMA PlusIsVector ==
  ASSUME NEW m \in Nat, NEW n \in Nat, NEW a, NEW b, IsVector(a, m), IsVector(b, n), m <= n
  PROVE  IsVector(Plus(a, b), m) /\ \A i \in 1..m : Plus(a, b)[i] = a[i] + b[i]
  BY DEF IsVector, Plus, ShorterLen

LEMMA MinusIsVector ==
  ASSUME NEW m \in Nat, NEW n \in Nat, NEW a, NEW b, IsVector(a, m), IsVector(b, n), m <= n
  PROVE  IsVector(Minus(a, b), m) /\ \A i \in 1..m : Minus(a, b)[i] = a[i] - b[i]
  BY DEF IsVector, Minus, ShorterLen

LEMMA TimesIsVector ==
  ASSUME NEW m \in Nat, NEW n \in Nat, NEW a, NEW b, IsVector(a, m), IsVector(b, n),
         NEW k \in Nat, k = IF m <= n THEN m ELSE n
  PROVE  IsVector(Times(a, b), k) /\ \A i \in 1..k : Times(a, b)[i] = a[i] * b[i]
  <1> DEFINE c == Times(a, b)
  <1>1. c = [i \in 1..k |-> a[i] * b[i]]
    BY DEF IsVector, Times, ShorterLen
  <1>2. \A i \in 1..k : a[i] \in Int /\ b[i] \in Int
    BY DEF IsVector
  <1>3. \A i \in 1..k : a[i] * b[i] \in Int
    BY <1>2
  <1>4. c \in Seq(Int) /\ Len(c) = k
    BY <1>1, <1>3
  <1> QED
    BY <1>1, <1>4 DEF IsVector

LEMMA BoundIsInteger ==
  ASSUME NEW bounds \in Seq(Int), NEW i \in Nat \ {0}, NEW v \in Int
  PROVE  BoundAt(bounds, i, v) \in Int
  BY DEF BoundAt

LEMMA ClampIsVector ==
  ASSUME NEW m \in Nat, NEW a, IsVector(a, m), NEW low \in Seq(Int), NEW high \in Seq(Int)
  PROVE  /\ IsVector(ClampVector(a, low, high), m)
         /\ \A i \in 1..m : ClampVector(a, low, high)[i]
                = ClampedTo(a[i], BoundAt(low, i, a[i]), BoundAt(high, i, a[i]))
  <1>1. \A i \in 1..m :
          ClampedTo(a[i], BoundAt(low, i, a[i]), BoundAt(high, i, a[i])) \in Int
    <2> TAKE i \in 1..m
    <2>1. a[i] \in Int /\ i \in Nat \ {0}
      BY DEF IsVector
    <2>2. BoundAt(low, i, a[i]) \in Int /\ BoundAt(high, i, a[i]) \in Int
      BY <2>1, BoundIsInteger
    <2> QED
      BY <2>1, <2>2 DEF ClampedTo
  <1> QED
    BY <1>1 DEF IsVector, ClampVector

(* A missing bound is the first one, for both ends alike.                  *)
LEMMA OppositeBounds ==
  ASSUME NEW limits \in Seq(Nat), limits # <<>>, NEW i \in Nat \ {0}, NEW v \in Int
  PROVE  /\ Negated(limits) \in Seq(Int)
         /\ BoundAt(limits, i, v) = BoundAt(limits, i, 0)
         /\ BoundAt(limits, i, 0) \in Nat
         /\ BoundAt(Negated(limits), i, v) = - BoundAt(limits, i, 0)
  BY DEF Negated, BoundAt

LEMMA ClampedBetween ==
  ASSUME NEW v \in Int, NEW limit \in Nat
  PROVE  /\ ClampedTo(v, -limit, limit) \in Int
         /\ Magnitude(ClampedTo(v, -limit, limit)) <= limit
  BY DEF ClampedTo, Magnitude

LEMMA ChosenIsVector ==
  ASSUME NEW S \in SUBSET Int, NEW a \in Chooses(S)
  PROVE  IsVector(a, NumJoints) /\ \A i \in Indices : a[i] \in S
  <1>1. NumJoints \in Nat
    BY OutputAssumption
  <1>2. a \in [1..NumJoints -> S]
    BY DEF Chooses, Indices
  <1>3. a \in [1..NumJoints -> Int]
    BY <1>2
  <1>4. a \in Seq(Int) /\ Len(a) = NumJoints
    BY <1>1, <1>3
  <1> QED
    BY <1>2, <1>4 DEF Indices, IsVector

(* The numbers of a state of OutputTyped.                                  *)
LEMMA StateVectors ==
  ASSUME OutputTyped, NEW actions \in Chooses(Values)
  PROVE  /\ NumJoints \in Nat \ {0} /\ Reach \in Nat
         /\ IsVector(actions, NumJoints)
         /\ setting.scale \in Seq(Int) /\ Wheels \subseteq DOMAIN setting.scale
         /\ setting.torqueLimits \in Seq(Nat) /\ setting.torqueLimits # <<>>
         /\ IsVector(setting.kp, NumJoints) /\ IsVector(setting.kd, NumJoints)
         /\ IsVector(gain, NumJoints) /\ \A i \in Indices : gain[i] \in {0, 1}
         /\ IsVector(robot.pos, NumJoints) /\ IsVector(robot.vel, NumJoints)
  <1>1. Values \in SUBSET Int /\ Gains \in SUBSET Int /\ {0, 1} \in SUBSET Int
    BY OutputAssumption
  <1>2. IsVector(actions, NumJoints) /\ IsVector(robot.pos, NumJoints)
          /\ IsVector(robot.vel, NumJoints)
    BY <1>1, ChosenIsVector DEF OutputTyped
  <1>3. IsVector(setting.kp, NumJoints) /\ IsVector(setting.kd, NumJoints)
    BY <1>1, ChosenIsVector DEF OutputTyped
  <1>4. IsVector(gain, NumJoints) /\ \A i \in Indices : gain[i] \in {0, 1}
    BY <1>1, ChosenIsVector DEF OutputTyped
  <1> QED
    BY <1>2, <1>3, <1>4, OutputAssumption DEF OutputTyped

(* The position target of ComputeOutput, whatever the scales reach.        *)
LEMMA TargetInReach ==
  ASSUME OutputTyped, NEW m \in Nat, m <= NumJoints, NEW scaled, IsVector(scaled, m)
  PROVE  /\ IsVector(PositionTarget(scaled), m)
         /\ setting.limited => \A i \in 1..m : Magnitude(PositionTarget(scaled)[i]) <= Reach
  <1> DEFINE offset == PositionPart(scaled)
             target == Plus(offset, Zeros(NumJoints))
             reach == [i \in Indices |-> Reach]
  <1>1. NumJoints \in Nat \ {0} /\ Reach \in Nat
    BY OutputAssumption
  <1>2. IsVector(offset, m)
    BY DEF IsVector, PositionPart
  <1>3. IsVector(Zeros(NumJoints), NumJoints)
    BY <1>1 DEF IsVector, Zeros
  <1>4. IsVector(target, m)
    BY <1>1, <1>2, <1>3, PlusIsVector
  <1>5. reach \in Seq(Nat) /\ reach # <<>> /\ \A i \in 1..m : BoundAt(reach, i, 0) = Reach
    BY <1>1 DEF Indices, BoundAt
  <1>6. Negated(reach) \in Seq(Int) /\ reach \in Seq(Int)
    BY <1>5 DEF Negated
  <1>7. CASE setting.limited
    <2>1. PositionTarget(scaled) = ClampVector(target, Negated(reach), reach)
      BY <1>7 DEF PositionTarget
    <2>2. ASSUME NEW i \in 1..m
          PROVE  PositionTarget(scaled)[i] = ClampedTo(target[i], -Reach, Reach)
      <3>1. target[i] \in Int /\ i \in Nat \ {0}
        BY <1>4 DEF IsVector
      <3>2. /\ BoundAt(reach, i, target[i]) = Reach
            /\ BoundAt(Negated(reach), i, target[i]) = -Reach
        BY <1>5, <3>1, OppositeBounds
      <3> HIDE DEF target, reach
      <3> QED
        BY <1>4, <1>6, <2>1, <3>2, ClampIsVector
    <2>3. IsVector(PositionTarget(scaled), m)
      <3> HIDE DEF target, reach
      <3> QED
        BY <1>4, <1>6, <2>1, ClampIsVector
    <2>4. \A i \in 1..m : Magnitude(PositionTarget(scaled)[i]) <= Reach
      <3> TAKE i \in 1..m
      <3>1. target[i] \in Int
        BY <1>4 DEF IsVector
      <3> HIDE DEF target
      <3> QED
        BY <1>1, <3>1, <2>2, ClampedBetween
    <2> QED
      BY <2>3, <2>4
  <1>8. CASE ~setting.limited
    BY <1>4, <1>8 DEF PositionTarget
  <1> QED
    BY <1>7, <1>8

LEMMA ElementIsInteger ==
  ASSUME NEW a, NEW n \in Nat, IsVector(a, n), NEW i \in 1..n
  PROVE  a[i] \in Int
  BY DEF IsVector

(* What the motor controller of joint i would apply with its gains damaged.*)
Wanted(i, position, velocity) ==
  (setting.kp[i] * gain[i]) * (position + velocity - robot.pos[i])
    - (setting.kd[i] * gain[i]) * robot.vel[i]

LEMMA TorqueOfTargets ==
  ASSUME OutputTyped, NEW m \in Nat, m <= NumJoints, NEW scaled, IsVector(scaled, m),
         NEW velocity, IsVector(velocity, NumJoints), NEW actions \in Chooses(Values)
  PROVE  /\ IsVector(Torque(scaled, velocity), m)
         /\ \A i \in 1..m :
              LET limit == BoundAt(setting.torqueLimits, i, 0)
                  wanted == Wanted(i, PositionTarget(scaled)[i], velocity[i])
              IN  /\ limit \in Nat /\ wanted \in Int
                  /\ Torque(scaled, velocity)[i] = ClampedTo(wanted, -limit, limit)
  <1> DEFINE target == TorqueTarget(scaled)
             n == NumJoints
             stiffness == Times(setting.kp, gain)
             damping == Times(setting.kd, gain)
             sum == Plus(target, velocity)
             away == Minus(sum, robot.pos)
             pull == Times(stiffness, away)
             brake == Times(damping, robot.vel)
             torque == Minus(pull, brake)
             limits == setting.torqueLimits
  <1>1. /\ n \in Nat
        /\ limits \in Seq(Nat) /\ limits # <<>>
        /\ IsVector(setting.kp, n) /\ IsVector(setting.kd, n) /\ IsVector(gain, n)
        /\ IsVector(robot.pos, n) /\ IsVector(robot.vel, n)
    BY StateVectors
  <1>2. IsVector(target, m) /\ target = PositionTarget(scaled)
    BY TargetInReach DEF TorqueTarget
  <1>3. IsVector(stiffness, n) /\ \A i \in 1..n : stiffness[i] = setting.kp[i] * gain[i]
    BY <1>1, TimesIsVector
  <1>4. IsVector(damping, n) /\ \A i \in 1..n : damping[i] = setting.kd[i] * gain[i]
    BY <1>1, TimesIsVector
  <1>5. IsVector(sum, m) /\ \A i \in 1..m : sum[i] = target[i] + velocity[i]
    BY <1>1, <1>2, PlusIsVector
  <1>6. IsVector(away, m) /\ \A i \in 1..m : away[i] = sum[i] - robot.pos[i]
    BY <1>1, <1>5, MinusIsVector
  <1>7. IsVector(pull, m) /\ \A i \in 1..m : pull[i] = stiffness[i] * away[i]
    <2>1. m = IF n <= m THEN n ELSE m
      BY <1>1
    <2> QED
      BY <1>1, <1>3, <1>6, <2>1, TimesIsVector
  <1>8. IsVector(brake, n) /\ \A i \in 1..n : brake[i] = damping[i] * robot.vel[i]
    BY <1>1, <1>4, TimesIsVector
  <1>9. IsVector(torque, m) /\ \A i \in 1..m : torque[i] = pull[i] - brake[i]
    BY <1>1, <1>7, <1>8, MinusIsVector
  <1>10. Torque(scaled, velocity) = ClampVector(torque, Negated(limits), limits)
    BY DEF Torque, Damped
  <1>11. Negated(limits) \in Seq(Int) /\ limits \in Seq(Int)
    BY <1>1 DEF Negated
  <1> HIDE DEF torque, brake, pull, away, sum, damping, stiffness, target
  <1>12. IsVector(Torque(scaled, velocity), m)
    BY <1>9, <1>10, <1>11, ClampIsVector
  <1>13. ASSUME NEW i \in 1..m
         PROVE  LET limit == BoundAt(limits, i, 0)
                    wanted == Wanted(i, PositionTarget(scaled)[i], velocity[i])
                IN  /\ limit \in Nat /\ wanted \in Int
                    /\ Torque(scaled, velocity)[i] = ClampedTo(wanted, -limit, limit)
    <2>1. i \in 1..n /\ i \in Nat \ {0} /\ torque[i] \in Int
      <3>1. i \in 1..n /\ i \in Nat \ {0}
        BY <1>1
      <3>2. torque[i] \in Int
        BY <1>9 DEF IsVector
      <3> QED
        BY <3>1, <3>2
    <2>2. torque[i] = Wanted(i, PositionTarget(scaled)[i], velocity[i])
      <3>1. pull[i] = stiffness[i] * (target[i] + velocity[i] - robot.pos[i])
        <4>1. away[i] = target[i] + velocity[i] - robot.pos[i]
          <5>1. away[i] = sum[i] - robot.pos[i]
            BY <1>6
          <5>2. sum[i] = target[i] + velocity[i]
            BY <1>5
          <5>3. target[i] \in Int /\ velocity[i] \in Int /\ robot.pos[i] \in Int
            BY <1>1, <1>2, <2>1, ElementIsInteger
          <5> QED
            BY <5>1, <5>2, <5>3
        <4>2. pull[i] = stiffness[i] * away[i]
          BY <1>7
        <4> QED
          BY <4>1, <4>2
      <3>2. torque[i] = stiffness[i] * (target[i] + velocity[i] - robot.pos[i])
                          - damping[i] * robot.vel[i]
        BY <2>1, <3>1, <1>8, <1>9
      <3> QED
        BY <2>1, <3>2, <1>2, <1>3, <1>4 DEF Wanted
    <2>3. /\ BoundAt(limits, i, torque[i]) = BoundAt(limits, i, 0)
          /\ BoundAt(limits, i, 0) \in Nat
          /\ BoundAt(Negated(limits), i, torque[i]) = - BoundAt(limits, i, 0)
      BY <1>1, <2>1, OppositeBounds
    <2>4. Torque(scaled, velocity)[i]
            = ClampedTo(torque[i], - BoundAt(limits, i, 0), BoundAt(limits, i, 0))
      BY <1>9, <1>10, <1>11, <2>3, ClampIsVector
    <2> QED
      BY <2>1, <2>2, <2>3, <2>4
  <1> QED
    BY <1>12, <1>13

LimitsUnchanged == \A i : LimitsOf(i)' = LimitsOf(i)

(* The limit of the code is one of those that may hold.                    *)
LEMMA LimitHolds ==
  ASSUME OutputTyped, NEW actions \in Chooses(Values), NEW i \in Nat \ {0}
  PROVE  BoundAt(setting.torqueLimits, i, 0) \in LimitsOf(i)
  <1> DEFINE limits == setting.torqueLimits
  <1>1. limits \in Seq(Nat) /\ limits # <<>> /\ Len(limits) \in Nat \ {0}
    <2>1. limits \in Seq(Nat) /\ limits # <<>>
      BY StateVectors
    <2> HIDE DEF limits
    <2> QED
      BY <2>1
  <1>2. DOMAIN limits = 1..Len(limits)
    BY <1>1
  <1>3. CASE i \in DOMAIN limits
    BY <1>1, <1>2, <1>3 DEF BoundAt, LimitsOf
  <1>4. CASE i \notin DOMAIN limits
    <2>1. BoundAt(limits, i, 0) = limits[1] /\ 1 \in DOMAIN limits
      BY <1>1, <1>2, <1>4 DEF BoundAt
    <2>2. LimitsOf(i) = {limits[j] : j \in DOMAIN limits}
      BY <1>4 DEF LimitsOf
    <2> QED
      BY <2>1, <2>2
  <1> QED
    BY <1>3, <1>4

(* What a state promises of its output, of every policy and robot.         *)
LEMMA OutputOfActions ==
  ASSUME OutputTyped, NEW actions \in Chooses(Values), ComputeOutput(actions),
         UNCHANGED <<setting, gain, robot>>
  PROVE  OutputSafe'
  <1> DEFINE n == NumJoints
             scaled == Times(actions, setting.scale)
             velocity == VelocityPart(scaled, Len(actions))
             m == IF n <= Len(setting.scale) THEN n ELSE Len(setting.scale)
             position == PositionTarget(scaled)
             torque == Torque(scaled, velocity)
             limits == setting.torqueLimits
  <1>1. /\ n \in Nat \ {0} /\ Reach \in Nat /\ limits \in Seq(Nat) /\ limits # <<>>
        /\ IsVector(actions, n) /\ Len(actions) = n
        /\ setting.scale \in Seq(Int) /\ Len(setting.scale) \in Nat
        /\ Wheels \subseteq 1..Len(setting.scale)
        /\ \A i \in Indices : gain[i] \in {0, 1}
    BY StateVectors DEF IsVector
  <1>2. m \in Nat /\ m <= n
    BY <1>1
  <1>3. IsVector(scaled, m)
    <2>1. IsVector(setting.scale, Len(setting.scale))
      BY <1>1 DEF IsVector
    <2> QED
      BY <1>1, <1>2, <2>1, TimesIsVector
  <1>4. IsVector(velocity, n)
    <2>1. Wheels \subseteq 1..m
      BY <1>1, OutputAssumption
    <2>2. \A i \in 1..n : (IF i \in Wheels THEN scaled[i] ELSE 0) \in Int
      BY <1>3, <2>1 DEF IsVector
    <2> HIDE DEF scaled
    <2> QED
      BY <1>1, <2>2 DEF VelocityPart, IsVector
  <1>5. output' = [pos |-> position, vel |-> velocity, tau |-> torque]
    BY <1>1 DEF ComputeOutput
  <1> HIDE DEF scaled, velocity, m
  <1>6. /\ IsVector(position, m)
        /\ setting.limited => \A i \in 1..m : Magnitude(position[i]) <= Reach
    BY <1>2, <1>3, TargetInReach
  <1>7. /\ IsVector(torque, m)
        /\ \A i \in 1..m :
             LET limit == BoundAt(limits, i, 0)
                 wanted == Wanted(i, position[i], velocity[i])
             IN  /\ limit \in Nat /\ wanted \in Int
                 /\ torque[i] = ClampedTo(wanted, -limit, limit)
    BY <1>2, <1>3, <1>4, TorqueOfTargets
  <1> HIDE DEF position, torque
  <1>8. OutputWithinLimits'
    <2>1. \A i \in 1..m : Magnitude(torque[i]) <= BoundAt(limits, i, 0)
      BY <1>7, ClampedBetween
    <2>2. DOMAIN torque = 1..m /\ DOMAIN position = 1..m
      BY <1>2, <1>6, <1>7 DEF IsVector
    <2>3. \A i \in 1..m : \E limit \in LimitsOf(i) : Magnitude(torque[i]) <= limit
      <3> SUFFICES ASSUME NEW i \in 1..m
                   PROVE  \E limit \in LimitsOf(i) : Magnitude(torque[i]) <= limit
        OBVIOUS
      <3>1. i \in Nat \ {0}
        BY <1>2
      <3> QED
        BY <2>1, <3>1, LimitHolds
    <2>4. LimitsUnchanged
      BY DEF LimitsUnchanged, LimitsOf
    <2> QED
      BY <1>5, <1>6, <2>2, <2>3, <2>4 DEF OutputWithinLimits, LimitsUnchanged
  <1>9. TorqueMeetsTargets'
    <2> SUFFICES ASSUME Complete PROVE TorqueMeetsTargets'
      BY DEF TorqueMeetsTargets, Complete
    <2>1. m = n
      BY <1>1 DEF Complete, m
    <2>2. Len(position) = n /\ Len(torque) = n
      BY <1>6, <1>7, <2>1 DEF IsVector
    <2>3. ASSUME NEW i \in Indices
          PROVE  LET limit == BoundAt(limits, i, 0)
                     wanted == setting.kp[i] * (position[i] + velocity[i] - robot.pos[i])
                                 - setting.kd[i] * robot.vel[i]
                 IN  torque[i] = IF gain[i] = 0 THEN 0 ELSE ClampedTo(wanted, -limit, limit)
      <3>1. /\ BoundAt(limits, i, 0) \in Nat /\ i \in 1..n
            /\ torque[i] = ClampedTo(Wanted(i, position[i], velocity[i]),
                                     -BoundAt(limits, i, 0), BoundAt(limits, i, 0))
        BY <1>7, <2>1 DEF Indices
      <3>2. /\ setting.kp[i] \in Int /\ setting.kd[i] \in Int
            /\ position[i] \in Int /\ velocity[i] \in Int
            /\ robot.pos[i] \in Int /\ robot.vel[i] \in Int
        <4>1. IsVector(setting.kp, n) /\ IsVector(setting.kd, n)
                /\ IsVector(robot.pos, n) /\ IsVector(robot.vel, n)
          BY StateVectors
        <4> QED
          BY <1>1, <1>4, <1>6, <2>1, <3>1, <4>1, ElementIsInteger
      <3>3. CASE gain[i] = 0
        <4>1. Wanted(i, position[i], velocity[i]) = 0
          BY <3>2, <3>3 DEF Wanted
        <4> QED
          BY <3>1, <3>3, <4>1 DEF ClampedTo
      <3>4. CASE gain[i] = 1
        <4>1. Wanted(i, position[i], velocity[i])
                = setting.kp[i] * (position[i] + velocity[i] - robot.pos[i])
                    - setting.kd[i] * robot.vel[i]
          BY <3>2, <3>4 DEF Wanted
        <4> QED
          BY <3>1, <3>4, <4>1
      <3> QED
        BY <1>1, <3>3, <3>4
    <2>4. ASSUME NEW i \in Indices
          PROVE  \E limit \in LimitsOf(i) :
                   torque[i] = IF gain[i] = 0 THEN 0 ELSE ClampedTo(TargetTorque(i)', -limit, limit)
      <3>1. TargetTorque(i)' = setting.kp[i] * (position[i] + velocity[i] - robot.pos[i])
                                 - setting.kd[i] * robot.vel[i]
        BY <1>5 DEF TargetTorque
      <3>2. i \in Nat \ {0}
        BY <1>1 DEF Indices
      <3> QED
        BY <2>3, <3>1, <3>2, LimitHolds
    <2>5. LimitsUnchanged
      BY DEF LimitsUnchanged, LimitsOf
    <2> QED
      BY <1>5, <2>2, <2>4, <2>5 DEF TorqueMeetsTargets, LimitsUnchanged
  <1> QED
    BY <1>8, <1>9 DEF OutputSafe

(* ComputeOutput: whatever the network answers and however short the lists *)
(* of the configuration are, no torque and no position target leaves its   *)
(* limits; the torque is the one the targets sent along ask of the damaged *)
(* motor, for any number of joints and any gains.                          *)
THEOREM OutputIsSafe == OutputSpec => []OutputSafe
  <1> DEFINE Inv == OutputTyped /\ OutputSafe
  <1>1. OutputInit => Inv
    <2> SUFFICES ASSUME OutputInit PROVE Inv
      OBVIOUS
    <2>1. OutputTyped
      BY DEF OutputInit, OutputTyped, Chooses
    <2>2. OutputSafe
      BY DEF OutputInit, OutputSafe, OutputWithinLimits, TorqueMeetsTargets
    <2> QED
      BY <2>1, <2>2
  <1>2. Inv /\ [OutputNext]_outputVars => Inv'
    <2> SUFFICES ASSUME Inv, [OutputNext]_outputVars PROVE Inv'
      OBVIOUS
    <2>1. CASE Act
      <3>1. PICK actions \in Chooses(Values) : ComputeOutput(actions)
        BY <2>1 DEF Act
      <3>2. OutputSafe'
        BY <2>1, <3>1, OutputOfActions DEF Act
      <3>3. OutputTyped'
        BY <2>1 DEF Act, OutputTyped
      <3> QED
        BY <3>2, <3>3
    <2>2. CASE Damage
      <3>1. OutputTyped'
        BY <2>2 DEF Damage, OutputTyped
      <3>2. OutputSafe'
        BY <2>2 DEF Damage, OutputSafe, OutputWithinLimits, TorqueMeetsTargets
      <3> QED
        BY <3>1, <3>2
    <2>3. CASE UNCHANGED outputVars
      BY <2>3 DEF outputVars, OutputTyped, OutputSafe, OutputWithinLimits, TorqueMeetsTargets,
                  Complete, LimitsOf, TargetTorque
    <2> QED
      BY <2>1, <2>2, <2>3 DEF OutputNext
  <1> QED
    BY <1>1, <1>2, PTL DEF OutputSpec
-----------------------------------------------------------------------------
(***** The reference motion **********************************************)

(* The rows of a file are looked at one by one.                            *)
Loads(g, file, n) ==
  g = [S \in SUBSET (1..n) |->
        IF S = {} THEN <<>> ELSE AddFrame(g[S \ {Max(S)}], file[Max(S)])]

LEMMA LoadsExists ==
  ASSUME NEW file, NEW n \in Nat
  PROVE  \E g : Loads(g, file, n)
  <1> DEFINE T == {m \in Nat : \E g : Loads(g, file, m)}
  <1>1. 0 \in T
    <2> DEFINE g == [S \in SUBSET (1..0) |-> <<>>]
    <2>1. SUBSET (1..0) = {{}}
      OBVIOUS
    <2>2. g = [S \in SUBSET (1..0) |->
                IF S = {} THEN <<>> ELSE AddFrame(g[S \ {Max(S)}], file[Max(S)])]
      BY <2>1
    <2> QED
      BY <2>2 DEF Loads
  <1>2. ASSUME NEW m \in Nat, m \in T
        PROVE  m + 1 \in T
    <2>1. PICK g : Loads(g, file, m)
      BY <1>2
    <2> DEFINE h == [S \in SUBSET (1..m + 1) |->
                      IF m + 1 \in S THEN AddFrame(g[S \ {m + 1}], file[m + 1]) ELSE g[S]]
    <2>2. ASSUME NEW S \in SUBSET (1..m + 1)
          PROVE  h[S] = IF S = {} THEN <<>>
                                  ELSE AddFrame(h[S \ {Max(S)}], file[Max(S)])
      <3>1. CASE m + 1 \in S
        <4>1. Max(S) \in S /\ Max(S) >= m + 1
          <5>1. m + 1 \in Nat
            OBVIOUS
          <5> QED
            BY <3>1, <5>1, MaxOfIndices
        <4>2. Max(S) = m + 1
          <5>1. \A i \in 1..m + 1 : i >= m + 1 => i = m + 1
            OBVIOUS
          <5> QED
            BY <4>1, <5>1
        <4>3. S \ {m + 1} \in SUBSET (1..m + 1) /\ m + 1 \notin S \ {m + 1}
          OBVIOUS
        <4> QED
          BY <3>1, <4>2, <4>3
      <3>2. CASE m + 1 \notin S
        <4>1. S \in SUBSET (1..m)
          BY <3>2
        <4>2. h[S] = g[S]
          BY <3>2
        <4>3. CASE S = {}
          BY <2>1, <4>1, <4>2, <4>3 DEF Loads
        <4>4. CASE S # {}
          <5>1. S \ {Max(S)} \in SUBSET (1..m + 1) /\ m + 1 \notin S \ {Max(S)}
            BY <3>2
          <5>2. h[S \ {Max(S)}] = g[S \ {Max(S)}]
            BY <5>1
          <5>3. g[S] = AddFrame(g[S \ {Max(S)}], file[Max(S)])
            BY <2>1, <4>1, <4>4 DEF Loads
          <5> QED
            BY <4>2, <4>4, <5>2, <5>3
        <4> QED
          BY <4>3, <4>4
      <3> QED
        BY <3>1, <3>2
    <2>3. Loads(h, file, m + 1)
      BY <2>2 DEF Loads
    <2> QED
      BY <2>3
  <1> HIDE DEF T
  <1>3. n \in T
    BY <1>1, <1>2, InductionOnSet
  <1> QED
    BY <1>3 DEF T

LEMMA LoadedFrames ==
  ASSUME NEW file \in Seq(Nat \cup {-1})
  PROVE  LoadFromCSV(file) \in Seq(Nat)
  <1> DEFINE n == Len(file)
             F == CHOOSE g : Loads(g, file, n)
  <1>1. n \in Nat /\ DOMAIN file = 1..n /\ \A i \in 1..n : file[i] \in Nat \cup {-1}
    OBVIOUS
  <1>2. Loads(F, file, n)
    BY <1>1, LoadsExists
  <1>3. LoadFromCSV(file) = F[1..n]
    BY <1>1 DEF LoadFromCSV, FoldLeft, MapThenFoldSet, Loads
  <1> HIDE DEF n, F
  <1> DEFINE T == {k \in Nat : k <= n => F[1..k] \in Seq(Nat)}
  <1>4. 0 \in T
    <2>1. 1..0 = {} /\ {} \in SUBSET (1..n)
      OBVIOUS
    <2>2. F[{}] = <<>>
      BY <1>2, <2>1 DEF Loads
    <2>3. \A E : <<>> \in Seq(E)
      OBVIOUS
    <2> QED
      BY <2>1, <2>2, <2>3
  <1>5. ASSUME NEW k \in Nat, k \in T
        PROVE  k + 1 \in T
    <2> SUFFICES ASSUME k + 1 <= n PROVE F[1..k + 1] \in Seq(Nat)
      <3>1. k + 1 \in Nat
        OBVIOUS
      <3> QED
        BY <3>1
    <2> DEFINE I == 1..k + 1
    <2>1. k + 1 \in I /\ k + 1 \in Nat
      OBVIOUS
    <2>2. I \in SUBSET I /\ I # {}
      BY <2>1
    <2>3. Max(I) \in I /\ Max(I) >= k + 1
      BY <2>1, <2>2, MaxOfIndices
    <2>4. Max(I) = k + 1 /\ I \ {k + 1} = 1..k /\ I \in SUBSET (1..n)
      BY <1>1, <2>3
    <2>5. F[I] = AddFrame(F[1..k], file[k + 1])
      BY <1>2, <2>2, <2>4 DEF Loads
    <2>6. F[1..k] \in Seq(Nat)
      BY <1>1, <1>5
    <2>7. file[k + 1] \in Nat \cup {-1}
      BY <1>1
    <2>8. AddFrame(F[1..k], file[k + 1]) \in Seq(Nat)
      BY <2>6, <2>7 DEF AddFrame
    <2> QED
      BY <2>5, <2>8
  <1> HIDE DEF T
  <1>6. n \in T
    BY <1>1, <1>4, <1>5, InductionOnSet
  <1> QED
    BY <1>1, <1>3, <1>6 DEF T
-----------------------------------------------------------------------------
(* How far playback moves.                                                 *)
(* Two moves in a row go no further than the steeper one all the way.      *)
Moves(k, j, a, b, c, u, v, w) == w = u + v /\ k = j + ((b - a) * u + (c - b) * v)

NoFurther(k, j, a, b, w) == Away(k, j) <= w * Away(a, b)

LEMMA Steepest ==
  ASSUME NEW a \in Int, NEW b \in Int, NEW c \in Int, NEW u \in Nat, NEW v \in Nat, NEW w,
         NEW j \in Int, NEW k \in Int, Moves(k, j, a, b, c, u, v, w)
  PROVE  NoFurther(k, j, a, b, w) \/ NoFurther(k, j, b, c, w)
  <1>1. PICK x \in Nat, y \in Nat : x = Away(a, b) /\ y = Away(b, c)
    <2>1. Away(a, b) \in Nat /\ Away(b, c) \in Nat
      BY DEF Away
    <2> QED
      BY <2>1
  <1>2. -x <= b - a /\ b - a <= x /\ -y <= c - b /\ c - b <= y
    BY <1>1 DEF Away
  <1>3. ASSUME NEW p \in Int, NEW q \in Nat, NEW t \in Nat, -q <= p, p <= q
        PROVE  -(q * t) <= p * t /\ p * t <= q * t
    <2>1. (q - p) * t \in Nat /\ (q + p) * t \in Nat
      BY <1>3
    <2>2. (q - p) * t = q * t - p * t /\ (q + p) * t = q * t + p * t
      OBVIOUS
    <2>3. q * t \in Int /\ p * t \in Int
      OBVIOUS
    <2> QED
      BY <2>1, <2>2, <2>3
  <1>4. PICK e \in Int, f \in Int : e = (b - a) * u /\ f = (c - b) * v
    OBVIOUS
  <1>5. /\ -(x * u) <= e /\ e <= x * u
        /\ -(y * v) <= f /\ f <= y * v
        /\ k = j + (e + f)
    BY <1>2, <1>3, <1>4 DEF Moves
  <1>6. ASSUME NEW z \in Nat, x <= z, y <= z
        PROVE  Away(k, j) <= w * z
    <2>1. PICK g \in Nat, h \in Nat : g = z * u /\ h = z * v
      OBVIOUS
    <2>2. x * u <= g /\ y * v <= h
      <3>1. -z <= x /\ -z <= y
        BY <1>6
      <3> QED
        BY <1>3, <1>6, <2>1, <3>1
    <2>3. x * u \in Nat /\ y * v \in Nat
      OBVIOUS
    <2>4. -(g + h) <= k - j /\ k - j <= g + h
      BY <1>4, <1>5, <2>2, <2>3
    <2>5. w * z = g + h
      <3>1. (u + v) * z = g + h
        BY <2>1
      <3> QED
        BY <3>1 DEF Moves
    <2>6. Away(k, j) = k - j \/ Away(k, j) = j - k
      BY DEF Away
    <2> QED
      BY <2>4, <2>5, <2>6
  <1>7. CASE x <= y
    BY <1>1, <1>6, <1>7 DEF NoFurther
  <1>8. CASE ~(x <= y)
    BY <1>1, <1>6, <1>8 DEF NoFurther
  <1> QED
    BY <1>7, <1>8

LEMMA StraightMove ==
  ASSUME NEW a \in Int, NEW b \in Int, NEW l \in Nat, NEW x \in Int, NEW y \in Int,
         x = y + ((b - a) * l + (b - b) * 0)
  PROVE  Away(x, y) <= l * Away(a, b)
  <1>1. Moves(x, y, a, b, b, l, 0, l) /\ 0 \in Nat
    BY DEF Moves
  <1>2. NoFurther(x, y, a, b, l) \/ NoFurther(x, y, b, b, l)
    BY <1>1, Steepest
  <1>3. PICK z \in Nat : z = Away(a, b)
    <2>1. Away(a, b) \in Nat
      BY DEF Away
    <2> QED
      BY <2>1
  <1>4. Away(b, b) = 0 /\ l * z \in Nat /\ l * 0 = 0
    BY DEF Away
  <1>5. CASE Away(x, y) <= l * Away(a, b)
    BY <1>5
  <1>6. CASE Away(x, y) <= l * Away(b, b)
    <2>1. Away(x, y) \in Int
      BY DEF Away
    <2>2. Away(x, y) <= 0
      BY <1>4, <1>6
    <2> QED
      BY <1>3, <1>4, <2>1, <2>2
  <1> QED
    BY <1>2, <1>5, <1>6 DEF NoFurther
-----------------------------------------------------------------------------
(* Where playback stands: so far into the motion, in frames and the rest.  *)
PlaceOfTime ==
  /\ index0 \in Nat /\ blend \in 0..Denominator - 1
  /\ index0 * Denominator + blend = Progress(time) * LastFrame
  /\ \/ index1 = NextFrame(index0)
     \/ index0 = 0 /\ index1 = 0 /\ blend = 0

MotionInv ==
  /\ motion \in Seq(Nat) /\ time \in Int
  /\ IF motion = <<>> THEN time = 0 /\ index0 = 0 /\ index1 = 0 /\ blend = 0
     ELSE NumFrames > 1 /\ PlaceOfTime

(* A loaded motion has two frames or more, and its time is not empty.      *)
LEMMA MotionLengths ==
  ASSUME motion \in Seq(Nat), NumFrames > 1
  PROVE  /\ NumFrames \in Nat \ {0, 1} /\ LastFrame \in Nat \ {0} /\ LastFrame + 1 = NumFrames
         /\ Denominator \in Nat \ {0} /\ NumFrames <= Denominator
         /\ Denominator = NumFrames * TicksPerFrame
         /\ \A i \in 0..LastFrame : motion[i + 1] \in Nat
  <1>1. NumFrames \in Nat \ {0, 1} /\ \A i \in 1..NumFrames : motion[i] \in Nat
    <2>1. NumFrames = Len(motion) /\ Len(motion) \in Nat
      BY DEF NumFrames
    <2>2. \A i \in 1..Len(motion) : motion[i] \in Nat
      OBVIOUS
    <2> QED
      BY <2>1, <2>2
  <1>2. TicksPerFrame \in Nat \ {0}
    BY MotionAssumption
  <1>3. Denominator \in Nat \ {0} /\ NumFrames <= Denominator
    <2>1. NumFrames * TicksPerFrame \in Nat \ {0} /\ NumFrames <= NumFrames * TicksPerFrame
      BY <1>1, <1>2, ProductIsLarger
    <2> QED
      BY <2>1 DEF Denominator
  <1> QED
    BY <1>1, <1>3 DEF LastFrame, Denominator

(* A place in the motion is on one of its frames, the last one only without*)
(* a remainder.                                                            *)
LEMMA PlaceInMotion ==
  ASSUME NEW d \in Nat \ {0}, NEW l \in Nat \ {0}, NEW p \in 0..d,
         NEW q \in Nat, NEW b \in 0..d - 1, q * d + b = p * l
  PROVE  q \in 0..l /\ (q = l => b = 0) /\ (p = d => q = l /\ b = 0)
  <1>1. p * l <= l * d /\ q * d \in Nat /\ l * d \in Nat
    <2>1. PICK k \in Nat : d = p + k
      <3>1. d - p \in Nat /\ d = p + (d - p)
        OBVIOUS
      <3> QED
        BY <3>1
    <2>2. l * d = p * l + k * l /\ k * l \in Nat /\ p * l \in Nat
      BY <2>1
    <2> QED
      BY <2>2
  <1>2. q <= l
    <2> SUFFICES ASSUME l < q PROVE FALSE
      OBVIOUS
    <2>1. l * d + d <= q * d
      BY LaterMultiple
    <2> QED
      BY <1>1, <2>1
  <1>3. q = l => b = 0
    BY <1>1
  <1>4. ASSUME p = d
        PROVE  q = l /\ b = 0
    <2>1. q * d + b = l * d + 0 /\ 0 \in 0..d - 1
      BY <1>4
    <2>2. Place(q * d + b, q, b, d) /\ Place(q * d + b, l, 0, d)
      BY <2>1 DEF Place
    <2> QED
      BY <2>2, OnePlace, Zenon
  <1> QED
    BY <1>2, <1>3, <1>4

LEMMA ProgressInMotion ==
  ASSUME motion \in Seq(Nat), NumFrames > 1, NEW t \in Int
  PROVE  Progress(t) \in 0..Denominator
  BY MotionLengths DEF Progress

LEMMA UpdateStep ==
  ASSUME MotionInv, NEW t \in Int, Update(t)
  PROVE  MotionInv'
  <1>1. /\ motion # <<>> /\ motion' = motion /\ motion \in Seq(Nat) /\ NumFrames > 1
        /\ time' = t
        /\ index0' = (Progress(t) * LastFrame) \div Denominator
        /\ index1' = NextFrame(index0')
        /\ blend' = (Progress(t) * LastFrame) % Denominator
    BY DEF MotionInv, Update
  <1>2. PICK d \in Nat \ {0}, p \in Nat : d = Denominator /\ p = Progress(t) * LastFrame
    <2>1. Progress(t) \in Nat /\ LastFrame \in Nat /\ Denominator \in Nat \ {0}
      BY <1>1, MotionLengths, ProgressInMotion
    <2>2. Progress(t) * LastFrame \in Nat
      BY <2>1
    <2> QED
      BY <2>1, <2>2
  <1>3. p \div d \in Nat /\ p % d \in 0..d - 1 /\ p = (p \div d) * d + (p % d)
    <2>0. p \in Int
      OBVIOUS
    <2>1. Place(p, p \div d, p % d, d) /\ (p \in Nat => p \div d \in Nat)
      BY <2>0, Division, Zenon
    <2> QED
      BY <2>1 DEF Place
  <1>4. index0' = p \div d /\ blend' = p % d
    BY <1>1, <1>2
  <1>5. /\ NumFrames' = NumFrames /\ Denominator' = Denominator /\ LastFrame' = LastFrame
        /\ Progress(time)' = Progress(t) /\ NextFrame(index0)' = NextFrame(index0')
    BY <1>1 DEF NumFrames, Denominator, LastFrame, Progress, NextFrame
  <1>6. /\ index0' \in Nat /\ blend' \in 0..d - 1
        /\ index0' * d + blend' = p
    BY <1>3, <1>4
  <1>7. PlaceOfTime'
    BY <1>1, <1>2, <1>5, <1>6 DEF PlaceOfTime
  <1> QED
    BY <1>1, <1>5, <1>7 DEF MotionInv

LEMMA ConstructStep ==
  ASSUME MotionInv, NEW file \in Files, Construct(file)
  PROVE  MotionInv'
  <1>1. /\ time' = 0 /\ index0' = 0 /\ index1' = 0 /\ blend' = 0
        /\ \/ motion' = <<>>
           \/ motion' = LoadFromCSV(file) /\ Len(LoadFromCSV(file)) > 1
    BY DEF MotionInv, Construct
  <1>2. CASE motion' = <<>>
    BY <1>1, <1>2 DEF MotionInv
  <1>3. CASE motion' = LoadFromCSV(file) /\ Len(LoadFromCSV(file)) > 1
    <2>1. motion' \in Seq(Nat) /\ NumFrames' > 1 /\ motion' # <<>>
      <3>1. LoadFromCSV(file) \in Seq(Nat)
        BY LoadedFrames, MotionAssumption
      <3> QED
        BY <1>3, <3>1 DEF NumFrames
    <2>2. PICK d \in Nat \ {0}, l \in Nat : d = Denominator' /\ l = LastFrame'
      <3>1. PICK n \in Nat \ {0} : n = NumFrames'
        <4>1. NumFrames' = Len(motion') /\ Len(motion') \in Nat
          BY <2>1 DEF NumFrames
        <4> QED
          BY <2>1, <4>1
      <3>2. n * TicksPerFrame \in Nat \ {0} /\ n - 1 \in Nat
        BY ProductIsLarger, MotionAssumption
      <3>3. Denominator' = n * TicksPerFrame /\ LastFrame' = n - 1
        BY <3>1, Zenon DEF Denominator, LastFrame
      <3> QED
        BY <3>2, <3>3
    <2>3. Progress(time)' = 0
      BY <1>1, <2>2 DEF Progress
    <2>4. index0' * Denominator' + blend' = Progress(time)' * LastFrame'
      BY <1>1, <2>2, <2>3
    <2>5. index0' \in Nat /\ blend' \in 0..Denominator' - 1
      <3>1. 0 \in 0..d - 1 /\ 0 \in Nat
        OBVIOUS
      <3> QED
        BY <1>1, <2>2, <3>1, Zenon
    <2>6. PlaceOfTime'
      BY <1>1, <2>4, <2>5 DEF PlaceOfTime
    <2> QED
      BY <1>1, <2>1, <2>6 DEF MotionInv
  <1> QED
    BY <1>1, <1>2, <1>3

LEMMA MotionInitially == MotionInit => MotionInv
  <1>1. \A E : <<>> \in Seq(E)
    OBVIOUS
  <1> QED
    BY <1>1 DEF MotionInit, MotionInv

LEMMA MotionStep == MotionInv /\ [MotionNext]_motionVars => MotionInv'
  <1> SUFFICES ASSUME MotionInv, [MotionNext]_motionVars
               PROVE  MotionInv'
    OBVIOUS
  <1>1. time \in Int /\ time + 1 \in Int
    BY DEF MotionInv
  <1>2. CASE UNCHANGED motionVars
    BY <1>2 DEF motionVars, MotionInv, PlaceOfTime, NumFrames, Denominator, LastFrame, Progress,
                NextFrame
  <1>3. CASE \E t \in Int : Update(t)
    BY <1>3, UpdateStep
  <1>4. CASE \E file \in Files : Construct(file)
    BY <1>4, ConstructStep
  <1> QED
    BY <1>1, <1>2, <1>3, <1>4 DEF MotionNext, ResetMotion
-----------------------------------------------------------------------------
LEMMA FramesFollow ==
  ASSUME MotionInv
  PROVE  FramesExist /\ LagUnderOneFrame
  <1> SUFFICES ASSUME motion # <<>>
               PROVE  /\ index0 \in 0..LastFrame /\ index1 \in 0..LastFrame
                      /\ time >= Denominator => index0 = LastFrame /\ blend = 0
                      /\ time \in 0..Denominator =>
                           LET frame == index0 * Denominator + blend
                               recorded == time * NumFrames
                           IN  frame <= recorded /\ recorded <= frame + Denominator
    <2>1. motion # <<>> => blend \in 0..Denominator - 1
      BY DEF MotionInv, PlaceOfTime
    <2> QED
      BY <2>1 DEF FramesExist, LagUnderOneFrame, LastFrame
  <1>1. /\ motion \in Seq(Nat) /\ NumFrames > 1 /\ time \in Int
        /\ index0 \in Nat /\ blend \in 0..Denominator - 1
        /\ index0 * Denominator + blend = Progress(time) * LastFrame
        /\ \/ index1 = NextFrame(index0)
           \/ (index0 = 0 /\ index1 = 0)
    BY DEF MotionInv, PlaceOfTime
  <1>2. PICK d \in Nat \ {0}, l \in Nat \ {0}, n \in Nat, p \in Nat :
          /\ d = Denominator /\ p \in 0..d /\ l = LastFrame /\ n = NumFrames /\ n = l + 1
          /\ p = Progress(time) /\ index0 * d + blend = p * l
    <2>1. /\ Denominator \in Nat \ {0} /\ LastFrame \in Nat \ {0}
          /\ NumFrames \in Nat /\ NumFrames = LastFrame + 1
          /\ Progress(time) \in 0..Denominator /\ Progress(time) \in Nat
      BY <1>1, MotionLengths, ProgressInMotion
    <2> QED
      BY <1>1, <2>1, Zenon
  <1>3. index0 \in 0..l /\ (p = d => index0 = l /\ blend = 0)
    <2>1. PICK q \in Nat, b \in 0..d - 1 : q = index0 /\ b = blend
      BY <1>1, <1>2
    <2> QED
      BY <1>2, <2>1, PlaceInMotion
  <1>4. index1 \in 0..l
    <2>1. NextFrame(index0) \in 0..l
      BY <1>2, <1>3 DEF NextFrame
    <2> QED
      BY <1>1, <1>2, <2>1
  <1>5. time >= d => p = d
    BY <1>1, <1>2 DEF Progress
  <1>6. ASSUME time \in 0..d
        PROVE  /\ index0 * d + blend <= time * n
               /\ time * n <= index0 * d + blend + d
    <2>1. p = time
      BY <1>2, <1>6 DEF Progress
    <2>2. p * n = p * l + p
      BY <1>2
    <2>3. PICK x \in Int : x = p * l
      OBVIOUS
    <2> QED
      BY <1>2, <2>1, <2>2, <2>3
  <1> QED
    BY <1>2, <1>3, <1>4, <1>5, <1>6

(* The position shown at a place, by its frame and its rest alone.         *)
LEMMA PositionAtPlace ==
  ASSUME motion \in Seq(Nat), NumFrames > 1, NEW q \in 0..LastFrame, NEW i,
         NEW b \in 0..Denominator - 1,
         i = NextFrame(q) \/ (q = 0 /\ i = 0 /\ b = 0)
  PROVE  /\ q < LastFrame =>
              JointPos(q, i, b) = motion[q + 1] * (Denominator - b) + motion[q + 2] * b
         /\ b = 0 => JointPos(q, i, b) = motion[q + 1] * Denominator
  <1>1. /\ NumFrames = LastFrame + 1 /\ LastFrame \in Nat \ {0} /\ Denominator \in Nat \ {0}
        /\ \A f \in 0..LastFrame : motion[f + 1] \in Nat
    BY MotionLengths
  <1>2. JointPos(q, i, b) = motion[q + 1] * (Denominator - b) + motion[i + 1] * b
    BY DEF JointPos
  <1>3. i \in 0..LastFrame
    BY <1>1 DEF NextFrame
  <1>4. ASSUME b = 0
        PROVE  /\ motion[i + 1] * b = 0
               /\ motion[q + 1] * (Denominator - b) = motion[q + 1] * Denominator
               /\ motion[q + 1] * Denominator + 0 = motion[q + 1] * Denominator
    <2>1. \A x \in Nat : x * 0 = 0
      OBVIOUS
    <2>2. PICK x \in Nat, y \in Nat, d \in Nat :
            x = motion[q + 1] /\ y = motion[i + 1] /\ d = Denominator
      BY <1>1, <1>3
    <2>3. y * b = 0 /\ x * (d - b) = x * d /\ x * d + 0 = x * d
      BY <1>4
    <2> QED
      BY <2>2, <2>3, Zenon
  <1>5. b = 0 => JointPos(q, i, b) = motion[q + 1] * Denominator
    BY <1>2, <1>4
  <1>6. ASSUME q < LastFrame
        PROVE  JointPos(q, i, b) = motion[q + 1] * (Denominator - b) + motion[q + 2] * b
    <2>1. CASE i = NextFrame(q)
      <3>1. i + 1 = q + 2
        BY <1>1, <1>6, <2>1 DEF NextFrame
      <3> QED
        BY <1>2, <3>1
    <2>2. CASE b = 0
      <3>1. PICK x \in Nat, y \in Nat, d \in Nat :
              x = motion[q + 1] /\ y = motion[q + 2] /\ d = Denominator
        <4>1. q + 1 \in 0..LastFrame /\ q + 1 + 1 = q + 2
          BY <1>1, <1>6
        <4> QED
          BY <1>1, <4>1
      <3>2. x * d = x * (d - b) + y * b
        BY <2>2
      <3> QED
        BY <1>5, <2>2, <3>1, <3>2
    <2> QED
      BY <2>1, <2>2
  <1> QED
    BY <1>5, <1>6
(* A place of playback, whichever of the two frames at the start it shows. *)
Shows(q, i, b, p) ==
  /\ p \in 0..Denominator /\ q \in Nat /\ b \in 0..Denominator - 1
  /\ q * Denominator + b = p * LastFrame
  /\ i = NextFrame(q) \/ (q = 0 /\ i = 0 /\ b = 0)

(* How far one tick may move the position: the steepest recorded step.     *)
NearBy(k, j) ==
  \E s \in 1..NumFrames - 1 : Away(k, j) <= (NumFrames - 1) * Away(motion[s], motion[s + 1])

LEMMA NearByStep ==
  ASSUME motion \in Seq(Nat), NumFrames > 1, NEW s \in 0..LastFrame - 1, NEW k, NEW j,
         Away(k, j) <= LastFrame * Away(motion[s + 1], motion[s + 2])
  PROVE  NearBy(k, j)
  <1>1. NumFrames = LastFrame + 1 /\ LastFrame \in Nat \ {0}
    BY MotionLengths
  <1>2. PICK h \in Int : h = s + 1
    OBVIOUS
  <1>3. h \in 1..NumFrames - 1 /\ h + 1 = s + 2 /\ NumFrames - 1 = LastFrame
    BY <1>1, <1>2
  <1>4. Away(k, j) <= (NumFrames - 1) * Away(motion[h], motion[h + 1])
    BY <1>2, <1>3
  <1> QED
    BY <1>3, <1>4 DEF NearBy

LEMMA ShownPlace ==
  ASSUME motion \in Seq(Nat), NumFrames > 1, NEW q, NEW i, NEW b, NEW p, Shows(q, i, b, p)
  PROVE  /\ q \in 0..LastFrame /\ (q = LastFrame => b = 0)
         /\ q < LastFrame =>
              JointPos(q, i, b) = motion[q + 1] * (Denominator - b) + motion[q + 2] * b
         /\ b = 0 => JointPos(q, i, b) = motion[q + 1] * Denominator
         /\ p < Denominator => q < LastFrame
  <1>1. /\ LastFrame \in Nat \ {0} /\ Denominator \in Nat \ {0}
    BY MotionLengths
  <1>2. PICK d \in Nat \ {0}, l \in Nat \ {0} : d = Denominator /\ l = LastFrame
    BY <1>1
  <1>3. p \in 0..d /\ q \in Nat /\ b \in 0..d - 1 /\ q * d + b = p * l
    BY <1>2 DEF Shows
  <1>4. q \in 0..l /\ (q = l => b = 0)
    BY <1>3, PlaceInMotion
  <1>5. ASSUME p < d
        PROVE  q < l
    <2> SUFFICES ASSUME q = l PROVE FALSE
      BY <1>4
    <2>1. l * d = p * l /\ d * l = l * d
      BY <1>3, <1>4
    <2>2. p * l + l <= d * l
      BY <1>3, <1>5, LaterMultiple
    <2>3. PICK x \in Int : x = p * l
      BY <1>3
    <2> QED
      BY <2>1, <2>2, <2>3
  <1>6. i = NextFrame(q) \/ (q = 0 /\ i = 0 /\ b = 0)
    BY DEF Shows
  <1>7. q \in 0..LastFrame /\ b \in 0..Denominator - 1
    BY <1>2, <1>3, <1>4
  <1>8. /\ q < LastFrame =>
             JointPos(q, i, b) = motion[q + 1] * (Denominator - b) + motion[q + 2] * b
        /\ b = 0 => JointPos(q, i, b) = motion[q + 1] * Denominator
    BY <1>6, <1>7, PositionAtPlace
  <1> QED
    BY <1>2, <1>4, <1>5, <1>8

(* Time that stands at the end of the motion, or before it, moves nothing. *)
LEMMA SamePlace ==
  ASSUME motion \in Seq(Nat), NumFrames > 1,
         NEW q, NEW i, NEW b, NEW p, Shows(q, i, b, p),
         NEW r, NEW k, NEW c, Shows(r, k, c, p)
  PROVE  NearBy(JointPos(r, k, c), JointPos(q, i, b))
  <1>1. /\ LastFrame \in Nat \ {0} /\ Denominator \in Nat \ {0} /\ 0 \in 0..LastFrame - 1
        /\ \A f \in 0..LastFrame : motion[f + 1] \in Nat
    BY MotionLengths
  <1>2. q = r /\ b = c
    <2>1. PICK d \in Nat \ {0} : d = Denominator
      BY <1>1
    <2>2. /\ q \in Nat /\ b \in 0..d - 1 /\ r \in Nat /\ c \in 0..d - 1
          /\ q * d + b = r * d + c
      BY <2>1 DEF Shows
    <2>3. Place(q * d + b, q, b, d) /\ Place(q * d + b, r, c, d)
      BY <2>2 DEF Place
    <2> QED
      BY <2>1, <2>3, OnePlace, Zenon
  <1>3. q \in 0..LastFrame /\ b \in 0..Denominator - 1 /\ (q < LastFrame \/ b = 0)
    <2>1. b \in 0..Denominator - 1
      BY DEF Shows
    <2>2. q \in 0..LastFrame /\ (q = LastFrame => b = 0)
      BY ShownPlace
    <2> QED
      BY <1>1, <2>1, <2>2
  <1>4. JointPos(r, k, c) = JointPos(q, i, b)
    <2>1. /\ q < LastFrame => JointPos(q, i, b) = motion[q + 1] * (Denominator - b) + motion[q + 2] * b
          /\ b = 0 => JointPos(q, i, b) = motion[q + 1] * Denominator
      BY ShownPlace
    <2>2. /\ q < LastFrame => JointPos(q, k, b) = motion[q + 1] * (Denominator - b) + motion[q + 2] * b
          /\ b = 0 => JointPos(q, k, b) = motion[q + 1] * Denominator
      <3>1. Shows(q, k, b, p)
        BY <1>2
      <3> QED
        BY <3>1, ShownPlace
    <2> QED
      BY <1>2, <1>3, <2>1, <2>2
  <1>5. JointPos(q, i, b) \in Int
    <2>1. PICK d \in Nat, x \in Nat, y \in Nat :
            /\ d = Denominator /\ x = motion[q + 1]
            /\ q < LastFrame => y = motion[q + 2]
      <3>1. q < LastFrame => q + 1 \in 0..LastFrame /\ q + 1 + 1 = q + 2
        BY <1>1, <1>3
      <3>2. q < LastFrame => motion[q + 2] \in Nat
        BY <1>1, <3>1
      <3> QED
        BY <1>1, <1>3, <3>2
    <2>2. x * (d - b) + y * b \in Int /\ x * d \in Int
      BY <1>3, <2>1
    <2>3. /\ q < LastFrame => JointPos(q, i, b) = motion[q + 1] * (Denominator - b) + motion[q + 2] * b
          /\ b = 0 => JointPos(q, i, b) = motion[q + 1] * Denominator
      BY ShownPlace
    <2> QED
      BY <1>3, <2>1, <2>2, <2>3
  <1>6. Away(JointPos(r, k, c), JointPos(q, i, b)) = 0
    BY <1>4, <1>5 DEF Away
  <1>7. 0 <= LastFrame * Away(motion[0 + 1], motion[0 + 2])
    <2>1. PICK x \in Nat, y \in Nat : x = motion[0 + 1] /\ y = motion[0 + 2]
      <3>1. 0 \in 0..LastFrame /\ 1 \in 0..LastFrame /\ 1 + 1 = 0 + 2
        BY <1>1
      <3> QED
        BY <1>1, <3>1
    <2>2. PICK z \in Nat : z = Away(x, y)
      <3>1. Away(x, y) \in Nat
        BY DEF Away
      <3> QED
        BY <3>1
    <2>3. LastFrame * z \in Nat
      BY <1>1
    <2> QED
      BY <2>1, <2>2, <2>3
  <1>8. Away(JointPos(r, k, c), JointPos(q, i, b)) <= LastFrame * Away(motion[0 + 1], motion[0 + 2])
    BY <1>6, <1>7
  <1> QED
    BY <1>1, <1>8, NearByStep
(* A tick further on, playback is further on the same step or on the next. *)
LEMMA NextPlace ==
  ASSUME motion \in Seq(Nat), NumFrames > 1,
         NEW q, NEW i, NEW b, NEW p, Shows(q, i, b, p),
         NEW r, NEW k, NEW c, Shows(r, k, c, p + 1)
  PROVE  NearBy(JointPos(r, k, c), JointPos(q, i, b))
  <1>1. PICK d \in Nat \ {0}, l \in Nat \ {0} :
          d = Denominator /\ l = LastFrame /\ l < d
    <2>1. /\ Denominator \in Nat \ {0} /\ LastFrame \in Nat \ {0}
          /\ LastFrame + 1 = NumFrames /\ NumFrames <= Denominator
      BY MotionLengths
    <2>2. LastFrame < Denominator
      BY <2>1
    <2> QED
      BY <2>1, <2>2, Zenon
  <1>2. \A f \in 0..l : motion[f + 1] \in Nat
    BY <1>1, MotionLengths
  <1>3. /\ p \in Nat /\ p + 1 \in 0..d
        /\ q \in Nat /\ b \in 0..d - 1 /\ q * d + b = p * l
        /\ r \in Nat /\ c \in 0..d - 1 /\ r * d + c = (p + 1) * l
    BY <1>1 DEF Shows
  <1>4. r * d + c = q * d + b + l
    <2>1. (p + 1) * l = p * l + l
      BY <1>3
    <2> QED
      BY <1>3, <2>1
  <1>5. q < l /\ q \in 0..l - 1
    <2>1. p < Denominator => q < LastFrame
      BY ShownPlace
    <2> QED
      BY <1>1, <1>3, <2>1
  <1>6. r \in 0..l /\ (r = l => c = 0)
    BY <1>1, ShownPlace
  <1>7. PICK m1 \in Nat, m2 \in Nat : m1 = motion[q + 1] /\ m2 = motion[q + 2]
    <2>1. q \in 0..l /\ q + 1 \in 0..l /\ q + 1 + 1 = q + 2
      BY <1>5
    <2> QED
      BY <1>2, <2>1
  <1>8. JointPos(q, i, b) = m1 * (d - b) + m2 * b
    <2>1. q < LastFrame => JointPos(q, i, b) = motion[q + 1] * (Denominator - b) + motion[q + 2] * b
      BY ShownPlace
    <2> QED
      BY <1>1, <1>5, <1>7, <2>1
  <1>9. /\ r < l => JointPos(r, k, c) = motion[r + 1] * (d - c) + motion[r + 2] * c
        /\ c = 0 => JointPos(r, k, c) = motion[r + 1] * d
    BY <1>1, ShownPlace
  <1>10. CASE b + l < d
    <2>1. r = q /\ c = b + l
      <3>1. PICK g \in 0..d - 1, e \in Int : g = b + l /\ e = q * d
        BY <1>3, <1>10
      <3>2. r * d + c = q * d + g
        BY <1>3, <1>4, <3>1
      <3>3. Place(r * d + c, r, c, d) /\ Place(r * d + c, q, g, d)
        BY <1>3, <3>2 DEF Place
      <3>4. r = q /\ c = g
        BY <3>3, OnePlace
      <3> QED
        BY <3>1, <3>4
    <2>2. JointPos(r, k, c) = m1 * (d - c) + m2 * c
      BY <1>5, <1>7, <1>9, <2>1
    <2>3. PICK x \in Int, y \in Int : x = JointPos(r, k, c) /\ y = JointPos(q, i, b)
      BY <1>3, <1>8, <2>2
    <2>4. x = y + ((m2 - m1) * l + (m2 - m2) * 0)
      <3>1. x = m1 * (d - (b + l)) + m2 * (b + l) /\ y = m1 * (d - b) + m2 * b
        BY <1>8, <2>1, <2>2, <2>3
      <3>2. m1 * (d - (b + l)) = m1 * (d - b) - m1 * l /\ m2 * (b + l) = m2 * b + m2 * l
        BY <1>3
      <3>3. (m2 - m1) * l = m2 * l - m1 * l /\ (m2 - m2) * 0 = 0
        OBVIOUS
      <3>4. PICK e \in Int, f \in Int, g \in Int, h \in Int :
              e = m1 * (d - b) /\ f = m1 * l /\ g = m2 * b /\ h = m2 * l
        BY <1>3
      <3> QED
        BY <3>1, <3>2, <3>3, <3>4
    <2>6. Away(x, y) <= l * Away(m1, m2)
      BY <2>4, StraightMove
    <2> QED
      BY <1>1, <1>5, <1>7, <2>3, <2>6, NearByStep
  <1>11. CASE ~(b + l < d)
    <2>1. r = q + 1 /\ c = b + l - d
      <3>1. PICK g \in 0..d - 1, h \in Nat : g = b + l - d /\ h = q + 1
        BY <1>1, <1>3, <1>11
      <3>2. r * d + c = h * d + g
        <4>1. h * d = q * d + d
          BY <1>3, <3>1
        <4>2. PICK e \in Int : e = q * d
          BY <1>3
        <4> QED
          BY <1>3, <1>4, <3>1, <4>1, <4>2
      <3>3. Place(r * d + c, r, c, d) /\ Place(r * d + c, h, g, d)
        BY <1>3, <3>2 DEF Place
      <3>4. r = h /\ c = g
        BY <3>3, OnePlace
      <3> QED
        BY <3>1, <3>4
    <2>2. PICK u \in Nat : u = d - b /\ u + c = l
      BY <1>3, <2>1
    <2>3. PICK m3 \in Nat :
            /\ r < l => m3 = motion[q + 3]
            /\ JointPos(r, k, c) = m2 * (d - c) + m3 * c
      <3>1. motion[r + 1] = m2
        BY <1>3, <1>7, <2>1
      <3>2. CASE r < l
        <4>1. r + 1 \in 0..l /\ r + 1 + 1 = r + 2 /\ r + 2 = q + 3
          BY <1>3, <1>6, <2>1, <3>2
        <4>2. motion[r + 2] \in Nat
          BY <1>2, <4>1
        <4>3. JointPos(r, k, c) = m2 * (d - c) + motion[r + 2] * c
          BY <1>9, <3>1, <3>2
        <4> QED
          BY <4>1, <4>2, <4>3, Zenon
      <3>3. CASE ~(r < l)
        <4>1. c = 0
          BY <1>6, <3>3
        <4>2. JointPos(r, k, c) = m2 * d
          BY <1>9, <3>1, <4>1
        <4>3. m2 * d = m2 * (d - 0) + m2 * 0
          OBVIOUS
        <4> QED
          BY <3>3, <4>1, <4>2, <4>3
      <3> QED
        BY <3>2, <3>3
    <2>4. PICK x \in Int, y \in Int : x = JointPos(r, k, c) /\ y = JointPos(q, i, b)
      BY <1>3, <1>8, <2>3
    <2>5. x = y + ((m2 - m1) * u + (m3 - m2) * c)
      <3>1. x = m2 * (d - c) + m3 * c /\ y = m1 * u + m2 * b
        BY <1>8, <2>2, <2>3, <2>4
      <3>2. m2 * (d - c) = m2 * d - m2 * c /\ m2 * b = m2 * d - m2 * u
        BY <1>3, <2>2
      <3>3. (m2 - m1) * u = m2 * u - m1 * u /\ (m3 - m2) * c = m3 * c - m2 * c
        BY <1>3
      <3>4. PICK e \in Int, f \in Int, g \in Int, h \in Int, j \in Int :
              e = m2 * d /\ f = m2 * c /\ g = m2 * u /\ h = m1 * u /\ j = m3 * c
        BY <1>3
      <3> QED
        BY <3>1, <3>2, <3>3, <3>4, SMTT(30)
    <2>6. Away(x, y) <= l * Away(m1, m2) \/ Away(x, y) <= l * Away(m2, m3)
      <3>1. Moves(x, y, m1, m2, m3, u, c, l)
        BY <2>2, <2>5 DEF Moves
      <3>2. c \in Nat
        BY <1>3
      <3>3. NoFurther(x, y, m1, m2, l) \/ NoFurther(x, y, m2, m3, l)
        BY <3>1, <3>2, Steepest, SMTT(30)
      <3> QED
        BY <3>3 DEF NoFurther
    <2>7. CASE Away(x, y) <= l * Away(m1, m2)
      BY <1>1, <1>5, <1>7, <2>4, <2>7, NearByStep
    <2>8. CASE Away(x, y) <= l * Away(m2, m3) /\ r < l
      <3>1. PICK s \in 0..LastFrame - 1 : s = q + 1 /\ s + 1 = q + 2 /\ s + 2 = q + 3
        BY <1>1, <1>3, <2>1, <2>8
      <3>2. motion[s + 1] = m2 /\ motion[s + 2] = m3
        BY <1>7, <2>3, <2>8, <3>1
      <3> QED
        BY <1>1, <2>4, <2>8, <3>2, NearByStep
    <2>9. CASE ~(r < l)
      <3>1. c = 0 /\ u = l
        BY <1>6, <2>2, <2>9
      <3>2. x = y + ((m2 - m1) * l + (m2 - m2) * 0)
        <4>1. (m3 - m2) * 0 = 0 /\ (m2 - m2) * 0 = 0
          OBVIOUS
        <4> QED
          BY <2>5, <3>1, <4>1
      <3>4. Away(x, y) <= l * Away(m1, m2)
        BY <3>2, StraightMove
      <3> QED
        BY <2>7, <3>4
    <2> QED
      BY <2>6, <2>7, <2>8, <2>9
  <1> QED
    BY <1>10, <1>11

LEMMA NeverJumps ==
  ASSUME MotionInv, [MotionNext]_motionVars, motion # <<>>, time' = time + 1, MotionInv'
  PROVE  \E i \in 1..NumFrames - 1 :
           Away(JointPos(index0', index1', blend'), JointPos(index0, index1, blend))
             <= (NumFrames - 1) * Away(motion[i], motion[i + 1])
  <1>1. motion \in Seq(Nat) /\ NumFrames > 1 /\ time \in Int /\ PlaceOfTime
    BY DEF MotionInv
  <1>2. motion' = motion
    <2>1. time' # time
      BY <1>1
    <2> QED
      BY <2>1 DEF MotionNext, motionVars, Construct, Update, ResetMotion
  <1>3. PlaceOfTime'
    BY <1>2 DEF MotionInv
  <1>4. Progress(time) \in 0..Denominator /\ Progress(time + 1) \in 0..Denominator
    BY <1>1, ProgressInMotion, SMTT(30)
  <1>5. Shows(index0, index1, blend, Progress(time))
    BY <1>1, <1>4 DEF Shows, PlaceOfTime
  <1>6. /\ NumFrames' = NumFrames /\ Denominator' = Denominator /\ LastFrame' = LastFrame
        /\ Progress(time)' = Progress(time + 1) /\ NextFrame(index0)' = NextFrame(index0')
    BY <1>2 DEF NumFrames, Denominator, LastFrame, Progress, NextFrame
  <1>7. Shows(index0', index1', blend', Progress(time + 1))
    BY <1>3, <1>4, <1>6 DEF Shows, PlaceOfTime
  <1>8. Progress(time + 1) = Progress(time) \/ Progress(time + 1) = Progress(time) + 1
    <2>1. Denominator \in Nat
      BY <1>1, MotionLengths
    <2> QED
      BY <1>1, <2>1 DEF Progress
  <1>9. NearBy(JointPos(index0', index1', blend'), JointPos(index0, index1, blend))
    <2>1. CASE Progress(time + 1) = Progress(time)
      BY <1>1, <1>5, <1>7, <2>1, SamePlace
    <2>2. CASE Progress(time + 1) = Progress(time) + 1
      BY <1>1, <1>5, <1>7, <2>2, NextPlace
    <2> QED
      BY <1>8, <2>1, <2>2
  <1> QED
    BY <1>9 DEF NearBy

(* The reference exists, keeps up with the recording and never jumps: a    *)
(* motion of MotionLoader, of any length and any time step, shows a frame  *)
(* it has, is less than a frame behind the recording until the end, and    *)
(* moves in a tick no further than a tick of its steepest recorded step.   *)
THEOREM MotionIsFollowed == MotionSpec => MotionFollowed
  <1>1. MotionInit => MotionInv
    BY MotionInitially
  <1>2. MotionInv /\ [MotionNext]_motionVars => MotionInv'
    BY MotionStep
  <1>3. MotionInv => FramesExist /\ LagUnderOneFrame
    BY FramesFollow
  <1>4. MotionInv /\ MotionInv' /\ [MotionNext]_motionVars =>
          [ motion # <<>> /\ time' = time + 1 =>
              \E i \in 1..NumFrames - 1 :
                Away(JointPos(index0', index1', blend'), JointPos(index0, index1, blend))
                  <= (NumFrames - 1) * Away(motion[i], motion[i + 1])
          ]_motionVars
    BY NeverJumps
  <1> QED
    BY <1>1, <1>2, <1>3, <1>4, PTL DEF MotionSpec, MotionFollowed, ReferenceIsContinuous
-----------------------------------------------------------------------------
(***** The orientations **************************************************)

(* A vector with a scalar before it is a quaternion.                       *)
LEMMA ScalarBefore ==
  ASSUME NEW v \in [1..3 -> Int]
  PROVE  <<0>> \o v = <<0, v[1], v[2], v[3]>>
  <1>1. v \in Seq(Int) /\ Len(v) = 3
    <2>1. \A n \in Nat : v \in [1..n -> Int] => v \in Seq(Int) /\ Len(v) = n
      OBVIOUS
    <2>2. v \in [1..3 -> Int] => v \in Seq(Int) /\ Len(v) = 3
      BY <2>1
    <2> QED
      BY <2>2
  <1>2. PICK s \in Seq(Int) : s = <<0>> /\ Len(s) = 1 /\ s[1] = 0
    <2>1. <<0>> \in Seq(Int) /\ Len(<<0>>) = 1 /\ <<0>>[1] = 0
      OBVIOUS
    <2> QED
      BY <2>1
  <1>3. PICK u \in Seq(Int) :
          /\ u = s \o v /\ Len(u) = Len(s) + Len(v)
          /\ \A i \in 1..Len(s) + Len(v) : u[i] = IF i <= Len(s) THEN s[i] ELSE v[i - Len(s)]
    <2>1. /\ s \o v \in Seq(Int) /\ Len(s \o v) = Len(s) + Len(v)
          /\ \A i \in 1..Len(s) + Len(v) :
               (s \o v)[i] = IF i <= Len(s) THEN s[i] ELSE v[i - Len(s)]
      BY <1>1, ConcatProperties, Zenon
    <2> QED
      BY <2>1
  <1>4. Len(u) = 4 /\ u[1] = 0 /\ u[2] = v[1] /\ u[3] = v[2] /\ u[4] = v[3]
    <2>1. Len(s) = 1 /\ Len(v) = 3
      BY <1>1, <1>2
    <2>0. Len(s) + Len(v) = 4
      BY <2>1
    <2>2. \A i \in 1..4 : u[i] = IF i <= 1 THEN s[i] ELSE v[i - 1]
      <3>1. \A i \in 1..4 : u[i] = IF i <= Len(s) THEN s[i] ELSE v[i - Len(s)]
        BY <1>3, <2>0, Zenon
      <3> QED
        BY <2>1, <3>1, Zenon
    <2>3. u[1] = s[1] /\ u[2] = v[1] /\ u[3] = v[2] /\ u[4] = v[3]
      BY <2>2
    <2> QED
      BY <1>2, <1>3, <2>1, <2>3
  <1>5. PICK t \in Seq(Int) :
          /\ t = <<0, v[1], v[2], v[3]>> /\ Len(t) = 4
          /\ t[1] = 0 /\ t[2] = v[1] /\ t[3] = v[2] /\ t[4] = v[3]
    <2>1. /\ <<0, v[1], v[2], v[3]>> \in Seq(Int) /\ Len(<<0, v[1], v[2], v[3]>>) = 4
      OBVIOUS
    <2> QED
      BY <2>1
  <1>6. \A i \in 1..4 : u[i] = t[i]
    <2>1. \A i \in 1..4 : i = 1 \/ i = 2 \/ i = 3 \/ i = 4
      OBVIOUS
    <2>2. u[1] = t[1] /\ u[2] = t[2] /\ u[3] = t[3] /\ u[4] = t[4]
      BY <1>4, <1>5
    <2> QED
      BY <2>1, <2>2
  <1>7. Len(u) = Len(t) /\ \A i \in 1..Len(u) : u[i] = t[i]
    BY <1>4, <1>5, <1>6
  <1>8. u = t
    BY <1>7, SeqEqual
  <1> QED
    BY <1>2, <1>3, <1>5, <1>8

Quaternion(q, w, x, y, z) ==
  /\ w \in Int /\ x \in Int /\ y \in Int /\ z \in Int
  /\ q[1] = w /\ q[2] = x /\ q[3] = y /\ q[4] = z

Vector(v, a, b, c) ==
  /\ a \in Int /\ b \in Int /\ c \in Int
  /\ v[1] = a /\ v[2] = b /\ v[3] = c

(* What is observed of a vector, component by component.                   *)
SeenAs(s, w, x, y, z, a, b, c) ==
  LET n == w * w + x * x + y * y + z * z
      dot == x * a + y * b + z * c
  IN  /\ s \in [1..3 -> Int]
      /\ s[1] = a * (2 * w * w - n) - 2 * w * (y * c - z * b) + 2 * x * dot
      /\ s[2] = b * (2 * w * w - n) - 2 * w * (z * a - x * c) + 2 * y * dot
      /\ s[3] = c * (2 * w * w - n) - 2 * w * (x * b - y * a) + 2 * z * dot

LEMMA ObservedVector ==
  ASSUME NEW q, NEW w, NEW x, NEW y, NEW z, Quaternion(q, w, x, y, z),
         NEW v, NEW a, NEW b, NEW c, Vector(v, a, b, c)
  PROVE  SeenAs(QuatRotateInverse(q, v), w, x, y, z, a, b, c)
  <1> DEFINE n == w * w + x * x + y * y + z * z
             dot == x * a + y * b + z * c
             s == QuatRotateInverse(q, v)
  <1>0. /\ w \in Int /\ x \in Int /\ y \in Int /\ z \in Int
        /\ q[1] = w /\ q[2] = x /\ q[3] = y /\ q[4] = z
        /\ a \in Int /\ b \in Int /\ c \in Int
        /\ v[1] = a /\ v[2] = b /\ v[3] = c
    BY DEF Quaternion, Vector
  <1>1. Norm2(q) = n /\ Dot(q, v) = dot
    BY <1>0 DEF Norm2, Dot
  <1>2. Cross(q, v) = <<y * c - z * b, z * a - x * c, x * b - y * a>>
    BY <1>0 DEF Cross
  <1>3. Cross(q, v)[1] = y * c - z * b /\ Cross(q, v)[2] = z * a - x * c
        /\ Cross(q, v)[3] = x * b - y * a
    BY <1>2
  <1>4. s = [i \in 1..3 |-> v[i] * (2 * w * w - n) - 2 * w * Cross(q, v)[i] + 2 * q[i + 1] * dot]
    BY <1>0, <1>1 DEF QuatRotateInverse
  <1>5. /\ s[1] = v[1] * (2 * w * w - n) - 2 * w * Cross(q, v)[1] + 2 * q[2] * dot
        /\ s[2] = v[2] * (2 * w * w - n) - 2 * w * Cross(q, v)[2] + 2 * q[3] * dot
        /\ s[3] = v[3] * (2 * w * w - n) - 2 * w * Cross(q, v)[3] + 2 * q[4] * dot
    BY <1>4
  <1>6. /\ s[1] = a * (2 * w * w - n) - 2 * w * (y * c - z * b) + 2 * x * dot
        /\ s[2] = b * (2 * w * w - n) - 2 * w * (z * a - x * c) + 2 * y * dot
        /\ s[3] = c * (2 * w * w - n) - 2 * w * (x * b - y * a) + 2 * z * dot
    BY <1>0, <1>3, <1>5
  <1>7. s \in [1..3 -> Int]
    <2>1. s[1] \in Int /\ s[2] \in Int /\ s[3] \in Int
      BY <1>0, <1>6
    <2>2. \A i \in 1..3 : i = 1 \/ i = 2 \/ i = 3
      OBVIOUS
    <2>3. \A i \in 1..3 : s[i] \in Int
      BY <2>1, <2>2
    <2>4. s = [i \in 1..3 |-> s[i]]
      BY DEF QuatRotateInverse
    <2> QED
      BY <2>3, <2>4
  <1> QED
    BY <1>6, <1>7 DEF SeenAs

LEMMA ThreeComponents ==
  ASSUME NEW v \in [1..3 -> Int]
  PROVE  <<v[1], v[2], v[3]>> = v
  <1>1. v \in Seq(Int) /\ Len(v) = 3
    <2>1. \A n \in Nat : v \in [1..n -> Int] => v \in Seq(Int) /\ Len(v) = n
      OBVIOUS
    <2>2. v \in [1..3 -> Int] => v \in Seq(Int) /\ Len(v) = 3
      BY <2>1
    <2> QED
      BY <2>2
  <1>2. PICK t \in Seq(Int) :
          /\ t = <<v[1], v[2], v[3]>> /\ Len(t) = 3
          /\ t[1] = v[1] /\ t[2] = v[2] /\ t[3] = v[3]
    <2>1. <<v[1], v[2], v[3]>> \in Seq(Int) /\ Len(<<v[1], v[2], v[3]>>) = 3
      OBVIOUS
    <2> QED
      BY <2>1
  <1>3. \A i \in 1..3 : t[i] = v[i]
    <2>1. \A i \in 1..3 : i = 1 \/ i = 2 \/ i = 3
      OBVIOUS
    <2> QED
      BY <1>2, <2>1
  <1>4. Len(t) = Len(v) /\ \A i \in 1..Len(t) : t[i] = v[i]
    BY <1>1, <1>2, <1>3
  <1>5. t = v
    BY <1>1, <1>4, SeqEqual
  <1> QED
    BY <1>2, <1>5

LEMMA FramesMeet ==
  ASSUME quat \in [1..4 -> Int], world \in [1..3 -> Int]
  PROVE  FramesAgree
  <1> DEFINE m == QuaternionToRotationMatrix(quat)
             seen == QuatRotateInverse(quat, world)
  <1>1. PICK w \in Int, x \in Int, y \in Int, z \in Int :
          quat[1] = w /\ quat[2] = x /\ quat[3] = y /\ quat[4] = z
    <2>1. quat[1] \in Int /\ quat[2] \in Int /\ quat[3] \in Int /\ quat[4] \in Int
      OBVIOUS
    <2> QED
      BY <2>1
  <1>0. PICK a \in Int, b \in Int, c \in Int : world[1] = a /\ world[2] = b /\ world[3] = c
    <2>1. world[1] \in Int /\ world[2] \in Int /\ world[3] \in Int
      OBVIOUS
    <2> QED
      BY <2>1
  <1> DEFINE n == w * w + x * x + y * y + z * z
             dot == x * a + y * b + z * c
  <1>2. /\ seen \in [1..3 -> Int]
        /\ seen[1] = a * (2 * w * w - n) - 2 * w * (y * c - z * b) + 2 * x * dot
        /\ seen[2] = b * (2 * w * w - n) - 2 * w * (z * a - x * c) + 2 * y * dot
        /\ seen[3] = c * (2 * w * w - n) - 2 * w * (x * b - y * a) + 2 * z * dot
    <2>1. Quaternion(quat, w, x, y, z) /\ Vector(world, a, b, c)
      BY <1>0, <1>1 DEF Quaternion, Vector
    <2>2. SeenAs(seen, w, x, y, z, a, b, c)
      BY <2>1, ObservedVector
    <2> QED
      BY <2>2 DEF SeenAs
  <1>3. m = << n - 2 * (y * y + z * z), 2 * (x * y - w * z), 2 * (x * z + w * y),
               2 * (x * y + w * z), n - 2 * (x * x + z * z), 2 * (y * z - w * x),
               2 * (x * z - w * y), 2 * (y * z + w * x), n - 2 * (x * x + y * y) >>
    BY <1>1 DEF QuaternionToRotationMatrix, Norm2
  <1>4. /\ m[1] = n - 2 * (y * y + z * z) /\ m[2] = 2 * (x * y - w * z) /\ m[3] = 2 * (x * z + w * y)
        /\ m[4] = 2 * (x * y + w * z) /\ m[5] = n - 2 * (x * x + z * z) /\ m[6] = 2 * (y * z - w * x)
        /\ m[7] = 2 * (x * z - w * y) /\ m[8] = 2 * (y * z + w * x) /\ m[9] = n - 2 * (x * x + y * y)
    BY <1>3
  <1>5. QuaternionMultiply(QuaternionMultiply(QuaternionConjugate(quat), <<0>> \o world), quat)
          = <<0>> \o seen
    <2>1. <<0>> \o world = <<0, a, b, c>> /\ <<0>> \o seen = <<0, seen[1], seen[2], seen[3]>>
      BY <1>0, <1>2, ScalarBefore
    <2>2. QuaternionConjugate(quat) = <<w, -x, -y, -z>>
      BY <1>1 DEF QuaternionConjugate
    <2>3. PICK p1 \in Int, p2 \in Int, p3 \in Int, p4 \in Int :
            /\ p1 = x * a + y * b + z * c
            /\ p2 = w * a - y * c + z * b
            /\ p3 = w * b + x * c - z * a
            /\ p4 = w * c - x * b + y * a
      OBVIOUS
    <2>4. QuaternionMultiply(<<w, -x, -y, -z>>, <<0, a, b, c>>) = <<p1, p2, p3, p4>>
      <3>1. /\ w * 0 - (-x) * a - (-y) * b - (-z) * c = p1
            /\ w * a + (-x) * 0 + (-y) * c - (-z) * b = p2
            /\ w * b - (-x) * c + (-y) * 0 + (-z) * a = p3
            /\ w * c + (-x) * b - (-y) * a + (-z) * 0 = p4
        BY <2>3
      <3> QED
        BY <3>1 DEF QuaternionMultiply
    <2>5. QuaternionMultiply(<<p1, p2, p3, p4>>, quat) = <<0, seen[1], seen[2], seen[3]>>
      <3>1. p1 * w - p2 * x - p3 * y - p4 * z = 0
        BY <2>3
      <3>2. p1 * x + p2 * w + p3 * z - p4 * y = seen[1]
        BY <1>2, <2>3
      <3>3. p1 * y - p2 * z + p3 * w + p4 * x = seen[2]
        BY <1>2, <2>3
      <3>4. p1 * z + p2 * y - p3 * x + p4 * w = seen[3]
        BY <1>2, <2>3
      <3> QED
        BY <1>1, <3>1, <3>2, <3>3, <3>4 DEF QuaternionMultiply
    <2> QED
      BY <2>1, <2>2, <2>4, <2>5
  <1>6. \A i \in 1..3 : seen[i] = m[i] * world[1] + m[i + 3] * world[2] + m[i + 6] * world[3]
    <2>1. seen[1] = m[1] * a + m[4] * b + m[7] * c
      BY <1>2, <1>4
    <2>2. seen[2] = m[2] * a + m[5] * b + m[8] * c
      BY <1>2, <1>4
    <2>3. seen[3] = m[3] * a + m[6] * b + m[9] * c
      BY <1>2, <1>4
    <2>4. \A i \in 1..3 : i = 1 \/ i = 2 \/ i = 3
      OBVIOUS
    <2> QED
      BY <1>0, <2>1, <2>2, <2>3, <2>4
  <1>7. world \in {<<1, 0, 0>>, <<0, 1, 0>>} =>
          LET d == MatrixFirstTwoColumns(m)
              k == IF world[1] = 1 THEN 1 ELSE 2
          IN  <<d[k], d[k + 2], d[k + 4]>> = QuatRotateInverse(QuaternionConjugate(quat), world)
    <2> DEFINE d == MatrixFirstTwoColumns(m)
               back == QuatRotateInverse(QuaternionConjugate(quat), world)
    <2>1. d[1] = m[1] /\ d[2] = m[2] /\ d[3] = m[4] /\ d[4] = m[5] /\ d[5] = m[7] /\ d[6] = m[8]
      BY DEF MatrixFirstTwoColumns
    <2>3. PICK e \in Int, f \in Int, g \in Int : e = -x /\ f = -y /\ g = -z
      OBVIOUS
    <2>2. Quaternion(QuaternionConjugate(quat), w, e, f, g)
      BY <1>1, <2>3 DEF QuaternionConjugate, Quaternion
    <2>4. LET l == w * w + e * e + f * f + g * g
              along == e * a + f * b + g * c
          IN  /\ back \in [1..3 -> Int]
              /\ back[1] = a * (2 * w * w - l) - 2 * w * (f * c - g * b) + 2 * e * along
              /\ back[2] = b * (2 * w * w - l) - 2 * w * (g * a - e * c) + 2 * f * along
              /\ back[3] = c * (2 * w * w - l) - 2 * w * (e * b - f * a) + 2 * g * along
      <3>1. Vector(world, a, b, c)
        BY <1>0 DEF Vector
      <3>2. SeenAs(back, w, e, f, g, a, b, c)
        BY <2>2, <3>1, ObservedVector
      <3> QED
        BY <3>2 DEF SeenAs
    <2>5. <<back[1], back[2], back[3]>> = back
      BY <2>4, ThreeComponents
    <2>6. ASSUME a = 1, b = 0, c = 0
          PROVE  back[1] = m[1] /\ back[2] = m[4] /\ back[3] = m[7]
      BY <1>4, <2>3, <2>4, <2>6
    <2>7. ASSUME a = 0, b = 1, c = 0
          PROVE  back[1] = m[2] /\ back[2] = m[5] /\ back[3] = m[8]
      BY <1>4, <2>3, <2>4, <2>7
    <2>8. CASE world = <<1, 0, 0>>
      <3>1. a = 1 /\ b = 0 /\ c = 0
        BY <1>0, <2>8
      <3> QED
        BY <1>0, <2>1, <2>5, <2>6, <3>1
    <2>9. CASE world = <<0, 1, 0>>
      <3>1. a = 0 /\ b = 1 /\ c = 0
        BY <1>0, <2>9
      <3> QED
        BY <1>0, <2>1, <2>5, <2>7, <3>1
    <2> QED
      BY <2>8, <2>9
  <1> QED
    BY <1>5, <1>6, <1>7 DEF FramesAgree
-----------------------------------------------------------------------------
(* A heading along an axis is a unit, any number of times.                 *)
Unit(c, s) ==
  \/ (c = 1 /\ s = 0) \/ (c = 0 /\ s = 1) \/ (c = -1 /\ s = 0) \/ (c = 0 /\ s = -1)

Points(x, y, c, s) == \E p \in Nat \ {0} : x = c * p /\ y = s * p

(* Half of the turn to a unit.                                             *)
HalfCos(c) == IF c = -1 THEN 0 ELSE 1
HalfSin(c, s) == IF c = 1 THEN 0 ELSE IF c = -1 THEN 1 ELSE s

HalfTurn(u, v, c, s) == \E g \in Nat \ {0} : u = g * HalfCos(c) /\ v = g * HalfSin(c, s)

LEMMA Directions ==
  ASSUME NEW x \in Int, NEW y \in Int, x = 0 \/ y = 0, ~(x = 0 /\ y = 0)
  PROVE  \E c, s \in Int : Unit(c, s) /\ Points(x, y, c, s)
  <1>1. CASE x > 0
    <2>1. x = 1 * x /\ y = 0 * x /\ x \in Nat \ {0}
      BY <1>1
    <2>2. Unit(1, 0) /\ Points(x, y, 1, 0)
      BY <2>1 DEF Unit, Points
    <2> QED
      BY <2>2
  <1>2. CASE x < 0
    <2>1. PICK p \in Nat \ {0} : p = -x
      BY <1>2
    <2>2. x = (-1) * p /\ y = 0 * p
      BY <1>2, <2>1
    <2>3. Unit(-1, 0) /\ Points(x, y, -1, 0)
      BY <2>2 DEF Unit, Points
    <2> QED
      BY <2>3
  <1>3. CASE y > 0
    <2>1. x = 0 * y /\ y = 1 * y /\ y \in Nat \ {0}
      BY <1>3
    <2>2. Unit(0, 1) /\ Points(x, y, 0, 1)
      BY <2>1 DEF Unit, Points
    <2> QED
      BY <2>2
  <1>4. CASE y < 0
    <2>1. PICK p \in Nat \ {0} : p = -y
      BY <1>4
    <2>2. x = 0 * p /\ y = (-1) * p
      BY <1>4, <2>1
    <2>3. Unit(0, -1) /\ Points(x, y, 0, -1)
      BY <2>2 DEF Unit, Points
    <2> QED
      BY <2>3
  <1> QED
    BY <1>1, <1>2, <1>3, <1>4

(* Directions add up as complex numbers multiply.                          *)
LEMMA DirectionsAdd ==
  ASSUME NEW x \in Int, NEW y \in Int, NEW c \in Int, NEW s \in Int, Points(x, y, c, s),
         NEW u \in Int, NEW v \in Int, NEW d \in Int, NEW t \in Int, Points(u, v, d, t)
  PROVE  Points(x * u - y * v, x * v + y * u, c * d - s * t, c * t + s * d)
  <1>1. PICK p \in Nat \ {0} : x = c * p /\ y = s * p
    BY DEF Points
  <1>2. PICK q \in Nat \ {0} : u = d * q /\ v = t * q
    BY DEF Points
  <1>3. PICK r \in Nat \ {0} : r = p * q
    BY ProductIsLarger
  <1>4. x * u - y * v = (c * d - s * t) * r
    BY <1>1, <1>2, <1>3
  <1>5. x * v + y * u = (c * t + s * d) * r
    BY <1>1, <1>2, <1>3
  <1> QED
    BY <1>4, <1>5 DEF Points

(* The yaw of a heading is half of its turn, and none if it has none.      *)
LEMMA YawOfHeading ==
  ASSUME NEW q, NEW x \in Int, NEW y \in Int, Heading(q) = <<x, y>>,
         NEW c \in Int, NEW s \in Int, Unit(c, s),
         Points(x, y, c, s) \/ (x = 0 /\ y = 0 /\ c = 1 /\ s = 0)
  PROVE  \E u, v \in Int : QuaternionYawOnly(q) = <<u, 0, 0, v>> /\ HalfTurn(u, v, c, s)
  <1> DEFINE r == IF Magnitude(x) > Magnitude(y) THEN Magnitude(x) ELSE Magnitude(y)
  <1>1. QuaternionYawOnly(q) =
          IF x = 0 /\ y = 0 THEN <<1, 0, 0, 0>>
          ELSE IF x = -r /\ y = 0 /\ r # 0 THEN <<0, 0, 0, 1>>
          ELSE <<r + x, 0, 0, y>>
    <2>1. /\ <<x, y>>[1] = x /\ <<x, y>>[2] = y
          /\ (<<x, y>> = <<0, 0>> <=> x = 0 /\ y = 0)
          /\ (<<x, y>> = <<-r, 0>> <=> x = -r /\ y = 0)
      OBVIOUS
    <2>2. QuaternionYawOnly(q) =
            CASE <<x, y>> = <<0, 0>> -> <<1, 0, 0, 0>>
              [] <<x, y>> = <<-r, 0>> /\ r # 0 -> <<0, 0, 0, 1>>
              [] OTHER -> <<r + x, 0, 0, y>>
      BY <2>1 DEF QuaternionYawOnly
    <2> HIDE DEF r
    <2>3. x = 0 /\ y = 0 => ~(x = -r /\ y = 0 /\ r # 0)
      <3>1. r \in Int
        BY DEF r, Magnitude
      <3> QED
        BY <3>1
    <2> QED
      BY <2>1, <2>2, <2>3
  <1>2. CASE x = 0 /\ y = 0
    <2>1. c = 1 /\ s = 0
      BY <1>2 DEF Points, Unit
    <2>2. 1 = 1 * HalfCos(c) /\ 0 = 1 * HalfSin(c, s)
      BY <2>1 DEF HalfCos, HalfSin
    <2>3. HalfTurn(1, 0, c, s)
      BY <2>2 DEF HalfTurn
    <2> QED
      BY <1>1, <1>2, <2>3
  <1>3. CASE ~(x = 0 /\ y = 0)
    <2>1. PICK p \in Nat \ {0} : x = c * p /\ y = s * p
      BY <1>3 DEF Points
    <2>2. CASE c = 1 /\ s = 0
      <3>1. x = p /\ y = 0 /\ r = p /\ r + x = (2 * p) * 1 /\ 0 = (2 * p) * 0
        BY <2>1, <2>2 DEF Magnitude
      <3>2. QuaternionYawOnly(q) = <<2 * p, 0, 0, 0>> /\ 2 * p \in Nat \ {0}
        BY <1>1, <3>1
      <3>3. HalfTurn(2 * p, 0, c, s)
        BY <2>2, <3>1, <3>2 DEF HalfTurn, HalfCos, HalfSin
      <3> QED
        BY <3>2, <3>3
    <2>3. CASE c = -1 /\ s = 0
      <3>1. x = -p /\ y = 0 /\ r = p
        BY <2>1, <2>3 DEF Magnitude
      <3>2. QuaternionYawOnly(q) = <<0, 0, 0, 1>>
        BY <1>1, <3>1
      <3>3. 0 = 1 * HalfCos(c) /\ 1 = 1 * HalfSin(c, s)
        BY <2>3 DEF HalfCos, HalfSin
      <3>4. HalfTurn(0, 1, c, s)
        BY <3>3 DEF HalfTurn
      <3> QED
        BY <3>2, <3>4
    <2>4. CASE c = 0 /\ (s = 1 \/ s = -1)
      <3>1. x = 0 /\ y = s * p /\ r = p
        BY <2>1, <2>4 DEF Magnitude
      <3>2. QuaternionYawOnly(q) = <<p, 0, 0, y>>
        BY <1>1, <1>3, <3>1
      <3>3. p = p * HalfCos(c) /\ y = p * HalfSin(c, s)
        BY <2>4, <3>1 DEF HalfCos, HalfSin
      <3>4. HalfTurn(p, y, c, s)
        BY <3>3 DEF HalfTurn
      <3> QED
        BY <3>2, <3>4
    <2> QED
      BY <2>2, <2>3, <2>4 DEF Unit
  <1> QED
    BY <1>2, <1>3

(* Twice a half turn is the turn.                                          *)
LEMMA TwiceHalf ==
  ASSUME NEW u \in Int, NEW v \in Int, NEW c \in Int, NEW s \in Int, Unit(c, s), HalfTurn(u, v, c, s)
  PROVE  Points(u * u - v * v, 2 * u * v, c, s)
  <1>1. PICK g \in Nat \ {0} : u = g * HalfCos(c) /\ v = g * HalfSin(c, s)
    BY DEF HalfTurn
  <1>2. PICK p \in Nat \ {0} : p = g * g
    BY ProductIsLarger
  <1>3. CASE s = 0
    <2>1. u * u - v * v = c * p /\ 2 * u * v = s * p
      BY <1>1, <1>2, <1>3 DEF Unit, HalfCos, HalfSin
    <2> QED
      BY <2>1 DEF Points
  <1>4. CASE c = 0 /\ (s = 1 \/ s = -1)
    <2>1. u = g /\ v = g * s
      BY <1>1, <1>4 DEF HalfCos, HalfSin
    <2>2. u * u - v * v = c * (2 * p) /\ 2 * u * v = s * (2 * p) /\ 2 * p \in Nat \ {0}
      BY <1>2, <1>4, <2>1
    <2> QED
      BY <2>2 DEF Points
  <1> QED
    BY <1>3, <1>4 DEF Unit

(* The heading of a quaternion, and of one turned about the upright axis.  *)
LEMMA HeadingOf ==
  ASSUME NEW q, NEW w \in Int, NEW x \in Int, NEW y \in Int, NEW z \in Int, Quaternion(q, w, x, y, z)
  PROVE  Heading(q) = <<w * w + x * x - y * y - z * z, 2 * (w * z + x * y)>>
  <1>1. q[1] = w /\ q[2] = x /\ q[3] = y /\ q[4] = z
    BY DEF Quaternion
  <1>2. Norm2(q) = w * w + x * x + y * y + z * z
    BY <1>1 DEF Norm2
  <1>3. w * w + x * x + y * y + z * z - 2 * (y * y + z * z) = w * w + x * x - y * y - z * z
    OBVIOUS
  <1> QED
    BY <1>1, <1>2, <1>3 DEF Heading

Turned(q, p, a, b) ==
  \A w, x, y, z \in Int :
    Quaternion(q, w, x, y, z) =>
      Quaternion(p, a * w - b * z, a * x - b * y, a * y + b * x, a * z + b * w)

LEMMA TurnedAbout ==
  ASSUME NEW q, NEW t, NEW a \in Int, NEW b \in Int, t = <<a, 0, 0, b>>
  PROVE  Turned(q, QuaternionMultiply(t, q), a, b)
  <1> SUFFICES ASSUME NEW w \in Int, NEW x \in Int, NEW y \in Int, NEW z \in Int,
                      Quaternion(q, w, x, y, z)
               PROVE  Quaternion(QuaternionMultiply(t, q),
                                 a * w - b * z, a * x - b * y, a * y + b * x, a * z + b * w)
    BY DEF Turned
  <1>1. q[1] = w /\ q[2] = x /\ q[3] = y /\ q[4] = z
    BY DEF Quaternion
  <1>2. t[1] = a /\ t[2] = 0 /\ t[3] = 0 /\ t[4] = b
    OBVIOUS
  <1>3. /\ a * w - 0 * x - 0 * y - b * z = a * w - b * z
        /\ a * x + 0 * w + 0 * z - b * y = a * x - b * y
        /\ a * y - 0 * z + 0 * w + b * x = a * y + b * x
        /\ a * z + 0 * y - 0 * x + b * w = a * z + b * w
    OBVIOUS
  <1>4. QuaternionMultiply(t, q) = <<a * w - b * z, a * x - b * y, a * y + b * x, a * z + b * w>>
    BY <1>1, <1>2, <1>3 DEF QuaternionMultiply
  <1>5. /\ a * w - b * z \in Int /\ a * x - b * y \in Int
        /\ a * y + b * x \in Int /\ a * z + b * w \in Int
    OBVIOUS
  <1> QED
    BY <1>4, <1>5 DEF Quaternion

LEMMA HeadingTurned ==
  ASSUME NEW q \in [1..4 -> Int], NEW p, NEW a \in Int, NEW b \in Int, Turned(q, p, a, b),
         NEW h \in Int, NEW k \in Int, Heading(q) = <<h, k>>
  PROVE  Heading(p) = <<(a * a - b * b) * h - (2 * a * b) * k, (a * a - b * b) * k + (2 * a * b) * h>>
  <1>1. PICK w \in Int, x \in Int, y \in Int, z \in Int : Quaternion(q, w, x, y, z)
    <2>1. q[1] \in Int /\ q[2] \in Int /\ q[3] \in Int /\ q[4] \in Int
      OBVIOUS
    <2> QED
      BY <2>1 DEF Quaternion
  <1>2. h = w * w + x * x - y * y - z * z /\ k = 2 * (w * z + x * y)
    <2>1. <<h, k>> = <<w * w + x * x - y * y - z * z, 2 * (w * z + x * y)>>
      BY <1>1, HeadingOf
    <2> QED
      BY <2>1
  <1>3. PICK e \in Int, f \in Int, g \in Int, i \in Int :
          e = a * w - b * z /\ f = a * x - b * y /\ g = a * y + b * x /\ i = a * z + b * w
    OBVIOUS
  <1>4. Quaternion(p, e, f, g, i)
    BY <1>1, <1>3 DEF Turned
  <1>5. Heading(p) = <<e * e + f * f - g * g - i * i, 2 * (e * i + f * g)>>
    BY <1>4, HeadingOf
  <1>6. e * e + f * f - g * g - i * i = (a * a - b * b) * h - (2 * a * b) * k
    BY <1>2, <1>3
  <1>7. 2 * (e * i + f * g) = (a * a - b * b) * k + (2 * a * b) * h
    BY <1>2, <1>3
  <1> QED
    BY <1>5, <1>6, <1>7

(* Half turns to the same unit are the same yaw.                           *)
LEMMA SameYaw ==
  ASSUME NEW p, NEW q, NEW u \in Int, NEW v \in Int, NEW a \in Int, NEW b \in Int,
         p = <<u, 0, 0, v>>, q = <<a, 0, 0, b>>,
         NEW c \in Int, NEW s \in Int, HalfTurn(u, v, c, s), HalfTurn(a, b, c, s)
  PROVE  SameRotation(p, q)
  <1>1. u * b = a * v
    <2>1. PICK g \in Nat \ {0} : u = g * HalfCos(c) /\ v = g * HalfSin(c, s)
      BY DEF HalfTurn
    <2>2. PICK h \in Nat \ {0} : a = h * HalfCos(c) /\ b = h * HalfSin(c, s)
      BY DEF HalfTurn
    <2>3. PICK x \in Int, y \in Int : x = HalfCos(c) /\ y = HalfSin(c, s)
      BY DEF HalfCos, HalfSin
    <2> QED
      BY <2>1, <2>2, <2>3
  <1>2. /\ p[1] = u /\ p[2] = 0 /\ p[3] = 0 /\ p[4] = v
        /\ q[1] = a /\ q[2] = 0 /\ q[3] = 0 /\ q[4] = b
    OBVIOUS
  <1>3. \A i \in 1..4 : i = 1 \/ i = 2 \/ i = 3 \/ i = 4
    OBVIOUS
  <1>4. u * b = v * a /\ u * a = u * a /\ 0 * a = 0 /\ 0 * b = 0 /\ u * 0 = 0 /\ v * 0 = 0 /\ 0 * 0 = 0
    BY <1>1
  <1>5. ASSUME NEW i \in 1..4, NEW j \in 1..4
        PROVE  p[i] * q[j] = p[j] * q[i]
    <2>1. CASE i = 1
      BY <1>1, <1>2, <1>3, <1>4, <2>1
    <2>2. CASE i = 2
      BY <1>2, <1>3, <1>4, <2>2
    <2>3. CASE i = 3
      BY <1>2, <1>3, <1>4, <2>3
    <2>4. CASE i = 4
      BY <1>1, <1>2, <1>3, <1>4, <2>4
    <2> QED
      BY <1>3, <2>1, <2>2, <2>3, <2>4
  <1> QED
    BY <1>5 DEF SameRotation
-----------------------------------------------------------------------------
(* The heading <<h, k>> of q, along an axis or none, and its yaw.          *)
Heads(q, h, k, c, s, u, v) ==
  /\ h \in Int /\ k \in Int /\ c \in Int /\ s \in Int /\ u \in Int /\ v \in Int
  /\ Heading(q) = <<h, k>> /\ Unit(c, s)
  /\ Points(h, k, c, s) \/ (h = 0 /\ k = 0 /\ c = 1 /\ s = 0)
  /\ QuaternionYawOnly(q) = <<u, 0, 0, v>> /\ HalfTurn(u, v, c, s)

LEMMA HeadingIsInt ==
  ASSUME NEW q \in [1..4 -> Int]
  PROVE  \E h, k \in Int : Heading(q) = <<h, k>>
  <1>1. PICK w \in Int, x \in Int, y \in Int, z \in Int : Quaternion(q, w, x, y, z)
    <2>1. q[1] \in Int /\ q[2] \in Int /\ q[3] \in Int /\ q[4] \in Int
      OBVIOUS
    <2> QED
      BY <2>1 DEF Quaternion
  <1>2. w * w + x * x - y * y - z * z \in Int /\ 2 * (w * z + x * y) \in Int
    OBVIOUS
  <1> QED
    BY <1>1, <1>2, HeadingOf

LEMMA TorsoHeads ==
  ASSUME NEW q \in TorsoTurns
  PROVE  \E h, k, c, s, u, v : Heads(q, h, k, c, s, u, v)
  <1>1. q \in [1..4 -> Int] /\ (Heading(q)[1] = 0 \/ Heading(q)[2] = 0)
    BY OrientationAssumption
  <1>2. PICK h \in Int, k \in Int : Heading(q) = <<h, k>>
    BY <1>1, HeadingIsInt
  <1>3. h = 0 \/ k = 0
    BY <1>1, <1>2
  <1>4. PICK c \in Int, s \in Int :
          Unit(c, s) /\ (Points(h, k, c, s) \/ (h = 0 /\ k = 0 /\ c = 1 /\ s = 0))
    <2>1. CASE h = 0 /\ k = 0
      <3>1. Unit(1, 0)
        BY DEF Unit
      <3> QED
        BY <2>1, <3>1
    <2>2. CASE ~(h = 0 /\ k = 0)
      BY <1>3, <2>2, Directions
    <2> QED
      BY <2>1, <2>2
  <1>5. PICK u \in Int, v \in Int : QuaternionYawOnly(q) = <<u, 0, 0, v>> /\ HalfTurn(u, v, c, s)
    BY <1>2, <1>4, YawOfHeading
  <1>6. Heads(q, h, k, c, s, u, v)
    BY <1>2, <1>4, <1>5, Zenon DEF Heads
  <1> QED
    BY <1>6

(* The turn from yaw <<e, 0, 0, f>> to yaw <<u, 0, 0, v>>.                 *)
TurnsBetween(a, b, u, v, e, f) == a = u * e + v * f /\ b = v * e - u * f

YawIs(q, u, v) == QuaternionYawOnly(q) = <<u, 0, 0, v>>

LEMMA AlignmentTurns ==
  ASSUME NEW torso, NEW first, NEW u \in Int, NEW v \in Int, NEW e \in Int, NEW f \in Int,
         YawIs(torso, u, v), YawIs(first, e, f),
         NEW a, NEW b, TurnsBetween(a, b, u, v, e, f)
  PROVE  ComputeYawAlignment(torso, first) = <<a, 0, 0, b>>
  <1>1. PICK g \in Int : g = -f
    OBVIOUS
  <1>2. QuaternionConjugate(<<e, 0, 0, f>>) = <<e, 0, 0, g>>
    <2>1. /\ <<e, 0, 0, f>>[1] = e /\ <<e, 0, 0, f>>[2] = 0
          /\ <<e, 0, 0, f>>[3] = 0 /\ <<e, 0, 0, f>>[4] = f
      OBVIOUS
    <2>2. \A n \in Int : n <= 0 /\ n >= 0 => -n <= 0 /\ -n >= 0
      OBVIOUS
    <2>3. -(<<e, 0, 0, f>>[2]) = 0 /\ -(<<e, 0, 0, f>>[3]) = 0 /\ -(<<e, 0, 0, f>>[4]) = g
      <3>1. PICK n \in Int : n = <<e, 0, 0, f>>[2] /\ n <= 0 /\ n >= 0
        BY <2>1
      <3>2. -n <= 0 /\ -n >= 0 /\ -n \in Int
        BY <2>2, <3>1
      <3>3. -n = 0
        BY <3>2
      <3> QED
        BY <1>1, <2>1, <3>1, <3>3
    <2> QED
      BY <2>1, <2>3 DEF QuaternionConjugate
  <1>3. /\ u * e - 0 * 0 - 0 * 0 - v * g = u * e + v * f
        /\ u * 0 + 0 * e + 0 * g - v * 0 = 0
        /\ u * 0 - 0 * g + 0 * e + v * 0 = 0
        /\ u * g + 0 * 0 - 0 * 0 + v * e = v * e - u * f
    BY <1>1
  <1>4. QuaternionMultiply(<<u, 0, 0, v>>, <<e, 0, 0, g>>) = <<a, 0, 0, b>>
    BY <1>3 DEF QuaternionMultiply, TurnsBetween
  <1> QED
    BY <1>2, <1>4 DEF ComputeYawAlignment, YawIs

(* The motion, turned by the alignment, heads where the torso does.        *)
LEMMA AlignedHeading ==
  ASSUME NEW torso \in TorsoTurns, NEW first \in TorsoTurns, Heading(first) # <<0, 0>>
  PROVE  SameRotation(
           QuaternionYawOnly(QuaternionMultiply(ComputeYawAlignment(torso, first), first)),
           QuaternionYawOnly(torso))
  <1>1. PICK h, k, c, s, u, v : Heads(torso, h, k, c, s, u, v)
    BY TorsoHeads
  <1>2. PICK l, m, d, t, e, f : Heads(first, l, m, d, t, e, f)
    BY TorsoHeads
  <1>3. /\ c \in Int /\ s \in Int /\ u \in Int /\ v \in Int /\ Unit(c, s)
        /\ QuaternionYawOnly(torso) = <<u, 0, 0, v>> /\ HalfTurn(u, v, c, s)
    BY <1>1 DEF Heads
  <1>4. /\ l \in Int /\ m \in Int /\ d \in Int /\ t \in Int /\ e \in Int /\ f \in Int
        /\ Heading(first) = <<l, m>> /\ Unit(d, t) /\ Points(l, m, d, t)
        /\ QuaternionYawOnly(first) = <<e, 0, 0, f>> /\ HalfTurn(e, f, d, t)
    BY <1>2 DEF Heads
  <1>5. PICK a \in Int, b \in Int : a = u * e + v * f /\ b = v * e - u * f
    BY <1>3, <1>4
  <1>6. ComputeYawAlignment(torso, first) = <<a, 0, 0, b>>
    <2>1. TurnsBetween(a, b, u, v, e, f)
      BY <1>5 DEF TurnsBetween
    <2>2. YawIs(torso, u, v) /\ YawIs(first, e, f)
      BY <1>3, <1>4 DEF YawIs
    <2> QED
      BY <1>3, <1>4, <2>1, <2>2, AlignmentTurns
  <1> DEFINE aligned == QuaternionMultiply(<<a, 0, 0, b>>, first)
  <1>7. first \in [1..4 -> Int]
    BY OrientationAssumption
  <1>8. Heading(aligned)
          = <<(a * a - b * b) * l - (2 * a * b) * m, (a * a - b * b) * m + (2 * a * b) * l>>
    <2>1. Turned(first, aligned, a, b)
      BY TurnedAbout
    <2> HIDE DEF aligned
    <2> QED
      BY <1>4, <1>7, <2>1, HeadingTurned
  <1>9. PICK x \in Int, y \in Int, g \in Int, i \in Int, n \in Int :
          /\ x = u * u - v * v /\ y = 2 * u * v
          /\ g = e * e - f * f /\ i = -(2 * e * f) /\ n = -t
    BY <1>3, <1>4
  <1>10. Points(x, y, c, s)
    BY <1>3, <1>9, TwiceHalf
  <1>11. Points(g, i, d, n)
    <2>1. Points(e * e - f * f, 2 * e * f, d, t)
      BY <1>4, TwiceHalf
    <2>2. PICK p \in Nat \ {0} : e * e - f * f = d * p /\ 2 * e * f = t * p
      BY <2>1 DEF Points
    <2>3. g = d * p /\ i = n * p
      BY <1>4, <1>9, <2>2
    <2> QED
      BY <2>3 DEF Points
  <1>12. PICK o \in Int, w \in Int, j \in Int, z \in Int :
           /\ o = x * g - y * i /\ w = x * i + y * g /\ j = c * d - s * n /\ z = c * n + s * d
           /\ Points(o, w, j, z)
    <2>1. /\ Points(x * g - y * i, x * i + y * g, c * d - s * n, c * n + s * d)
      BY <1>3, <1>4, <1>9, <1>10, <1>11, DirectionsAdd
    <2>2. /\ x * g - y * i \in Int /\ x * i + y * g \in Int
          /\ c * d - s * n \in Int /\ c * n + s * d \in Int
      BY <1>3, <1>4
    <2> QED
      BY <2>1, <2>2
  <1>13. o = a * a - b * b /\ w = 2 * a * b
    BY <1>3, <1>4, <1>5, <1>9, <1>12
  <1>14. Points(o * l - w * m, o * m + w * l, j * d - z * t, j * t + z * d)
    BY <1>4, <1>12, DirectionsAdd
  <1>15. j * d - z * t = c /\ j * t + z * d = s
    BY <1>3, <1>4, <1>9, <1>12 DEF Unit
  <1>16. PICK h1 \in Int, k1 \in Int : h1 = o * l - w * m /\ k1 = o * m + w * l
    BY <1>4
  <1>17. Heading(aligned) = <<h1, k1>> /\ Points(h1, k1, c, s)
    BY <1>8, <1>13, <1>14, <1>15, <1>16
  <1> HIDE DEF aligned
  <1>18. PICK u1 \in Int, v1 \in Int :
           QuaternionYawOnly(aligned) = <<u1, 0, 0, v1>> /\ HalfTurn(u1, v1, c, s)
    BY <1>3, <1>17, YawOfHeading
  <1>19. SameRotation(QuaternionYawOnly(aligned), QuaternionYawOnly(torso))
    BY <1>3, <1>18, SameYaw
  <1> QED
    BY <1>6, <1>19 DEF aligned

(* Two vectors as far apart as their weights.                              *)
Balanced(h, k, a, l, m, b) == h * a = l * b /\ k * a = m * b

(* Quaternions that are multiples of each other, and where one heads.      *)
Scaled(p1, p2, p3, p4, b, t1, t2, t3, t4, a) ==
  /\ a \in Int /\ b \in Int
  /\ p1 * b = a * t1 /\ p2 * b = a * t2 /\ p3 * b = a * t3 /\ p4 * b = a * t4

HeadsTo(t1, t2, t3, t4, h, k) ==
  /\ t1 \in Int /\ t2 \in Int /\ t3 \in Int /\ t4 \in Int
  /\ h = t1 * t1 + t2 * t2 - t3 * t3 - t4 * t4 /\ k = 2 * (t1 * t4 + t2 * t3)

(* The same rotations head the same way, whatever their norms.             *)
LEMMA SameRotationHeads ==
  ASSUME NEW p1, NEW p2, NEW p3, NEW p4, NEW t1, NEW t2, NEW t3, NEW t4, NEW a, NEW b,
         Scaled(p1, p2, p3, p4, b, t1, t2, t3, t4, a),
         NEW h, NEW k, HeadsTo(p1, p2, p3, p4, h, k), NEW l, NEW m, HeadsTo(t1, t2, t3, t4, l, m)
  PROVE  Balanced(h, k, b * b, l, m, a * a)
  <1>0. /\ p1 \in Int /\ p2 \in Int /\ p3 \in Int /\ p4 \in Int /\ b \in Int
        /\ t1 \in Int /\ t2 \in Int /\ t3 \in Int /\ t4 \in Int /\ a \in Int
    BY DEF Scaled, HeadsTo
  <1>1. PICK x \in Int, y \in Int, z \in Int, w \in Int :
          x = a * t1 /\ y = a * t2 /\ z = a * t3 /\ w = a * t4
    BY <1>0
  <1>2. p1 * b = x /\ p2 * b = y /\ p3 * b = z /\ p4 * b = w
    BY <1>0, <1>1 DEF Scaled
  <1>3. (p1 * p1 + p2 * p2 - p3 * p3 - p4 * p4) * (b * b)
          = (p1 * b) * (p1 * b) + (p2 * b) * (p2 * b) - (p3 * b) * (p3 * b) - (p4 * b) * (p4 * b)
    BY <1>0
  <1>4. (2 * (p1 * p4 + p2 * p3)) * (b * b) = 2 * ((p1 * b) * (p4 * b) + (p2 * b) * (p3 * b))
    BY <1>0
  <1>5. (t1 * t1 + t2 * t2 - t3 * t3 - t4 * t4) * (a * a)
          = (a * t1) * (a * t1) + (a * t2) * (a * t2) - (a * t3) * (a * t3) - (a * t4) * (a * t4)
    BY <1>0
  <1>6. (2 * (t1 * t4 + t2 * t3)) * (a * a) = 2 * ((a * t1) * (a * t4) + (a * t2) * (a * t3))
    BY <1>0
  <1>7. /\ (p1 * p1 + p2 * p2 - p3 * p3 - p4 * p4) * (b * b)
             = (t1 * t1 + t2 * t2 - t3 * t3 - t4 * t4) * (a * a)
        /\ (2 * (p1 * p4 + p2 * p3)) * (b * b) = (2 * (t1 * t4 + t2 * t3)) * (a * a)
    BY <1>0, <1>1, <1>2, <1>3, <1>4, <1>5, <1>6
  <1> QED
    BY <1>7, Zenon DEF Balanced, HeadsTo

(* A vector along an axis has one direction, whatever its length.          *)
Directed(h, k, c, s) ==
  /\ h \in Int /\ k \in Int /\ c \in Int /\ s \in Int
  /\ Unit(c, s) /\ Points(h, k, c, s)

LEMMA SameDirection ==
  ASSUME NEW h, NEW k, NEW c, NEW s, Directed(h, k, c, s),
         NEW l, NEW m, NEW d, NEW t, Directed(l, m, d, t),
         NEW a \in Nat \ {0}, NEW b \in Nat \ {0}, Balanced(h, k, a, l, m, b)
  PROVE  c = d /\ s = t
  <1>0. /\ h \in Int /\ k \in Int /\ c \in Int /\ s \in Int /\ Unit(c, s)
        /\ l \in Int /\ m \in Int /\ d \in Int /\ t \in Int /\ Unit(d, t)
    BY DEF Directed
  <1>1. PICK p \in Nat \ {0} : h = c * p /\ k = s * p
    BY DEF Directed, Points
  <1>2. PICK q \in Nat \ {0} : l = d * q /\ m = t * q
    BY DEF Directed, Points
  <1>3. PICK x \in Nat \ {0}, y \in Nat \ {0} : x = p * a /\ y = q * b
    <2>1. p * a \in Nat \ {0} /\ q * b \in Nat \ {0}
      BY ProductIsLarger
    <2> QED
      BY <2>1
  <1>4. c * x = d * y
    <2>1. h * a = c * x /\ l * b = d * y
      BY <1>0, <1>1, <1>2, <1>3
    <2> QED
      BY <2>1 DEF Balanced
  <1>5. s * x = t * y
    <2>1. k * a = s * x /\ m * b = t * y
      BY <1>0, <1>1, <1>2, <1>3
    <2> QED
      BY <2>1 DEF Balanced
  <1> QED
    BY <1>0, <1>3, <1>4, <1>5 DEF Unit

(* Half a turn from one unit to another is half of their difference, up to *)
(* its sign.                                                               *)
LEMMA HalfOfDifference ==
  ASSUME NEW c \in Int, NEW s \in Int, Unit(c, s), NEW d \in Int, NEW t \in Int, Unit(d, t),
         NEW g \in Int, NEW i \in Int, Unit(g, i), c = g * d - i * t, s = g * t + i * d
  PROVE  \E z \in Int :
           /\ HalfCos(c) * HalfCos(d) + HalfSin(c, s) * HalfSin(d, t) = z * HalfCos(g)
           /\ HalfSin(c, s) * HalfCos(d) - HalfCos(c) * HalfSin(d, t) = z * HalfSin(g, i)
  <1>1. CASE d = 1 /\ t = 0
    <2>1. c = g /\ s = i
      BY <1>1
    <2> QED
      BY <1>1, <2>1 DEF Unit, HalfCos, HalfSin
  <1>2. CASE d = 0 /\ t = 1
    <2>1. c = -i /\ s = g
      BY <1>2
    <2> QED
      BY <1>2, <2>1 DEF Unit, HalfCos, HalfSin
  <1>3. CASE d = -1 /\ t = 0
    <2>1. c = -g /\ s = -i
      BY <1>3
    <2> QED
      BY <1>3, <2>1 DEF Unit, HalfCos, HalfSin
  <1>4. CASE d = 0 /\ t = -1
    <2>1. c = i /\ s = -g
      BY <1>4
    <2> QED
      BY <1>4, <2>1 DEF Unit, HalfCos, HalfSin
  <1> QED
    BY <1>1, <1>2, <1>3, <1>4 DEF Unit

(* All of two quaternions in proportion.                                   *)
InProportion(p1, p2, p3, p4, t1, t2, t3, t4) ==
  /\ p1 * t2 = p2 * t1 /\ p1 * t3 = p3 * t1 /\ p1 * t4 = p4 * t1
  /\ p2 * t3 = p3 * t2 /\ p2 * t4 = p4 * t2 /\ p3 * t4 = p4 * t3

(* A quaternion seen by one of the same rotation is not turned.            *)
LEMMA SeenStraight ==
  ASSUME NEW t, NEW t1 \in Int, NEW t2 \in Int, NEW t3 \in Int, NEW t4 \in Int,
         Quaternion(t, t1, t2, t3, t4),
         NEW q, NEW q1 \in Int, NEW q2 \in Int, NEW q3 \in Int, NEW q4 \in Int,
         Quaternion(q, q1, q2, q3, q4), InProportion(q1, q2, q3, q4, t1, t2, t3, t4)
  PROVE  SameRotation(QuaternionMultiply(QuaternionConjugate(t), q), <<1, 0, 0, 0>>)
  <1> DEFINE r == QuaternionMultiply(QuaternionConjugate(t), q)
  <1>1. /\ t[1] = t1 /\ t[2] = t2 /\ t[3] = t3 /\ t[4] = t4
        /\ q[1] = q1 /\ q[2] = q2 /\ q[3] = q3 /\ q[4] = q4
    BY DEF Quaternion
  <1>2. PICK e \in Int, f \in Int, g \in Int : e = -t2 /\ f = -t3 /\ g = -t4
    OBVIOUS
  <1>3. QuaternionConjugate(t) = <<t1, e, f, g>>
    BY <1>1, <1>2 DEF QuaternionConjugate
  <1>4. t1 * q2 + e * q1 + f * q4 - g * q3 = 0
    BY <1>2 DEF InProportion
  <1>5. t1 * q3 - e * q4 + f * q1 + g * q2 = 0
    BY <1>2 DEF InProportion
  <1>6. t1 * q4 + e * q3 - f * q2 + g * q1 = 0
    BY <1>2 DEF InProportion
  <1>7. PICK n \in Int : n = t1 * q1 - e * q2 - f * q3 - g * q4
    OBVIOUS
  <1>8. r = <<n, 0, 0, 0>>
    BY <1>1, <1>3, <1>4, <1>5, <1>6, <1>7 DEF QuaternionMultiply
  <1>9. /\ r[1] = n /\ r[2] = 0 /\ r[3] = 0 /\ r[4] = 0
        /\ n * 0 = 0 /\ 0 * 1 = 0 /\ 0 * 0 = 0
    BY <1>8
  <1> DEFINE i0 == <<1, 0, 0, 0>>
  <1>10. i0[1] = 1 /\ i0[2] = 0 /\ i0[3] = 0 /\ i0[4] = 0
    OBVIOUS
  <1> HIDE DEF r, i0
  <1>11. \A i, j \in 1..4 : r[i] * i0[j] = r[j] * i0[i]
    <2>1. \A i \in 1..4 : i = 1 \/ i = 2 \/ i = 3 \/ i = 4
      OBVIOUS
    <2> QED
      BY <1>9, <1>10, <2>1
  <1> QED
    BY <1>11 DEF SameRotation, r, i0

(* The four yaws that a motion may be turned by.                           *)
Yaws == {<<1, 0, 0, 0>>, <<0, 0, 0, 1>>, <<1, 0, 0, 1>>, <<1, 0, 0, -1>>}

LEMMA YawsAreHalfTurns ==
  ASSUME NEW yaw \in Yaws
  PROVE  \E g, i \in Int : Unit(g, i) /\ yaw = <<HalfCos(g), 0, 0, HalfSin(g, i)>>
  <1>1. Unit(1, 0) /\ HalfCos(1) = 1 /\ HalfSin(1, 0) = 0
    BY DEF Unit, HalfCos, HalfSin
  <1>2. Unit(-1, 0) /\ HalfCos(-1) = 0 /\ HalfSin(-1, 0) = 1
    BY DEF Unit, HalfCos, HalfSin
  <1>3. Unit(0, 1) /\ HalfCos(0) = 1 /\ HalfSin(0, 1) = 1
    BY DEF Unit, HalfCos, HalfSin
  <1>4. Unit(0, -1) /\ HalfCos(0) = 1 /\ HalfSin(0, -1) = -1
    BY DEF Unit, HalfCos, HalfSin
  <1>5. CASE yaw = <<1, 0, 0, 0>>
    BY <1>1, <1>5
  <1>6. CASE yaw = <<0, 0, 0, 1>>
    BY <1>2, <1>6
  <1>7. CASE yaw = <<1, 0, 0, 1>>
    BY <1>3, <1>7
  <1>8. CASE yaw = <<1, 0, 0, -1>>
    BY <1>4, <1>8
  <1> QED
    BY <1>5, <1>6, <1>7, <1>8 DEF Yaws

(* A torso that stands as the first frame does, but for its yaw, sees the  *)
(* aligned motion straight.                                                *)
LEMMA AlignedView ==
  ASSUME NEW torso \in TorsoTurns, NEW first \in TorsoTurns, Heading(first) # <<0, 0>>,
         NEW yaw \in Yaws, SameRotation(QuaternionMultiply(yaw, first), torso)
  PROVE  SameRotation(
           QuaternionMultiply(QuaternionConjugate(torso),
                              QuaternionMultiply(ComputeYawAlignment(torso, first), first)),
           <<1, 0, 0, 0>>)
  <1>1. PICK t1 \in Int, t2 \in Int, t3 \in Int, t4 \in Int : Quaternion(torso, t1, t2, t3, t4)
    <2>1. torso[1] \in Int /\ torso[2] \in Int /\ torso[3] \in Int /\ torso[4] \in Int
      BY OrientationAssumption
    <2> QED
      BY <2>1 DEF Quaternion
  <1>2. PICK r1 \in Int, r2 \in Int, r3 \in Int, r4 \in Int : Quaternion(first, r1, r2, r3, r4)
    <2>1. first[1] \in Int /\ first[2] \in Int /\ first[3] \in Int /\ first[4] \in Int
      BY OrientationAssumption
    <2> QED
      BY <2>1 DEF Quaternion
  <1>3. PICK g \in Int, i \in Int : Unit(g, i) /\ yaw = <<HalfCos(g), 0, 0, HalfSin(g, i)>>
    BY YawsAreHalfTurns
  <1>4. PICK A \in Int, B \in Int : A = HalfCos(g) /\ B = HalfSin(g, i)
    BY DEF HalfCos, HalfSin
  <1> DEFINE turned == QuaternionMultiply(<<A, 0, 0, B>>, first)
  <1>5. Turned(first, turned, A, B)
    BY TurnedAbout
  <1>6. PICK p1 \in Int, p2 \in Int, p3 \in Int, p4 \in Int :
          /\ p1 = A * r1 - B * r4 /\ p2 = A * r2 - B * r3
          /\ p3 = A * r3 + B * r2 /\ p4 = A * r4 + B * r1
    OBVIOUS
  <1>7. Quaternion(turned, p1, p2, p3, p4)
    BY <1>2, <1>5, <1>6 DEF Turned
  <1>8. InProportion(p1, p2, p3, p4, t1, t2, t3, t4)
    <2>1. \A n, o \in 1..4 : turned[n] * torso[o] = turned[o] * torso[n]
      BY <1>3, <1>4 DEF SameRotation
    <2>2. /\ turned[1] = p1 /\ turned[2] = p2 /\ turned[3] = p3 /\ turned[4] = p4
          /\ torso[1] = t1 /\ torso[2] = t2 /\ torso[3] = t3 /\ torso[4] = t4
      BY <1>1, <1>7 DEF Quaternion
    <2> HIDE DEF turned
    <2>3. /\ turned[1] * torso[2] = turned[2] * torso[1] /\ turned[1] * torso[3] = turned[3] * torso[1]
          /\ turned[1] * torso[4] = turned[4] * torso[1] /\ turned[2] * torso[3] = turned[3] * torso[2]
          /\ turned[2] * torso[4] = turned[4] * torso[2] /\ turned[3] * torso[4] = turned[4] * torso[3]
      BY <2>1
    <2> QED
      BY <2>2, <2>3 DEF InProportion
  <1>9. PICK h, k, c, s, u, v : Heads(torso, h, k, c, s, u, v)
    BY TorsoHeads
  <1>10. PICK l, m, d, t, e, f : Heads(first, l, m, d, t, e, f)
    BY TorsoHeads
  <1>11. /\ h \in Int /\ k \in Int /\ c \in Int /\ s \in Int /\ u \in Int /\ v \in Int
         /\ Unit(c, s) /\ Heading(torso) = <<h, k>>
         /\ (Points(h, k, c, s) \/ (h = 0 /\ k = 0))
         /\ QuaternionYawOnly(torso) = <<u, 0, 0, v>> /\ HalfTurn(u, v, c, s)
    BY <1>9 DEF Heads
  <1>12. /\ l \in Int /\ m \in Int /\ d \in Int /\ t \in Int /\ e \in Int /\ f \in Int
         /\ Heading(first) = <<l, m>> /\ Unit(d, t) /\ Points(l, m, d, t)
         /\ QuaternionYawOnly(first) = <<e, 0, 0, f>> /\ HalfTurn(e, f, d, t)
    BY <1>10 DEF Heads
  <1>13. PICK a \in Int, b \in Int : a = u * e + v * f /\ b = v * e - u * f
    BY <1>11, <1>12
  <1> DEFINE aligned == QuaternionMultiply(<<a, 0, 0, b>>, first)
  <1>14. QuaternionMultiply(ComputeYawAlignment(torso, first), first) = aligned
    <2>1. ComputeYawAlignment(torso, first) = <<a, 0, 0, b>>
      <3>1. TurnsBetween(a, b, u, v, e, f)
        BY <1>13 DEF TurnsBetween
      <3>2. YawIs(torso, u, v) /\ YawIs(first, e, f)
        BY <1>11, <1>12 DEF YawIs
      <3> QED
        BY <1>11, <1>12, <3>1, <3>2, AlignmentTurns
    <2> QED
      BY <2>1
  <1>15. Turned(first, aligned, a, b)
    BY TurnedAbout
  <1>16. ASSUME NEW z \in Int, a = z * A, b = z * B
         PROVE  SameRotation(QuaternionMultiply(QuaternionConjugate(torso), aligned), <<1, 0, 0, 0>>)
    <2>1. Quaternion(aligned, a * r1 - b * r4, a * r2 - b * r3, a * r3 + b * r2, a * r4 + b * r1)
      BY <1>2, <1>15 DEF Turned
    <2>2. /\ a * r1 - b * r4 = z * p1 /\ a * r2 - b * r3 = z * p2
          /\ a * r3 + b * r2 = z * p3 /\ a * r4 + b * r1 = z * p4
      BY <1>6, <1>16
    <2>3. PICK q1 \in Int, q2 \in Int, q3 \in Int, q4 \in Int :
            /\ q1 = z * p1 /\ q2 = z * p2 /\ q3 = z * p3 /\ q4 = z * p4
            /\ Quaternion(aligned, q1, q2, q3, q4)
      BY <2>1, <2>2
    <2>4. InProportion(q1, q2, q3, q4, t1, t2, t3, t4)
      BY <1>8, <2>3 DEF InProportion
    <2> HIDE DEF aligned
    <2> QED
      BY <1>1, <2>3, <2>4, SeenStraight
  <1>17. Unit(g * d - i * t, g * t + i * d)
    BY <1>3, <1>12 DEF Unit
  <1>18. PICK h1 \in Int, k1 \in Int :
           Heading(turned) = <<h1, k1>> /\ Points(h1, k1, g * d - i * t, g * t + i * d)
    <2>1. A = 1 * HalfCos(g) /\ B = 1 * HalfSin(g, i)
      BY <1>4
    <2>2. HalfTurn(A, B, g, i)
      BY <2>1 DEF HalfTurn
    <2>3. PICK x \in Int, y \in Int : x = A * A - B * B /\ y = 2 * A * B
      OBVIOUS
    <2>4. Points(x, y, g, i)
      BY <1>3, <2>2, <2>3, TwiceHalf
    <2>5. Points(x * l - y * m, x * m + y * l, g * d - i * t, g * t + i * d)
      BY <1>12, <2>4, DirectionsAdd
    <2>6. first \in [1..4 -> Int]
      BY OrientationAssumption
    <2> HIDE DEF turned
    <2>7. Heading(turned)
            = <<(A * A - B * B) * l - (2 * A * B) * m, (A * A - B * B) * m + (2 * A * B) * l>>
      BY <1>5, <1>12, <2>6, HeadingTurned
    <2>8. x * l - y * m \in Int /\ x * m + y * l \in Int
      BY <1>12
    <2> QED
      BY <2>3, <2>5, <2>7, <2>8
  <1> HIDE DEF turned
  <1>19. /\ h1 = p1 * p1 + p2 * p2 - p3 * p3 - p4 * p4 /\ k1 = 2 * (p1 * p4 + p2 * p3)
         /\ h = t1 * t1 + t2 * t2 - t3 * t3 - t4 * t4 /\ k = 2 * (t1 * t4 + t2 * t3)
    <2>1. Heading(turned) = <<p1 * p1 + p2 * p2 - p3 * p3 - p4 * p4, 2 * (p1 * p4 + p2 * p3)>>
      BY <1>7, HeadingOf
    <2>2. Heading(torso) = <<t1 * t1 + t2 * t2 - t3 * t3 - t4 * t4, 2 * (t1 * t4 + t2 * t3)>>
      BY <1>1, HeadingOf
    <2> QED
      BY <1>11, <1>18, <2>1, <2>2
  <1>20. ~(h1 = 0 /\ k1 = 0)
    <2>1. PICK n \in Nat \ {0}, x \in Int, y \in Int :
            h1 = x * n /\ k1 = y * n /\ Unit(x, y)
      <3>1. g * d - i * t \in Int /\ g * t + i * d \in Int
        BY <1>12
      <3> QED
        BY <1>17, <1>18, <3>1 DEF Points
    <2> QED
      BY <2>1 DEF Unit
  <1>21. ASSUME NEW x \in Int, NEW y \in Int, y # 0,
                p1 * y = x * t1, p2 * y = x * t2, p3 * y = x * t3, p4 * y = x * t4
         PROVE  c = g * d - i * t /\ s = g * t + i * d
    <2>1. PICK n \in Int, o \in Int : n = y * y /\ o = x * x
      OBVIOUS
    <2>10. Balanced(h1, k1, n, h, k, o)
      <3>1. HeadsTo(p1, p2, p3, p4, h1, k1) /\ HeadsTo(t1, t2, t3, t4, h, k)
        BY <1>1, <1>6, <1>19, Zenon DEF HeadsTo
      <3>2. Scaled(p1, p2, p3, p4, y, t1, t2, t3, t4, x)
        BY <1>21, Zenon DEF Scaled
      <3>3. Balanced(h1, k1, y * y, h, k, x * x)
        BY <3>1, <3>2, SameRotationHeads, Zenon
      <3> QED
        BY <2>1, <3>3
    <2>2. h1 * n = h * o /\ k1 * n = k * o
      BY <2>10 DEF Balanced
    <2>3. n > 0
      BY <1>21, <2>1
    <2>4. o > 0
      <3>1. CASE x = 0
        <4>1. h1 * n = 0 /\ k1 * n = 0
          BY <1>11, <2>1, <2>2, <3>1
        <4>2. h1 = 0 /\ k1 = 0
          BY <2>3, <4>1
        <4> QED
          BY <1>20, <4>2
      <3>2. CASE x # 0
        BY <2>1, <3>2
      <3> QED
        BY <3>1, <3>2
    <2>5. ~(h = 0 /\ k = 0)
      <3> SUFFICES ASSUME h = 0, k = 0 PROVE FALSE
        OBVIOUS
      <3>1. h1 * n = 0 /\ k1 * n = 0
        BY <2>1, <2>2
      <3>2. h1 = 0 /\ k1 = 0
        BY <2>3, <3>1
      <3> QED
        BY <1>20, <3>2
    <2>6. Points(h, k, c, s)
      BY <1>11, <2>5
    <2>7. PICK x1 \in Int, y1 \in Int : x1 = g * d - i * t /\ y1 = g * t + i * d
      BY <1>12
    <2>8. Unit(x1, y1) /\ Points(h1, k1, x1, y1)
      BY <1>17, <1>18, <2>7
    <2>9. n \in Nat \ {0} /\ o \in Nat \ {0}
      BY <2>3, <2>4
    <2>11. Directed(h1, k1, x1, y1) /\ Directed(h, k, c, s)
      BY <1>11, <1>18, <2>6, <2>7, <2>8 DEF Directed
    <2>12. x1 = c /\ y1 = s
      BY <2>9, <2>10, <2>11, SameDirection, Zenon
    <2> QED
      BY <2>7, <2>12
  <1>22. CASE ~(t1 = 0 /\ t2 = 0 /\ t3 = 0 /\ t4 = 0)
    <2>1. c = g * d - i * t /\ s = g * t + i * d
      <3>1. CASE t1 # 0
        <4>1. p1 * t1 = p1 * t1 /\ p2 * t1 = p1 * t2 /\ p3 * t1 = p1 * t3 /\ p4 * t1 = p1 * t4
          BY <1>8 DEF InProportion
        <4> QED
          BY <1>21, <3>1, <4>1
      <3>2. CASE t2 # 0
        <4>1. p1 * t2 = p2 * t1 /\ p2 * t2 = p2 * t2 /\ p3 * t2 = p2 * t3 /\ p4 * t2 = p2 * t4
          BY <1>8 DEF InProportion
        <4> QED
          BY <1>21, <3>2, <4>1
      <3>3. CASE t3 # 0
        <4>1. p1 * t3 = p3 * t1 /\ p2 * t3 = p3 * t2 /\ p3 * t3 = p3 * t3 /\ p4 * t3 = p3 * t4
          BY <1>8 DEF InProportion
        <4> QED
          BY <1>21, <3>3, <4>1
      <3>4. CASE t4 # 0
        <4>1. p1 * t4 = p4 * t1 /\ p2 * t4 = p4 * t2 /\ p3 * t4 = p4 * t3 /\ p4 * t4 = p4 * t4
          BY <1>8 DEF InProportion
        <4> QED
          BY <1>21, <3>4, <4>1
      <3> QED
        BY <1>22, <3>1, <3>2, <3>3, <3>4
    <2>2. PICK z \in Int :
            /\ HalfCos(c) * HalfCos(d) + HalfSin(c, s) * HalfSin(d, t) = z * HalfCos(g)
            /\ HalfSin(c, s) * HalfCos(d) - HalfCos(c) * HalfSin(d, t) = z * HalfSin(g, i)
      BY <1>3, <1>11, <1>12, <2>1, HalfOfDifference
    <2>3. PICK C \in Int, S \in Int, D \in Int, T \in Int :
            C = HalfCos(c) /\ S = HalfSin(c, s) /\ D = HalfCos(d) /\ T = HalfSin(d, t)
      <3>1. HalfCos(c) \in Int /\ HalfSin(c, s) \in Int /\ HalfCos(d) \in Int /\ HalfSin(d, t) \in Int
        BY <1>11, <1>12 DEF HalfCos, HalfSin
      <3> QED
        BY <3>1
    <2>4. PICK n \in Nat \ {0} : u = n * C /\ v = n * S
      BY <1>11, <2>3 DEF HalfTurn
    <2>5. PICK o \in Nat \ {0} : e = o * D /\ f = o * T
      BY <1>12, <2>3 DEF HalfTurn
    <2>6. C * D + S * T = z * A /\ S * D - C * T = z * B
      BY <1>4, <2>2, <2>3
    <2>7. PICK x \in Int : x = n * o
      OBVIOUS
    <2>8. a = x * (C * D + S * T)
      BY <1>13, <2>4, <2>5, <2>7
    <2>9. b = x * (S * D - C * T)
      BY <1>13, <2>4, <2>5, <2>7
    <2>10. PICK y \in Int : y = x * z
      OBVIOUS
    <2>11. a = y * A /\ b = y * B
      <3>1. a = x * (z * A) /\ b = x * (z * B)
        BY <2>6, <2>8, <2>9
      <3> QED
        BY <2>10, <3>1
    <2> HIDE DEF aligned
    <2> QED
      BY <1>14, <1>16, <2>11
  <1>23. CASE t1 = 0 /\ t2 = 0 /\ t3 = 0 /\ t4 = 0
    <2>1. PICK q1 \in Int, q2 \in Int, q3 \in Int, q4 \in Int : Quaternion(aligned, q1, q2, q3, q4)
      <3>1. /\ a * r1 - b * r4 \in Int /\ a * r2 - b * r3 \in Int
            /\ a * r3 + b * r2 \in Int /\ a * r4 + b * r1 \in Int
        OBVIOUS
      <3>2. Quaternion(aligned, a * r1 - b * r4, a * r2 - b * r3, a * r3 + b * r2, a * r4 + b * r1)
        BY <1>2, <1>15 DEF Turned
      <3> QED
        BY <3>1, <3>2
    <2>2. InProportion(q1, q2, q3, q4, t1, t2, t3, t4)
      BY <1>23 DEF InProportion
    <2> HIDE DEF aligned
    <2>3. SameRotation(QuaternionMultiply(QuaternionConjugate(torso), aligned), <<1, 0, 0, 0>>)
      BY <1>1, <2>1, <2>2, SeenStraight
    <2> QED
      BY <1>14, <2>3
  <1> QED
    BY <1>22, <1>23
-----------------------------------------------------------------------------
(* The alignment is always that of the two torsos that are kept with it.   *)
OrientationInv ==
  /\ quat \in [1..4 -> Int] /\ world \in [1..3 -> Int]
  /\ initQuat # <<>> =>
       /\ torsoQuat \in TorsoTurns /\ reference \in TorsoTurns
       /\ initQuat = ComputeYawAlignment(torsoQuat, reference)

LEMMA OrientationInitially == OrientationInit => OrientationInv
  <1>1. \A e, f, g, h \in Int : <<e, f, g, h>> \in [1..4 -> Int]
    OBVIOUS
  <1>2. \A e, f, g \in Int : <<e, f, g>> \in [1..3 -> Int]
    OBVIOUS
  <1>3. -1 \in Int
    OBVIOUS
  <1> QED
    BY <1>1, <1>2, <1>3 DEF OrientationInit, OrientationInv

LEMMA OrientationStep ==
  OrientationInv /\ [OrientationNext]_orientationVars => OrientationInv'
  <1> SUFFICES ASSUME OrientationInv, [OrientationNext]_orientationVars
               PROVE  OrientationInv'
    OBVIOUS
  <1>1. CASE Turn
    <2>1. Components \subseteq Int
      BY OrientationAssumption
    <2> QED
      BY <1>1, <2>1 DEF Turn, OrientationInv
  <1>2. ASSUME NEW torso \in TorsoTurns, NEW first \in TorsoTurns, ResetAlignment(torso, first)
        PROVE  OrientationInv'
    <2>1. ComputeYawAlignment(torsoQuat, reference)' = ComputeYawAlignment(torsoQuat', reference')
      BY DEF ComputeYawAlignment
    <2> QED
      BY <1>2, <2>1 DEF ResetAlignment, OrientationInv
  <1>3. CASE UNCHANGED orientationVars
    BY <1>3 DEF orientationVars, OrientationInv, ComputeYawAlignment
  <1> QED
    BY <1>1, <1>2, <1>3 DEF OrientationNext

LEMMA OrientationInvIsSafe == OrientationInv => OrientationSafe
  <1> SUFFICES ASSUME OrientationInv PROVE OrientationSafe
    OBVIOUS
  <1>1. FramesAgree
    BY FramesMeet DEF OrientationInv
  <1>2. MotionStartsAligned
    <2> SUFFICES ASSUME initQuat # <<>>
                 PROVE  MotionStartsAligned
      BY DEF MotionStartsAligned
    <2>1. /\ torsoQuat \in TorsoTurns /\ reference \in TorsoTurns
          /\ initQuat = ComputeYawAlignment(torsoQuat, reference)
      BY DEF OrientationInv
    <2>2. Heading(reference) # <<0, 0>> =>
            SameRotation(QuaternionYawOnly(QuaternionMultiply(initQuat, reference)),
                         QuaternionYawOnly(torsoQuat))
      BY <2>1, AlignedHeading
    <2>3. ASSUME NEW yaw \in Yaws, SameRotation(QuaternionMultiply(yaw, reference), torsoQuat),
                 Heading(reference) # <<0, 0>>
          PROVE  SameRotation(RelativeQuat, <<1, 0, 0, 0>>)
      BY <2>1, <2>3, AlignedView DEF RelativeQuat
    <2> QED
      BY <2>2, <2>3 DEF MotionStartsAligned, Yaws
  <1> QED
    BY <1>1, <1>2 DEF OrientationSafe

(* The vectors and matrices of the observation agree on what the body sees *)
(* of the world, for any orientation and any vector; and a motion starts   *)
(* where the robot heads, and is seen straight by a robot that stands as   *)
(* its first frame does, for any torsos that head along an axis.           *)
THEOREM OrientationIsSafe == OrientationSpec => []OrientationSafe
  BY OrientationInitially, OrientationStep, OrientationInvIsSafe, PTL DEF OrientationSpec
-----------------------------------------------------------------------------
(***** The core **********************************************************)

(* What the parts of the core make of it.                                  *)
LEMMA ChoicesAreSequences == \A obsIds \in ObsIds : obsIds \in Seq(Steps) /\ obsIds # <<>>
  <1>1. ASSUME NEW obsIds \in ObsIds
        PROVE  obsIds \in Seq(Steps) /\ obsIds # <<>>
    <2>1. PICK m \in 0..2 : obsIds \in [1..m -> Steps]
      BY <1>1 DEF ObsIds, SeqOf
    <2>2. m \in Nat
      OBVIOUS
    <2> QED
      BY <1>1, <2>1, <2>2 DEF ObsIds
  <1> QED
    BY <1>1

LEMMA HistoryKept == CoreSpec => [](TypeOK /\ NewestFirst)
  <1>1. CoreInit => TypeOK /\ NewestFirst
    BY InitialBuffer DEF CoreInit
  <1>2. TypeOK /\ NewestFirst /\ [CoreNext]_coreVars => TypeOK' /\ NewestFirst'
    <2> SUFFICES ASSUME TypeOK, NewestFirst, [CoreNext]_coreVars
                 PROVE  TypeOK' /\ NewestFirst'
      OBVIOUS
    <2>1. [Next]_vars
      BY DEF CoreNext, coreVars, HistoryPart, ContractPart, OutputPart, OrientationPart, MotionPart
    <2> QED
      BY <2>1, BufferStep
  <1> QED
    BY <1>1, <1>2, PTL DEF CoreSpec

(* get_obs_vec puts every number of every chosen observation where the     *)
(* policy was trained to find it, in both priorities, for any terms, any   *)
(* number of environments and any choice of past observations.             *)
THEOREM HistoryIsAsTrained ==
  CoreSpec => []( /\ HistoryLayout
                  /\ \A priority \in Priorities, obsIds \in Seq(Steps) \ {<<>>} :
                       AsTrained(priority, obsIds) )
  <1>1. ASSUME TypeOK, NewestFirst
        PROVE  /\ HistoryLayout
               /\ \A priority \in Priorities, obsIds \in Seq(Steps) \ {<<>>} :
                    AsTrained(priority, obsIds)
    <2>1. \A priority \in Priorities, obsIds \in Seq(Steps) \ {<<>>} : AsTrained(priority, obsIds)
      BY <1>1, OutputAsTrained
    <2>2. HistoryLayout
      BY <1>1, <2>1, ChoicesAreSequences DEF HistoryLayout, LayoutAsTrained
    <2> QED
      BY <2>1, <2>2
  <1> QED
    BY <1>1, HistoryKept, PTL

(* The contract of the node that moves is kept in the core as a whole.     *)
THEOREM ContractIsKept == CoreSpec => []ContractKept
  <1> DEFINE Inv == part \in Parts /\ (part = "contract" => ContractInv)
  <1>1. CoreInit => Inv
    BY ContractInitially DEF CoreInit, ContractStart
  <1>2. Inv /\ [CoreNext]_coreVars => Inv'
    <2> SUFFICES ASSUME Inv, [CoreNext]_coreVars PROVE Inv'
      OBVIOUS
    <2>1. part' = part
      BY DEF CoreNext, coreVars, HistoryPart, ContractPart, OutputPart, OrientationPart, MotionPart
    <2>2. [ContractNext]_contractVars
      BY DEF CoreNext, coreVars, HistoryPart, ContractPart, OutputPart, OrientationPart, MotionPart
    <2> QED
      BY <2>1, <2>2, ContractStep
  <1>3. Inv => ContractKept
    BY ContractInvIsSafe DEF ContractKept
  <1> QED
    BY <1>1, <1>2, <1>3, PTL DEF CoreSpec
===============================================================================
