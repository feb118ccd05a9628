------------------------- MODULE ObservationBuffer -------------------------
(***************************************************************************)
(* class ObservationBuffer: the last HistoryLength observations of every   *)
(* environment, newest first.  An observation is the concatenation of      *)
(* terms, term d being Dims[d] numbers wide; get_obs_vec puts a choice of  *)
(* past observations side by side, either observation by observation       *)
(* ("time") or term by term ("term").                                      *)
(*                                                                         *)
(* The numbers only matter by where they come from: component i of the     *)
(* n-th observation handed to the buffer is <<n, i>>, and 0 stands for the *)
(* zeros of a new buffer.                                                  *)
(***************************************************************************)
EXTENDS Integers, Sequences, SequencesExt, FiniteSetsExt

CONSTANTS
  NumEnvs, HistoryLength,
  Dims,            \* obs_dims
  MaxObservations  \* bound: observations inserted or reset to

ASSUME BufferAssumption ==
  /\ NumEnvs \in Nat \ {0} /\ HistoryLength \in Nat \ {0}
  /\ Dims \in Seq(Nat \ {0}) /\ Dims # <<>>
  /\ MaxObservations \in Nat

VARIABLES
  obsBuf,   \* obs_buf[env][t]
  given,    \* number of observations handed over so far
  log,      \* history: per environment, the observations since the reset
  base      \* history: what the environment was last reset to

vars == <<obsBuf, given, log, base>>

Envs == 0..NumEnvs - 1
Steps == 0..HistoryLength - 1

NumObs == FoldLeft(+, 0, Dims)
-----------------------------------------------------------------------------
Reset(envs) ==
  /\ given < MaxObservations
  /\ given' = given + 1
  /\ obsBuf' = [e \in Envs |->
       IF e \in envs THEN [t \in Steps |-> given'] ELSE obsBuf[e]]
  /\ log' = [e \in Envs |-> IF e \in envs THEN <<>> ELSE log[e]]
  /\ base' = [e \in Envs |-> IF e \in envs THEN given' ELSE base[e]]

ShiftFrontFirst(history) ==  \* mutant: the loop runs from front to back
  [t \in Steps |-> history[0]]

(* Every entry becomes one step older; the oldest is dropped.              *)
Shift(history) == [t \in Steps |-> IF t = 0 THEN history[0] ELSE history[t - 1]]

Insert ==
  /\ given < MaxObservations
  /\ given' = given + 1
  /\ obsBuf' = [e \in Envs |-> [Shift(obsBuf[e]) EXCEPT ![0] = given']]
  /\ log' = [e \in Envs |-> Append(log[e], given')]
  /\ UNCHANGED base
-----------------------------------------------------------------------------
(* get_obs_vec.                                                            *)

TermOffset(d) == FoldLeft(+, 0, SubSeq(Dims, 1, d - 1))

(* Components first..last of the observations obsIds of environment e.     *)
Slices(e, obsIds, first, width) ==
  FlattenSeq([k \in DOMAIN obsIds |->
    [j \in 1..width |-> <<obsBuf[e][obsIds[k]], first + j - 1>>]])

SlicesByTermOffByOne(e, obsIds) ==  \* mutant: the offset includes the term itself
  FlattenSeq([d \in DOMAIN Dims |-> Slices(e, obsIds, TermOffset(d + 1), Dims[d])])

SlicesByTerm(e, obsIds) ==
  FlattenSeq([d \in DOMAIN Dims |-> Slices(e, obsIds, TermOffset(d), Dims[d])])

Priorities == {"time", "term"}

GetObsVec(priority, obsIds) ==
  FlattenSeq([i \in 1..NumEnvs |->
    IF priority = "time"
    THEN Slices(i - 1, obsIds, 0, NumObs)
    ELSE SlicesByTerm(i - 1, obsIds)])
-----------------------------------------------------------------------------
Init ==
  /\ obsBuf = [e \in Envs |-> [t \in Steps |-> 0]]
  /\ given = 0
  /\ log = [e \in Envs |-> <<>>]
  /\ base = [e \in Envs |-> 0]

Next == Insert \/ \E envs \in SUBSET Envs : Reset(envs)

Spec == Init /\ [][Next]_vars
-----------------------------------------------------------------------------
TypeOK ==
  /\ obsBuf \in [Envs -> [Steps -> Nat]]
  /\ given \in 0..MaxObservations
  /\ log \in [Envs -> Seq(Nat)]
  /\ base \in [Envs -> Nat]

(* What step t of environment e has to be: the t-th newest observation     *)
(* since the reset, and the reset observation before that.                 *)
Remembered(e, t) ==
  IF t < Len(log[e]) THEN log[e][Len(log[e]) - t] ELSE base[e]

(* "0 is the latest observation and history_length - 1 is the oldest", also*)
(* while the history is not full, and for each environment on its own.     *)
NewestFirst == \A e \in Envs, t \in Steps : obsBuf[e][t] = Remembered(e, t)

(* The index sequences get_obs_vec is checked with: in and out of order,   *)
(* with gaps and with repetitions.                                         *)
ObsIds == SeqOf(Steps, 2) \ {<<>>}

(* Where component j (from 0) of term d of the k-th chosen observation of  *)
(* environment e has to be in the output.                                  *)
Position(priority, e, obsIds, k, d, j) ==
  e * Len(obsIds) * NumObs
  + (IF priority = "time"
     THEN (k - 1) * NumObs + TermOffset(d) + j
     ELSE Len(obsIds) * TermOffset(d) + (k - 1) * Dims[d] + j)
  + 1

(* get_obs_vec puts every number of every chosen past observation exactly  *)
(* where the policy was trained to find it, in both priorities.            *)
AsTrained(priority, obsIds) ==
  LET output == GetObsVec(priority, obsIds)
  IN  /\ Len(output) = NumEnvs * Len(obsIds) * NumObs
      /\ \A e \in Envs, k \in DOMAIN obsIds, d \in DOMAIN Dims :
           \A j \in 0..Dims[d] - 1 :
             output[Position(priority, e, obsIds, k, d, j)]
               = <<Remembered(e, obsIds[k]), TermOffset(d) + j>>

LayoutAsTrained ==
  \A priority \in Priorities, obsIds \in ObsIds : AsTrained(priority, obsIds)

=============================================================================
