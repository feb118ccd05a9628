-------------------------- MODULE LoopFunc_proofs --------------------------
(***************************************************************************)
(* Proofs about LoopFunc, for any number of loops.                         *)
(***************************************************************************)
EXTENDS LoopFunc, TLAPS

(* A loop has no thread as long as the owner has not come to start it.     *)
ToStart(i) == owner.step = "start" /\ i >= owner.at

StartedInOrder ==
  \A i \in DOMAIN Loops : thread[Loops[i]] = "none" <=> ToStart(i)

(* A call after the stop was decided on before it, and uses up the only    *)
(* decision there was.                                                     *)
LateIsDecided ==
  \A l \in Names :
    /\ late[l] \in 0..1
    /\ running[l] => late[l] = 0
    /\ thread[l] \in {"none", "enter"} => late[l] = 0

IInv == TypeOK /\ StartedInOrder /\ LateIsDecided /\ EndsOnlyWhenStopped
-----------------------------------------------------------------------------
LEMMA LoopsFacts ==
  /\ Len(Loops) \in Nat \ {0}
  /\ DOMAIN Loops = 1..Len(Loops)
  /\ \A i \in DOMAIN Loops : Loops[i] \in Names
  /\ \A i, j \in DOMAIN Loops : Loops[i] = Loops[j] => i = j
  <1>1. /\ Len(Loops) \in Nat
        /\ DOMAIN Loops = 1..Len(Loops)
        /\ Loops \in Seq(Range(Loops)) /\ Loops # <<>>
    BY LoopsAssumption
  <1>2. Len(Loops) # 0
    BY <1>1
  <1>3. \A i \in DOMAIN Loops : Loops[i] \in Names
    BY DEF Names, Range
  <1>4. \A i, j \in DOMAIN Loops : Loops[i] = Loops[j] => i = j
    BY LoopsAssumption DEF IsInjective
  <1> QED
    BY <1>1, <1>2, <1>3, <1>4

(* The owner walks along its loops.                                        *)
LEMMA OwnerAdvancesType ==
  ASSUME TypeOK, NEW step \in {"start", "lock", "stop", "notify", "log", "gone"},
         NEW after \in {"start", "lock", "stop", "notify", "log", "gone"},
         OwnerAdvances(step, after)
  PROVE  /\ owner' \in [step : {"start", "lock", "stop", "notify", "log", "gone"},
                        at : DOMAIN Loops]
         /\ \/ owner'.step = step /\ owner'.at = owner.at + 1
            \/ owner'.step = after /\ owner'.at = 1 /\ owner.at = Len(Loops)
  BY LoopsFacts DEF TypeOK, OwnerAdvances

(* Steps that leave the owner in the same phase and give no loop its first *)
(* thread keep the order of the starts.                                    *)
LEMMA StartedInOrderKept ==
  ASSUME IInv,
         owner'.step = "start" <=> owner.step = "start",
         owner'.at = owner.at \/ owner'.step # "start",
         \A l \in Names : thread'[l] = "none" <=> thread[l] = "none"
  PROVE  StartedInOrder'
  BY LoopsFacts DEF IInv, StartedInOrder, ToStart

LEMMA StartStep ==
  ASSUME IInv, NEW l \in Names, Start(l)
  PROVE  IInv' /\ thread[l] = "none"
  <1>1. /\ owner.step = "start" /\ l = Loops[owner.at]
        /\ running' = [running EXCEPT ![l] = TRUE]
        /\ thread' = [thread EXCEPT ![l] = "check"]
        /\ UNCHANGED <<mutex, timedOut, logged, late>>
        /\ owner.at \in DOMAIN Loops
    BY DEF Start, At, IInv, TypeOK
  <1>2. /\ owner' \in [step : {"start", "lock", "stop", "notify", "log", "gone"},
                       at : DOMAIN Loops]
        /\ \/ owner'.step = "start" /\ owner'.at = owner.at + 1
           \/ owner'.step = "lock" /\ owner.at = Len(Loops)
    BY OwnerAdvancesType DEF Start, IInv
  <1>3. thread[l] = "none"
    BY <1>1, LoopsFacts DEF IInv, StartedInOrder, ToStart
  <1>4. TypeOK'
    BY <1>1, <1>2 DEF IInv, TypeOK, ThreadSteps
  <1>5. StartedInOrder'
    <2> SUFFICES ASSUME NEW i \in DOMAIN Loops
                 PROVE  thread'[Loops[i]] = "none" <=> ToStart(i)'
      BY DEF StartedInOrder
    <2>1. Loops[i] \in Names /\ (Loops[i] = l <=> i = owner.at)
      BY <1>1, LoopsFacts
    <2>2. thread'[Loops[i]] = IF i = owner.at THEN "check" ELSE thread[Loops[i]]
      BY <1>1, <2>1 DEF IInv, TypeOK
    <2>3. ToStart(i)' <=> i > owner.at
      BY <1>1, <1>2, LoopsFacts DEF ToStart
    <2>4. thread[Loops[i]] = "none" <=> i >= owner.at
      BY <1>1 DEF IInv, StartedInOrder, ToStart
    <2> QED
      BY <1>1, <2>2, <2>3, <2>4, LoopsFacts
  <1>6. LateIsDecided' /\ EndsOnlyWhenStopped'
    BY <1>1, <1>3 DEF IInv, TypeOK, LateIsDecided, EndsOnlyWhenStopped
  <1> QED
    BY <1>3, <1>4, <1>5, <1>6 DEF IInv

LEMMA ShutdownLockStep ==
  ASSUME IInv, NEW l \in Names, ShutdownLock(l)
  PROVE  IInv'
  <1>1. TypeOK'
    BY DEF ShutdownLock, At, OwnerGoes, IInv, TypeOK
  <1>2. StartedInOrder'
    BY StartedInOrderKept DEF ShutdownLock, At, OwnerGoes, IInv, TypeOK
  <1>3. LateIsDecided' /\ EndsOnlyWhenStopped'
    BY DEF ShutdownLock, IInv, LateIsDecided, EndsOnlyWhenStopped
  <1> QED
    BY <1>1, <1>2, <1>3 DEF IInv

LEMMA ShutdownStopStep ==
  ASSUME IInv, NEW l \in Names, ShutdownStop(l)
  PROVE  IInv' /\ thread[l] # "none"
  <1>1. TypeOK'
    BY DEF ShutdownStop, At, OwnerGoes, IInv, TypeOK
  <1>2. StartedInOrder'
    BY StartedInOrderKept DEF ShutdownStop, At, OwnerGoes, IInv, TypeOK
  <1>3. LateIsDecided' /\ EndsOnlyWhenStopped'
    BY DEF ShutdownStop, IInv, TypeOK, LateIsDecided, EndsOnlyWhenStopped
  <1>4. thread[l] # "none"
    BY DEF ShutdownStop, At, IInv, TypeOK, StartedInOrder, ToStart
  <1> QED
    BY <1>1, <1>2, <1>3, <1>4 DEF IInv

LEMMA ShutdownNotifyStep ==
  ASSUME IInv, NEW l \in Names, ShutdownNotify(l)
  PROVE  IInv'
  <1>1. /\ owner.step = "notify" /\ owner' = [owner EXCEPT !.step = "log"]
        /\ thread' = [thread EXCEPT ![l] = IF @ = "waiting" THEN "relock" ELSE @]
        /\ mutex' = [mutex EXCEPT ![l] = "free"]
        /\ UNCHANGED <<running, timedOut, logged, late>>
    BY DEF ShutdownNotify, At, OwnerGoes
  <1>2. TypeOK'
    BY <1>1 DEF IInv, TypeOK, ThreadSteps
  <1>3. StartedInOrder'
    BY <1>1, StartedInOrderKept DEF IInv, TypeOK
  <1>4. LateIsDecided' /\ EndsOnlyWhenStopped'
    BY <1>1 DEF IInv, TypeOK, LateIsDecided, EndsOnlyWhenStopped
  <1> QED
    BY <1>2, <1>3, <1>4 DEF IInv

LEMMA ShutdownLogStep ==
  ASSUME IInv, NEW l \in Names, ShutdownLog(l)
  PROVE  IInv'
  <1>1. /\ owner' \in [step : {"start", "lock", "stop", "notify", "log", "gone"},
                       at : DOMAIN Loops]
        /\ owner'.step \in {"lock", "gone"} /\ owner.step = "log"
    BY OwnerAdvancesType DEF ShutdownLog, At, IInv
  <1>2. TypeOK'
    BY <1>1 DEF ShutdownLog, IInv, TypeOK
  <1>3. StartedInOrder'
    BY <1>1, StartedInOrderKept DEF ShutdownLog
  <1>4. LateIsDecided' /\ EndsOnlyWhenStopped'
    BY DEF ShutdownLog, IInv, LateIsDecided, EndsOnlyWhenStopped
  <1> QED
    BY <1>2, <1>3, <1>4 DEF IInv
-----------------------------------------------------------------------------
(* The steps of the thread move one thread between two steps of loop().    *)
LEMMA ThreadMoves ==
  ASSUME IInv, NEW l \in Names, NEW from, NEW to \in ThreadSteps,
         ThreadGoes(l, from, to), from # "none", to # "none", UNCHANGED owner
  PROVE  /\ thread' \in [Names -> ThreadSteps]
         /\ thread[l] = from
         /\ \A m \in Names : thread'[m] = IF m = l THEN to ELSE thread[m]
         /\ StartedInOrder'
  <1>1. /\ thread' \in [Names -> ThreadSteps]
        /\ thread[l] = from
        /\ \A m \in Names : thread'[m] = IF m = l THEN to ELSE thread[m]
    BY DEF ThreadGoes, IInv, TypeOK
  <1>2. StartedInOrder'
    BY <1>1, StartedInOrderKept
  <1> QED
    BY <1>1, <1>2

LEMMA CheckStep ==
  ASSUME IInv, NEW l \in Names, Check(l)
  PROVE  IInv'
  <1> DEFINE to == IF running[l] THEN "enter" ELSE "ended"
  <1>1. to \in ThreadSteps /\ to # "none"
    BY DEF ThreadSteps
  <1>2. /\ ThreadGoes(l, "check", to)
        /\ UNCHANGED <<running, mutex, timedOut, owner, logged, late>>
    BY DEF Check
  <1>3. /\ thread' \in [Names -> ThreadSteps] /\ StartedInOrder'
        /\ \A m \in Names : thread'[m] = IF m = l THEN to ELSE thread[m]
    BY <1>1, <1>2, ThreadMoves
  <1>4. TypeOK'
    BY <1>2, <1>3 DEF IInv, TypeOK
  <1>5. LateIsDecided' /\ EndsOnlyWhenStopped'
    BY <1>2, <1>3 DEF IInv, TypeOK, LateIsDecided, EndsOnlyWhenStopped
  <1> QED
    BY <1>3, <1>4, <1>5 DEF IInv

LEMMA CallStep ==
  ASSUME IInv, NEW l \in Names, Call(l)
  PROVE  IInv'
  <1>1. /\ ThreadGoes(l, "enter", "func")
        /\ late' = [late EXCEPT ![l] = IF running[l] THEN @ ELSE @ + 1]
        /\ UNCHANGED <<running, mutex, timedOut, owner, logged>>
    BY DEF Call
  <1>2. /\ thread' \in [Names -> ThreadSteps] /\ StartedInOrder' /\ thread[l] = "enter"
        /\ \A m \in Names : thread'[m] = IF m = l THEN "func" ELSE thread[m]
    BY <1>1, ThreadMoves DEF ThreadSteps
  <1>3. late[l] = 0
    BY <1>2 DEF IInv, LateIsDecided
  <1>4. /\ \A m \in Names : late'[m] = IF m = l THEN (IF running[l] THEN 0 ELSE 1) ELSE late[m]
        /\ late' \in [Names -> Nat]
    BY <1>1, <1>3 DEF IInv, TypeOK
  <1>5. TypeOK'
    BY <1>1, <1>2, <1>4 DEF IInv, TypeOK
  <1>6. LateIsDecided' /\ EndsOnlyWhenStopped'
    BY <1>1, <1>2, <1>4 DEF IInv, LateIsDecided, EndsOnlyWhenStopped
  <1> QED
    BY <1>2, <1>5, <1>6 DEF IInv

LEMMA ReturnStep ==
  ASSUME IInv, NEW l \in Names, Return(l)
  PROVE  IInv'
  <1> PICK to \in {"check", "lock"} : ThreadGoes(l, "func", to)
    BY DEF Return
  <1>1. to \in ThreadSteps /\ to # "none"
    BY DEF ThreadSteps
  <1>2. /\ thread' \in [Names -> ThreadSteps] /\ StartedInOrder'
        /\ \A m \in Names : thread'[m] = IF m = l THEN to ELSE thread[m]
    BY <1>1, ThreadMoves DEF Return
  <1>3. TypeOK'
    BY <1>2 DEF Return, IInv, TypeOK
  <1>4. LateIsDecided' /\ EndsOnlyWhenStopped'
    BY <1>2 DEF Return, IInv, LateIsDecided, EndsOnlyWhenStopped
  <1> QED
    BY <1>2, <1>3, <1>4 DEF IInv

LEMMA LockStep ==
  ASSUME IInv, NEW l \in Names, Lock(l)
  PROVE  IInv'
  <1> PICK from \in {"lock", "relock"} : ThreadGoes(l, from, "predicate")
    BY DEF Lock
  <1>1. /\ thread' \in [Names -> ThreadSteps] /\ StartedInOrder'
        /\ \A m \in Names : thread'[m] = IF m = l THEN "predicate" ELSE thread[m]
    BY ThreadMoves DEF Lock, ThreadSteps
  <1>2. TypeOK'
    BY <1>1 DEF Lock, IInv, TypeOK
  <1>3. LateIsDecided' /\ EndsOnlyWhenStopped'
    BY <1>1 DEF Lock, IInv, LateIsDecided, EndsOnlyWhenStopped
  <1> QED
    BY <1>1, <1>2, <1>3 DEF IInv

LEMMA PredicateStep ==
  ASSUME IInv, NEW l \in Names, Predicate(l)
  PROVE  IInv' /\ (thread'[l] = "ended" => ~running[l])
  <1> PICK to \in {"ended", "check", "waiting"} :
        ThreadGoes(l, "predicate", to) /\ (to = "ended" => ~running[l])
    BY DEF Predicate
  <1>1. to \in ThreadSteps /\ to # "none"
    BY DEF ThreadSteps
  <1>2. /\ thread' \in [Names -> ThreadSteps] /\ StartedInOrder'
        /\ \A m \in Names : thread'[m] = IF m = l THEN to ELSE thread[m]
    BY <1>1, ThreadMoves DEF Predicate
  <1>3. TypeOK'
    BY <1>2 DEF Predicate, IInv, TypeOK
  <1>4. LateIsDecided' /\ EndsOnlyWhenStopped'
    BY <1>2 DEF Predicate, IInv, LateIsDecided, EndsOnlyWhenStopped
  <1> QED
    BY <1>2, <1>3, <1>4 DEF IInv

LEMMA WakeUpStep ==
  ASSUME IInv, NEW l \in Names, NEW timeout \in BOOLEAN, WakeUp(l, timeout)
  PROVE  IInv'
  <1>1. /\ thread' \in [Names -> ThreadSteps] /\ StartedInOrder'
        /\ \A m \in Names : thread'[m] = IF m = l THEN "relock" ELSE thread[m]
    BY ThreadMoves DEF WakeUp, ThreadSteps
  <1>2. TypeOK'
    BY <1>1 DEF WakeUp, IInv, TypeOK
  <1>3. LateIsDecided' /\ EndsOnlyWhenStopped'
    BY <1>1 DEF WakeUp, IInv, LateIsDecided, EndsOnlyWhenStopped
  <1> QED
    BY <1>1, <1>2, <1>3 DEF IInv
-----------------------------------------------------------------------------
LEMMA InitEstablishesIInv == Init => IInv
  <1> SUFFICES ASSUME Init PROVE IInv
    OBVIOUS
  <1>1. TypeOK
    BY LoopsFacts DEF Init, TypeOK, ThreadSteps
  <1>2. StartedInOrder
    BY LoopsFacts DEF Init, StartedInOrder, ToStart
  <1>3. LateIsDecided /\ EndsOnlyWhenStopped
    BY DEF Init, LateIsDecided, EndsOnlyWhenStopped
  <1> QED
    BY <1>1, <1>2, <1>3 DEF IInv

LEMMA NextKeepsIInv == IInv /\ [Next]_vars => IInv'
  <1> SUFFICES ASSUME IInv, [Next]_vars PROVE IInv'
    OBVIOUS
  <1>1. CASE UNCHANGED vars
    BY <1>1
    DEF vars, IInv, TypeOK, StartedInOrder, ToStart, LateIsDecided, EndsOnlyWhenStopped
  <1>2. ASSUME NEW l \in Names, Owner(l) PROVE IInv'
    BY <1>2, StartStep, ShutdownLockStep, ShutdownStopStep, ShutdownNotifyStep, ShutdownLogStep
    DEF Owner
  <1>3. ASSUME NEW l \in Names, ThreadStep(l) PROVE IInv'
    BY <1>3, CheckStep, CallStep, ReturnStep, LockStep, PredicateStep DEF ThreadStep
  <1> QED
    BY <1>1, <1>2, <1>3, WakeUpStep DEF Next

THEOREM Invariance == Spec => []IInv
  BY InitEstablishesIInv, NextKeepsIInv, PTL DEF Spec

(* Every variable keeps its type, for any number of loops.                 *)
THEOREM TypeCorrect == Spec => []TypeOK
  <1>1. IInv => TypeOK
    BY DEF IInv
  <1> QED
    BY <1>1, Invariance, PTL

(* After the stop a function is called at most once more, and only a loop  *)
(* that was stopped ends.                                                  *)
THEOREM StopsInTime == Spec => [](OneLateCall /\ EndsOnlyWhenStopped)
  <1>1. IInv => OneLateCall /\ EndsOnlyWhenStopped
    BY DEF IInv, LateIsDecided, OneLateCall
  <1> QED
    BY <1>1, Invariance, PTL
-----------------------------------------------------------------------------
(* The refinement.                                                         *)

LEMMA PhaseValues ==
  /\ PhaseOf("none") = "off" /\ PhaseOf("enter") = "decided"
  /\ PhaseOf("func") = "busy" /\ PhaseOf("ended") = "ended"
  /\ \A step \in {"check", "lock", "predicate", "waiting", "relock"} : PhaseOf(step) = "idle"
  BY DEF PhaseOf

LEMMA PhaseMoves ==
  ASSUME IInv, NEW l \in Names, NEW from, NEW to, ThreadGoes(l, from, to)
  PROVE  /\ Phase[l] = PhaseOf(from)
         /\ Phase' = [Phase EXCEPT ![l] = PhaseOf(to)]
  <1>1. thread[l] = from /\ thread' = [thread EXCEPT ![l] = to]
    BY DEF ThreadGoes
  <1>2. \A m \in Names : thread'[m] = IF m = l THEN to ELSE thread[m]
    BY <1>1 DEF IInv, TypeOK
  <1>3. \A m \in Names : PhaseOf(thread[m])' = PhaseOf(thread'[m])
    BY DEF PhaseOf
  <1>4. Phase' = [m \in Names |-> IF m = l THEN PhaseOf(to) ELSE PhaseOf(thread[m])]
    BY <1>2, <1>3 DEF Phase
  <1> QED
    BY <1>1, <1>4 DEF Phase

LEMMA OwnerRefines ==
  ASSUME IInv, NEW l \in Names, Owner(l)
  PROVE  Task!Next \/ UNCHANGED <<running, Phase>>
  <1>1. CASE Start(l)
    <2>1. /\ thread[l] = "none"
          /\ running' = [running EXCEPT ![l] = TRUE]
          /\ ThreadGoes(l, "none", "check")
      BY <1>1, StartStep DEF Start, ThreadGoes
    <2>2. Phase' = [Phase EXCEPT ![l] = "idle"] /\ Phase[l] = "off"
      BY <2>1, PhaseMoves, PhaseValues
    <2> QED
      BY <2>1, <2>2 DEF Task!Next, Task!Start, Task!MoveTo
  <1>2. CASE ShutdownStop(l)
    <2>1. Phase[l] # "off"
      <3>1. thread[l] \in ThreadSteps \ {"none"}
        BY <1>2, ShutdownStopStep DEF IInv, TypeOK
      <3> QED
        BY <3>1 DEF Phase, PhaseOf
    <2> QED
      BY <1>2, <2>1 DEF ShutdownStop, Task!Next, Task!Stop, Phase
  <1>3. CASE ShutdownNotify(l)
    <2>1. \A m \in Names : \/ thread'[m] = thread[m]
                           \/ thread[m] = "waiting" /\ thread'[m] = "relock"
      BY <1>3 DEF ShutdownNotify, IInv, TypeOK
    <2>2. \A m \in Names : PhaseOf(thread'[m]) = PhaseOf(thread[m])
      BY <2>1, PhaseValues
    <2> QED
      BY <1>3, <2>2 DEF ShutdownNotify, Phase
  <1>4. CASE ShutdownLock(l) \/ ShutdownLog(l)
    BY <1>4 DEF ShutdownLock, ShutdownLog, Phase
  <1> QED
    BY <1>1, <1>2, <1>3, <1>4 DEF Owner

LEMMA ThreadRefines ==
  ASSUME IInv, NEW l \in Names, ThreadStep(l) \/ \E timeout \in BOOLEAN : WakeUp(l, timeout)
  PROVE  Task!Next \/ UNCHANGED <<running, Phase>>
  <1>1. CASE Check(l) /\ running[l]
    <2>1. ThreadGoes(l, "check", "enter") /\ UNCHANGED running
      BY <1>1 DEF Check
    <2>2. Phase' = [Phase EXCEPT ![l] = "decided"] /\ Phase[l] = "idle"
      BY <2>1, PhaseMoves, PhaseValues
    <2> QED
      BY <1>1, <2>1, <2>2 DEF Task!Next, Task!Decide, Task!MoveTo
  <1>2. CASE (Check(l) \/ Predicate(l)) /\ ~running[l]
    <2>1. \E from \in {"check", "predicate"} : ThreadGoes(l, from, "ended")
      <3>1. CASE Check(l)
        BY <1>2, <3>1 DEF Check
      <3>2. CASE Predicate(l)
        BY <1>2, <3>2 DEF Predicate
      <3> QED
        BY <1>2, <3>1, <3>2
    <2>2. Phase' = [Phase EXCEPT ![l] = "ended"] /\ Phase[l] = "idle"
      BY <2>1, PhaseMoves, PhaseValues
    <2> QED
      BY <1>2, <2>2 DEF Check, Predicate, Task!Next, Task!Finish, Task!MoveTo
  <1>3. CASE Call(l)
    <2>1. Phase' = [Phase EXCEPT ![l] = "busy"] /\ Phase[l] = "decided"
      BY <1>3, PhaseMoves, PhaseValues DEF Call
    <2> QED
      BY <1>3, <2>1 DEF Call, Task!Next, Task!Begin, Task!MoveTo
  <1>4. CASE Return(l)
    <2>1. PICK to \in {"check", "lock"} : ThreadGoes(l, "func", to)
      BY <1>4 DEF Return
    <2>2. Phase' = [Phase EXCEPT ![l] = "idle"] /\ Phase[l] = "busy"
      BY <2>1, PhaseMoves, PhaseValues
    <2> QED
      BY <1>4, <2>2 DEF Return, Task!Next, Task!End, Task!MoveTo
  <1>5. CASE \/ Lock(l)
             \/ Predicate(l) /\ running[l]
             \/ \E timeout \in BOOLEAN : WakeUp(l, timeout)
    <2>1. PICK from \in {"lock", "relock", "predicate", "waiting"},
               to \in {"predicate", "check", "waiting", "relock"} : ThreadGoes(l, from, to)
      BY <1>5 DEF Lock, Predicate, WakeUp
    <2>2. Phase' = [Phase EXCEPT ![l] = "idle"] /\ Phase[l] = "idle"
      BY <2>1, PhaseMoves, PhaseValues
    <2>3. Phase' = Phase
      BY <2>2 DEF Phase
    <2> QED
      BY <1>5, <2>3 DEF Lock, Predicate, WakeUp
  <1> QED
    BY <1>1, <1>2, <1>3, <1>4, <1>5 DEF ThreadStep, IInv, TypeOK

(* Every loop implements a periodic task.                                  *)
THEOREM RefinesPeriodicTask == Spec => ImplementsPeriodicTask
  <1>1. Init => Task!Init
    BY PhaseValues DEF Init, Task!Init, Phase
  <1>2. IInv /\ [Next]_vars => [Task!Next]_(Task!taskVars)
    <2> SUFFICES ASSUME IInv, [Next]_vars
                 PROVE  Task!Next \/ UNCHANGED <<running, Phase>>
      BY DEF Task!taskVars
    <2>1. CASE UNCHANGED vars
      BY <2>1 DEF vars, Phase
    <2> QED
      BY <2>1, OwnerRefines, ThreadRefines DEF Next
  <1> QED
    BY <1>1, <1>2, Invariance, PTL DEF Spec, ImplementsPeriodicTask, Task!Spec
=============================================================================
