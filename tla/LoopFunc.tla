------------------------------ MODULE LoopFunc ------------------------------
(***************************************************************************)
(* class LoopFunc: every loop has a thread that calls its function, then   *)
(* sleeps on a condition variable for the rest of the period.  The owner   *)
(* (RL_Sim, RL_Real) starts its loops one after the other in its           *)
(* constructor and shuts them down one after the other in its destructor.  *)
(* start() detaches the thread, so shutdown() finds it not joinable.       *)
(***************************************************************************)
EXTENDS Naturals, Sequences, Functions

CONSTANT Loops   \* the owner's loops, in the order they are shut down

ASSUME LoopsAssumption ==
  /\ Loops \in Seq(Range(Loops)) /\ Loops # <<>>
  /\ IsInjective(Loops)

VARIABLES
  running,   \* _running
  mutex,     \* who holds _mutex: "free", "thread" or "owner"
  thread,    \* where the loop's thread is
  timedOut,  \* the wait ended because the period is over
  owner,     \* what the owner does next to which of its loops
  logged,    \* "[Loop] Loop end" was printed
  late       \* history: calls of _func begun since _running became false

vars == <<running, mutex, thread, timedOut, owner, logged, late>>

Names == Range(Loops)

ThreadSteps == {"none", "check", "enter", "func", "lock", "predicate", "waiting",
                "relock", "ended"}
-----------------------------------------------------------------------------
(* The owner.                                                              *)

At(step, l) == owner.step = step /\ l = Loops[owner.at]

OwnerGoes(step) == owner' = [owner EXCEPT !.step = step]

(* Moves on to the next loop, or from the last start to the first shutdown.*)
OwnerAdvances(step, after) ==
  owner' = IF owner.at < Len(Loops)
           THEN [step |-> step, at |-> owner.at + 1]
           ELSE [step |-> after, at |-> 1]

Start(l) ==
  /\ At("start", l)
  /\ running' = [running EXCEPT ![l] = TRUE]
  /\ thread' = [thread EXCEPT ![l] = "check"]
  /\ OwnerAdvances("start", "lock")
  /\ UNCHANGED <<mutex, timedOut, logged, late>>

ShutdownLock(l) ==
  /\ At("lock", l)
  /\ mutex[l] = "free"
  /\ mutex' = [mutex EXCEPT ![l] = "owner"]
  /\ OwnerGoes("stop")
  /\ UNCHANGED <<running, thread, timedOut, logged, late>>

ShutdownStop(l) ==
  /\ At("stop", l)
  /\ running' = [running EXCEPT ![l] = FALSE]
  /\ OwnerGoes("notify")
  /\ UNCHANGED <<mutex, thread, timedOut, logged, late>>

ShutdownForgetsNotify(l) ==  \* mutant: _cv.notify_one() is missing
  /\ At("notify", l)
  /\ mutex' = [mutex EXCEPT ![l] = "free"]
  /\ OwnerGoes("log")
  /\ UNCHANGED <<running, thread, timedOut, logged, late>>

(* notify_one, then the lock goes out of scope.                            *)
ShutdownNotify(l) ==
  /\ At("notify", l)
  /\ thread' = [thread EXCEPT ![l] = IF @ = "waiting" THEN "relock" ELSE @]
  /\ mutex' = [mutex EXCEPT ![l] = "free"]
  /\ OwnerGoes("log")
  /\ UNCHANGED <<running, timedOut, logged, late>>

(* The detached thread is not joinable: no join, only the message.         *)
ShutdownLog(l) ==
  /\ At("log", l)
  /\ logged' = [logged EXCEPT ![l] = TRUE]
  /\ OwnerAdvances("lock", "gone")
  /\ UNCHANGED <<running, mutex, thread, timedOut, late>>
-----------------------------------------------------------------------------
(* The thread: loop().                                                     *)

ThreadGoes(l, from, to) == thread[l] = from /\ thread' = [thread EXCEPT ![l] = to]

CheckIgnored(l) ==  \* mutant: while (true)
  /\ ThreadGoes(l, "check", "enter")
  /\ UNCHANGED <<running, mutex, timedOut, owner, logged, late>>

(* while (_running)                                                        *)
Check(l) ==
  /\ ThreadGoes(l, "check", IF running[l] THEN "enter" ELSE "ended")
  /\ UNCHANGED <<running, mutex, timedOut, owner, logged, late>>

Call(l) ==
  /\ ThreadGoes(l, "enter", "func")
  /\ late' = [late EXCEPT ![l] = IF running[l] THEN @ ELSE @ + 1]
  /\ UNCHANGED <<running, mutex, timedOut, owner, logged>>

(* _func returns; a run as long as the period leaves nothing to sleep.     *)
Return(l) ==
  /\ \E to \in {"check", "lock"} : ThreadGoes(l, "func", to)
  /\ timedOut' = [timedOut EXCEPT ![l] = FALSE]
  /\ UNCHANGED <<running, mutex, owner, logged, late>>

Lock(l) ==
  /\ \/ ThreadGoes(l, "lock", "predicate")
     \/ ThreadGoes(l, "relock", "predicate")
  /\ mutex[l] = "free"
  /\ mutex' = [mutex EXCEPT ![l] = "thread"]
  /\ UNCHANGED <<running, timedOut, owner, logged, late>>

(* wait_for tests the predicate under the lock and releases it to wait.    *)
Predicate(l) ==
  /\ ThreadGoes(l, "predicate",
                IF ~running[l] THEN "ended" ELSE IF timedOut[l] THEN "check" ELSE "waiting")
  /\ mutex' = [mutex EXCEPT ![l] = "free"]
  /\ UNCHANGED <<running, timedOut, owner, logged, late>>

(* The period is over, or the wait ends for no reason.                     *)
WakeUp(l, timeout) ==
  /\ ThreadGoes(l, "waiting", "relock")
  /\ timedOut' = [timedOut EXCEPT ![l] = timeout]
  /\ UNCHANGED <<running, mutex, owner, logged, late>>
-----------------------------------------------------------------------------
Init ==
  /\ running = [l \in Names |-> FALSE]
  /\ mutex = [l \in Names |-> "free"]
  /\ thread = [l \in Names |-> "none"]
  /\ timedOut = [l \in Names |-> FALSE]
  /\ owner = [step |-> "start", at |-> 1]
  /\ logged = [l \in Names |-> FALSE]
  /\ late = [l \in Names |-> 0]

Owner(l) ==
  Start(l) \/ ShutdownLock(l) \/ ShutdownStop(l) \/ ShutdownNotify(l) \/ ShutdownLog(l)

ThreadStep(l) == Check(l) \/ Call(l) \/ Return(l) \/ Lock(l) \/ Predicate(l)

Next == \E l \in Names :
  Owner(l) \/ ThreadStep(l) \/ \E timeout \in BOOLEAN : WakeUp(l, timeout)

Spec == Init /\ [][Next]_vars

(* The owner and the threads keep going; no wait is ever sure to time out, *)
(* so a wakeup that shutdown() loses is not covered up by the next timeout.*)
FairSpec == Spec /\ \A l \in Names : WF_vars(Owner(l)) /\ WF_vars(ThreadStep(l))
-----------------------------------------------------------------------------
TypeOK ==
  /\ running \in [Names -> BOOLEAN] /\ logged \in [Names -> BOOLEAN]
  /\ timedOut \in [Names -> BOOLEAN]
  /\ mutex \in [Names -> {"free", "thread", "owner"}]
  /\ thread \in [Names -> ThreadSteps]
  /\ owner \in [step : {"start", "lock", "stop", "notify", "log", "gone"},
                at : DOMAIN Loops]
  /\ late \in [Names -> Nat]

(* After shutdown() set _running to false, _func is called at most once    *)
(* more: by a thread that had already tested _running.                     *)
OneLateCall == \A l \in Names : late[l] <= 1

(* Only the end of the loop ends a loop: a thread that left loop() belongs *)
(* to a loop that was shut down.                                           *)
EndsOnlyWhenStopped == \A l \in Names : thread[l] = "ended" => ~running[l]

(* A loop that was shut down ends, even if no wait ever times out: the     *)
(* notification cannot fall between the test of the predicate and the wait.*)
ThreadEnds == \A l \in Names : logged[l] ~> thread[l] = "ended"

(* Every loop is a periodic task.                                          *)
PhaseOf(step) ==
  CASE step = "none"  -> "off"
    [] step = "enter" -> "decided"
    [] step = "func"  -> "busy"
    [] step = "ended" -> "ended"
    [] OTHER          -> "idle"

Phase == [l \in Names |-> PhaseOf(thread[l])]

Task == INSTANCE PeriodicTask WITH Tasks <- Names, on <- running, phase <- Phase

(* A loop implements a periodic task: no call overlaps another, none is    *)
(* decided on after the stop, none happens after the end.                  *)
ImplementsPeriodicTask == Task!Spec
=============================================================================
