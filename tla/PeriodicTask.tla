---------------------------- MODULE PeriodicTask ----------------------------
(***************************************************************************)
(* What a periodic task promises: its function runs again and again while  *)
(* the task is on, never two runs at once; once it is stopped no further   *)
(* run is decided on, a run decided on before may still happen, and after  *)
(* the end nothing runs.                                                   *)
(***************************************************************************)
CONSTANT Tasks

VARIABLES on, phase

taskVars == <<on, phase>>

Phases == {"off", "idle", "decided", "busy", "ended"}

Init ==
  /\ on = [t \in Tasks |-> FALSE]
  /\ phase = [t \in Tasks |-> "off"]

MoveTo(t, from, to) == phase[t] = from /\ phase' = [phase EXCEPT ![t] = to]

Start(t) == MoveTo(t, "off", "idle") /\ on' = [on EXCEPT ![t] = TRUE]

Decide(t) == on[t] /\ MoveTo(t, "idle", "decided") /\ UNCHANGED on

Begin(t) == MoveTo(t, "decided", "busy") /\ UNCHANGED on

End(t) == MoveTo(t, "busy", "idle") /\ UNCHANGED on

Stop(t) == phase[t] # "off" /\ on' = [on EXCEPT ![t] = FALSE] /\ UNCHANGED phase

Finish(t) == ~on[t] /\ MoveTo(t, "idle", "ended") /\ UNCHANGED on

Next == \E t \in Tasks :
  Start(t) \/ Decide(t) \/ Begin(t) \/ End(t) \/ Stop(t) \/ Finish(t)

Spec == Init /\ [][Next]_taskVars
=============================================================================
