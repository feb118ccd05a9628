--------------------------- MODULE Go2Fsm_proofs ---------------------------
(***************************************************************************)
(* Proofs about Go2Fsm, for any number of interpolation frames and any     *)
(* joint orders.                                                           *)
(***************************************************************************)
EXTENDS Go2Fsm, TLAPS

(* A transition that is under way was asked for by a CheckChange that      *)
(* allows it, or by the catch blocks of RLLocomotion.                      *)
ChangeAllowed ==
  mode = "CHANGE" =>
    /\ next # current
    /\ next = "RL" => current = "GetUp" /\ getup >= GetUpFrames
    /\ next = "GetDown" => current = "RL" \/ (current = "GetUp" /\ getup >= GetUpFrames)

(* The inductive invariant.                                                *)
IInv ==
  /\ TypeOK
  /\ ChangeAllowed
  /\ PolicyGuarded
  /\ FailedInitLeaves
  /\ CommandOwner
  /\ JointOrderKept
-----------------------------------------------------------------------------
(* Interpolate stays within its frames and never goes back.                *)
LEMMA InterpolateBounds ==
  ASSUME NEW frames \in Nat \ {0}, NEW percent \in 0..frames, NEW near \in BOOLEAN
  PROVE  /\ Interpolate(percent, frames, near) \in 0..frames
         /\ Interpolate(percent, frames, near) >= percent
         /\ percent >= frames => Interpolate(percent, frames, near) = percent
  BY DEF Interpolate

(* GetUp::Run keeps the types, only makes progress, and writes a getup     *)
(* command or nothing.                                                     *)
LEMMA GetUpRunEffect ==
  ASSUME NEW fromPassive \in BOOLEAN, NEW now \in Orders,
         NEW pre \in 0..PreGetUpFrames,
         NEW up \in 0..(IF fromPassive THEN StandFrames ELSE RiseFrames),
         command \in [by : Writers, orders : SUBSET Orders], order \in Orders,
         GetUpRun(pre, up, fromPassive, now)
  PROVE  /\ preGetup' \in 0..PreGetUpFrames
         /\ getup' \in 0..(IF fromPassive THEN StandFrames ELSE RiseFrames)
         /\ getup' >= up
         /\ command' \in [by : Writers, orders : SUBSET Orders]
         /\ command'.by = "getup" \/ (command' = command /\ up # 0)
         /\ UNCHANGED <<getdown, transition>>
  <1> DEFINE frames == IF fromPassive THEN StandFrames ELSE RiseFrames
  <1>1. PICK nearPre \in BOOLEAN, near \in BOOLEAN :
          LET pre1 == IF fromPassive THEN Interpolate(pre, PreGetUpFrames, nearPre) ELSE pre
              ready == fromPassive => pre1 >= PreGetUpFrames
              from == IF fromPassive THEN LegOrder ELSE now
          IN /\ preGetup' = pre1
             /\ getup' = IF ready THEN Interpolate(up, frames, near) ELSE up
             /\ command' = CASE ready /\ up < frames -> Written("getup", {from, order})
                             [] ~ready               -> Written("getup", {now, LegOrder})
                             [] OTHER                -> command
             /\ UNCHANGED <<getdown, transition>>
    BY DEF GetUpRun
  <1>2. frames \in Nat \ {0} /\ PreGetUpFrames \in Nat \ {0}
    BY FramesAssumption
  <1>3. /\ Interpolate(pre, PreGetUpFrames, nearPre) \in 0..PreGetUpFrames
        /\ Interpolate(up, frames, near) \in 0..frames
        /\ Interpolate(up, frames, near) >= up
    BY <1>2, InterpolateBounds
  <1>4. /\ preGetup' \in 0..PreGetUpFrames
        /\ getup' \in 0..frames
        /\ getup' >= up
    BY <1>1, <1>3
  <1>5. \/ command' \in {Written("getup", {LegOrder, order}),
                         Written("getup", {now, order}),
                         Written("getup", {now, LegOrder})}
        \/ (command' = command /\ up # 0)
    <2>1. CASE up < frames
      BY <1>1, <2>1
    <2>2. CASE up >= frames
      BY <1>1, <1>2, <2>2
    <2> QED
      BY <1>2, <2>1, <2>2
  <1>6. /\ command' \in [by : Writers, orders : SUBSET Orders]
        /\ command'.by = "getup" \/ (command' = command /\ up # 0)
    BY <1>5 DEF Written, Writers, Orders
  <1> QED
    BY <1>1, <1>4, <1>6

(* GetDown::Run: the same for the way down.                                *)
LEMMA GetDownRunEffect ==
  ASSUME NEW now \in Orders, NEW down \in 0..GetDownFrames,
         command \in [by : Writers, orders : SUBSET Orders], startOrder \in Orders,
         GetDownRun(down, now)
  PROVE  /\ getdown' \in 0..GetDownFrames
         /\ command' \in [by : Writers, orders : SUBSET Orders]
         /\ command'.by = "getdown" \/ (command' = command /\ down # 0)
         /\ UNCHANGED <<preGetup, getup, transition>>
  <1>1. PICK near \in BOOLEAN :
          /\ getdown' = Interpolate(down, GetDownFrames, near)
          /\ command' = IF down < GetDownFrames
                        THEN Written("getdown", {now, startOrder}) ELSE command
          /\ UNCHANGED <<preGetup, getup, transition>>
    BY DEF GetDownRun
  <1>2. getdown' \in 0..GetDownFrames
    BY <1>1, InterpolateBounds, FramesAssumption
  <1>3. \/ command' = Written("getdown", {now, startOrder})
        \/ (command' = command /\ down # 0)
    BY <1>1, FramesAssumption
  <1>4. /\ command' \in [by : Writers, orders : SUBSET Orders]
        /\ command'.by = "getdown" \/ (command' = command /\ down # 0)
    BY <1>3 DEF Written, Writers, Orders
  <1> QED
    BY <1>1, <1>2, <1>4

(* What RLLocomotion::Run writes is in the order of the parameters it      *)
(* reads, if the state it interpolates from is.                            *)
RLCommand(c, now, o) ==
  /\ c \in [by : Writers, orders : SUBSET Orders]
  /\ WriterOf(c.by) = "RL"
  /\ c.orders \subseteq {now, o}

LEMMA RLCommands ==
  ASSUME NEW now \in Orders, NEW o \in Orders
  PROVE  /\ RLCommand(Written("transition", {now, o}), now, o)
         /\ RLCommand(Written("hold", {o}), now, o)
         /\ RLCommand(Written("policy", {o}), now, o)
  BY DEF RLCommand, Written, Writers, WriterOf, Orders

(* RLLocomotion::Run without an exception.  It engages the policy only     *)
(* with the transition complete, and withdraws it only to hold.            *)
LEMMA RLRunEffect ==
  ASSUME NEW done \in 0..TransitionFrames, NEW now \in Orders, NEW engaged \in BOOLEAN,
         order' \in Orders,
         engaged => done = TransitionFrames,
         RLRun(done, now, engaged)
  PROVE  /\ transition' \in 0..TransitionFrames
         /\ rlInitDone' \in BOOLEAN
         /\ rlInitDone' => transition' = TransitionFrames
         /\ engaged /\ ~rlInitDone' => command'.by = "hold"
         /\ RLCommand(command', now, order') \/ (command' = command /\ done # 0)
         /\ UNCHANGED <<preGetup, getup, getdown>>
  <1>1. PICK near \in BOOLEAN :
          LET done1 == Interpolate(done, TransitionFrames, near)
              moved == IF done < TransitionFrames
                       THEN Written("transition", {now, order'}) ELSE command
          IN /\ transition' = done1
             /\ \/ /\ done1 < TransitionFrames
                   /\ command' = moved
                   /\ rlInitDone' = engaged
                \/ /\ done1 >= TransitionFrames
                   /\ HoldZeroCommand
                   /\ command' = Written("hold", {order'})
                   /\ rlInitDone' = FALSE
                \/ /\ done1 >= TransitionFrames
                   /\ command' \in {moved, Written("policy", {order'})}
                   /\ rlInitDone' = TRUE
             /\ UNCHANGED <<preGetup, getup, getdown>>
    BY DEF RLRun
  <1>2. TransitionFrames \in Nat \ {0}
    BY FramesAssumption
  <1>3. /\ transition' \in 0..TransitionFrames
        /\ transition' >= done
    BY <1>1, <1>2, InterpolateBounds
  <1>4. /\ rlInitDone' \in BOOLEAN
        /\ rlInitDone' => transition' = TransitionFrames
        /\ engaged /\ ~rlInitDone' => command' = Written("hold", {order'})
    <2>1. engaged => ~(transition' < TransitionFrames)
      BY <1>2, <1>3
    <2>2. transition' >= TransitionFrames => transition' = TransitionFrames
      BY <1>2, <1>3
    <2>3. \/ transition' < TransitionFrames /\ rlInitDone' = engaged
          \/ /\ transition' >= TransitionFrames
             /\ rlInitDone' = FALSE
             /\ command' = Written("hold", {order'})
          \/ transition' >= TransitionFrames /\ rlInitDone' = TRUE
      BY <1>1, Zenon
    <2>4. CASE transition' < TransitionFrames /\ rlInitDone' = engaged
      <3>1. engaged = FALSE
        BY <2>1, <2>4
      <3> QED
        BY <2>4, <3>1
    <2>5. CASE /\ transition' >= TransitionFrames
               /\ rlInitDone' = FALSE
               /\ command' = Written("hold", {order'})
      BY <2>5
    <2>6. CASE transition' >= TransitionFrames /\ rlInitDone' = TRUE
      BY <2>2, <2>6
    <2> QED
      BY <2>3, <2>4, <2>5, <2>6
  <1>5. engaged /\ ~rlInitDone' => command'.by = "hold"
    BY <1>4 DEF Written
  <1>6. \/ command' \in {Written("transition", {now, order'}), Written("hold", {order'}),
                         Written("policy", {order'})}
        \/ (command' = command /\ done # 0)
    BY <1>1, <1>2
  <1>7. RLCommand(command', now, order') \/ (command' = command /\ done # 0)
    BY <1>6, RLCommands
  <1> QED
    BY <1>1, <1>3, <1>4, <1>5, <1>7

(* RLLocomotion::Run cut short by an exception.                            *)
LEMMA RLRunThrowsEffect ==
  ASSUME NEW done \in 0..TransitionFrames, NEW now \in Orders,
         order' \in Orders,
         RLRunThrows(done, now)
  PROVE  /\ transition' \in 0..TransitionFrames
         /\ rlInitDone' = FALSE
         /\ RLCommand(command', now, order') \/ command' = command
         /\ UNCHANGED <<preGetup, getup, getdown>>
  <1>1. PICK near \in BOOLEAN :
          LET done1 == Interpolate(done, TransitionFrames, near)
          IN /\ \/ transition' = done /\ command' = command
                \/ transition' = done1 /\ command' = command
                \/ /\ done < TransitionFrames
                   /\ transition' = done1
                   /\ command' = Written("transition", {now, order'})
             /\ rlInitDone' = FALSE
             /\ UNCHANGED <<preGetup, getup, getdown>>
    BY DEF RLRunThrows
  <1>2. transition' \in 0..TransitionFrames
    BY <1>1, FramesAssumption, InterpolateBounds
  <1>3. RLCommand(command', now, order') \/ command' = command
    BY <1>1, RLCommands
  <1> QED
    BY <1>1, <1>2, <1>3
-----------------------------------------------------------------------------
(* The tick, case by case.                                                 *)

LEMMA ClearInputType ==
  ASSUME TypeOK, ClearInput
  PROVE  keyboard' \in Keys /\ lastKeyboard' \in Keys /\ gamepad' \in Buttons
  BY DEF TypeOK, ClearInput, Buttons

LEMMA PassiveTickStep ==
  ASSUME IInv, PassiveTick
  PROVE  IInv'
  <1>1. /\ mode = "NORMAL" /\ current = "Passive"
        /\ command' = Written("damping", {})
        /\ UNCHANGED <<current, previous, percentVars, poseVars, order, model, rlInitDone>>
        /\ ClearInput
        /\ \/ mode' = "CHANGE" /\ next' = "GetUp"
           \/ UNCHANGED <<mode, next>>
    BY DEF PassiveTick, Normal, PassiveRun, ChangeTo
  <1>2. command' \in [by : Writers, orders : SUBSET Orders] /\ command'.by = "damping"
    BY <1>1 DEF Written, Writers
  <1>3. TypeOK'
    BY <1>1, <1>2, ClearInputType
    DEF IInv, TypeOK, States, GetUpFrames, percentVars, poseVars
  <1>4. ChangeAllowed'
    BY <1>1 DEF ChangeAllowed
  <1>5. PolicyGuarded' /\ FailedInitLeaves'
    BY <1>1 DEF IInv, PolicyGuarded, FailedInitLeaves
  <1>6. CommandOwner' /\ JointOrderKept'
    BY <1>1, <1>2 DEF CommandOwner, JointOrderKept, WriterOf
  <1> QED
    BY <1>3, <1>4, <1>5, <1>6 DEF IInv

LEMMA GetUpTickStep ==
  ASSUME IInv, GetUpTick
  PROVE  IInv' /\ getup' >= getup
  <1>1. /\ mode = "NORMAL" /\ current = "GetUp"
        /\ GetUpRun(preGetup, getup, standFromPassive, nowOrder)
        /\ UNCHANGED <<current, previous, poseVars, order, model, rlInitDone>>
        /\ ClearInput
    BY DEF GetUpTick, Normal, ChangeTo
  <1>2. \/ mode' = "CHANGE" /\ next' = "Passive"
        \/ /\ mode' = "CHANGE" /\ next' \in {"RL", "GetDown"}
           /\ getup' >= GetUpFrames
        \/ UNCHANGED <<mode, next>>
    BY <1>1 DEF GetUpTick, ChangeTo, GetUpNext
  <1>3. /\ preGetup' \in 0..PreGetUpFrames
        /\ getup' \in 0..GetUpFrames
        /\ getup' >= getup
        /\ command' \in [by : Writers, orders : SUBSET Orders]
        /\ command'.by = "getup" \/ command' = command
        /\ UNCHANGED <<getdown, transition>>
    BY <1>1, GetUpRunEffect DEF IInv, TypeOK, GetUpFrames
  <1>4. TypeOK'
    BY <1>1, <1>2, <1>3, ClearInputType DEF IInv, TypeOK, States, GetUpFrames, poseVars
  <1>5. ChangeAllowed'
    BY <1>1, <1>2 DEF ChangeAllowed, GetUpFrames, poseVars
  <1>6. PolicyGuarded' /\ FailedInitLeaves'
    BY <1>1 DEF IInv, PolicyGuarded, FailedInitLeaves
  <1>7. WriterOf(command'.by) = "GetUp"
    BY <1>1, <1>3 DEF IInv, CommandOwner, WriterOf
  <1>8. CommandOwner' /\ JointOrderKept'
    BY <1>1, <1>7 DEF IInv, CommandOwner, JointOrderKept, poseVars
  <1> QED
    BY <1>3, <1>4, <1>5, <1>6, <1>8 DEF IInv

LEMMA GetDownTickStep ==
  ASSUME IInv, GetDownTick
  PROVE  IInv'
  <1>1. /\ mode = "NORMAL" /\ current = "GetDown"
        /\ GetDownRun(getdown, nowOrder)
        /\ UNCHANGED <<current, previous, poseVars, order, model, rlInitDone>>
        /\ ClearInput
        /\ \/ mode' = "CHANGE" /\ next' \in {"Passive", "GetUp"}
           \/ UNCHANGED <<mode, next>>
    BY DEF GetDownTick, Normal, ChangeTo, GetDownNext
  <1>2. /\ getdown' \in 0..GetDownFrames
        /\ command' \in [by : Writers, orders : SUBSET Orders]
        /\ command'.by = "getdown" \/ command' = command
        /\ UNCHANGED <<preGetup, getup, transition>>
    BY <1>1, GetDownRunEffect DEF IInv, TypeOK
  <1>3. TypeOK'
    BY <1>1, <1>2, ClearInputType DEF IInv, TypeOK, States, GetUpFrames, poseVars
  <1>4. ChangeAllowed'
    BY <1>1 DEF ChangeAllowed
  <1>5. PolicyGuarded' /\ FailedInitLeaves'
    BY <1>1 DEF IInv, PolicyGuarded, FailedInitLeaves
  <1>6. WriterOf(command'.by) = "GetDown"
    BY <1>1, <1>2 DEF IInv, CommandOwner, WriterOf
  <1>7. CommandOwner' /\ JointOrderKept'
    BY <1>1, <1>6 DEF IInv, CommandOwner, JointOrderKept, poseVars
  <1> QED
    BY <1>3, <1>4, <1>5, <1>7 DEF IInv

LEMMA RLTickStep ==
  ASSUME IInv, RLTick
  PROVE  IInv' /\ (rlInitDone /\ ~rlInitDone' => command'.by = "hold")
  <1>1. /\ mode = "NORMAL" /\ current = "RL" /\ model = "valid"
        /\ RLRun(transition, nowOrder, rlInitDone)
        /\ UNCHANGED <<current, previous, poseVars, order, model>>
        /\ ClearInput
        /\ nowOrder = order
    BY DEF RLTick, Normal, ChangeTo, IInv, FailedInitLeaves, JointOrderKept
  <1>2. \/ mode' = "CHANGE" /\ next' \in {"Passive", "GetDown", "GetUp"}
        \/ UNCHANGED <<mode, next>>
    BY <1>1 DEF RLTick, ChangeTo, RLNext
  <1>3. /\ transition' \in 0..TransitionFrames
        /\ rlInitDone' \in BOOLEAN
        /\ rlInitDone' => transition' = TransitionFrames
        /\ rlInitDone /\ ~rlInitDone' => command'.by = "hold"
        /\ RLCommand(command', nowOrder, order') \/ command' = command
        /\ UNCHANGED <<preGetup, getup, getdown>>
    BY <1>1, RLRunEffect DEF IInv, TypeOK, PolicyGuarded
  <1>4. RLCommand(command', nowOrder, order)
    BY <1>1, <1>3 DEF IInv, TypeOK, CommandOwner, JointOrderKept, RLCommand
  <1>5. TypeOK'
    BY <1>1, <1>2, <1>3, <1>4, ClearInputType
    DEF IInv, TypeOK, States, GetUpFrames, poseVars, RLCommand
  <1>6. ChangeAllowed'
    BY <1>1, <1>2 DEF ChangeAllowed
  <1>7. PolicyGuarded' /\ FailedInitLeaves'
    BY <1>1, <1>3 DEF PolicyGuarded, FailedInitLeaves
  <1>8. CommandOwner' /\ JointOrderKept'
    BY <1>1, <1>4 DEF CommandOwner, JointOrderKept, poseVars, RLCommand
  <1> QED
    BY <1>3, <1>5, <1>6, <1>7, <1>8 DEF IInv

LEMMA RLTickThrowsStep ==
  ASSUME IInv, RLTickThrows
  PROVE  IInv' /\ mode' = "CHANGE"
  <1>1. /\ mode = "NORMAL" /\ current = "RL" /\ model = "valid"
        /\ RLRunThrows(transition, nowOrder)
        /\ UNCHANGED <<current, previous, poseVars, order, model>>
        /\ ClearInput
        /\ nowOrder = order
    BY DEF RLTickThrows, Normal, ChangeTo, IInv, FailedInitLeaves, JointOrderKept
  <1>2. mode' = "CHANGE" /\ next' \in {"Passive", "GetDown", "GetUp"}
    BY <1>1 DEF RLTickThrows, ChangeTo, AfterThrow, RLNext
  <1>3. /\ transition' \in 0..TransitionFrames
        /\ rlInitDone' = FALSE
        /\ RLCommand(command', nowOrder, order') \/ command' = command
        /\ UNCHANGED <<preGetup, getup, getdown>>
    BY <1>1, RLRunThrowsEffect DEF IInv, TypeOK
  <1>4. RLCommand(command', nowOrder, order)
    BY <1>1, <1>3 DEF IInv, TypeOK, CommandOwner, JointOrderKept, RLCommand
  <1>5. TypeOK'
    BY <1>1, <1>2, <1>3, <1>4, ClearInputType
    DEF IInv, TypeOK, States, GetUpFrames, poseVars, RLCommand
  <1>6. ChangeAllowed'
    BY <1>1, <1>2 DEF ChangeAllowed
  <1>7. PolicyGuarded' /\ FailedInitLeaves'
    BY <1>1, <1>3 DEF PolicyGuarded, FailedInitLeaves
  <1>8. CommandOwner' /\ JointOrderKept'
    BY <1>1, <1>4 DEF CommandOwner, JointOrderKept, poseVars, RLCommand
  <1> QED
    BY <1>2, <1>5, <1>6, <1>7, <1>8 DEF IInv

LEMMA EnterPassiveStep ==
  ASSUME IInv, EnterPassive
  PROVE  IInv' /\ current # "Passive"
  <1>1. /\ mode = "CHANGE" /\ next = "Passive" /\ current # "Passive"
        /\ current' = "Passive" /\ previous' = current /\ mode' = "NORMAL"
        /\ command' = Written("damping", {})
        /\ rlInitDone' = FALSE
        /\ UNCHANGED <<next, percentVars, poseVars, order, model>>
        /\ ClearInput
    BY DEF EnterPassive, Entering, ExitCurrent, PassiveRun, IInv, ChangeAllowed, PolicyGuarded
  <1>2. command' \in [by : Writers, orders : SUBSET Orders] /\ command'.by = "damping"
    BY <1>1 DEF Written, Writers
  <1>3. TypeOK'
    BY <1>1, <1>2, ClearInputType
    DEF IInv, TypeOK, States, GetUpFrames, percentVars, poseVars
  <1>4. ChangeAllowed' /\ PolicyGuarded' /\ FailedInitLeaves'
    BY <1>1 DEF ChangeAllowed, PolicyGuarded, FailedInitLeaves
  <1>5. CommandOwner' /\ JointOrderKept'
    BY <1>1, <1>2 DEF CommandOwner, JointOrderKept, WriterOf
  <1> QED
    BY <1>1, <1>3, <1>4, <1>5 DEF IInv

LEMMA EnterGetUpStep ==
  ASSUME IInv, EnterGetUp
  PROVE  IInv' /\ current # "GetUp" /\ rlInitDone' = FALSE
  <1>1. /\ mode = "CHANGE" /\ next = "GetUp" /\ current # "GetUp"
        /\ current' = "GetUp" /\ previous' = current /\ mode' = "NORMAL"
        /\ standFromPassive' = (current = "Passive")
        /\ startFrom' = current /\ startOrder' = order /\ nowOrder' = order
        /\ GetUpRun(0, 0, standFromPassive', nowOrder')
        /\ rlInitDone' = FALSE
        /\ UNCHANGED <<next, order, model>>
        /\ ClearInput
    BY DEF EnterGetUp, Entering, ExitCurrent, IInv, ChangeAllowed, PolicyGuarded
  <1>2. /\ standFromPassive' \in BOOLEAN /\ nowOrder' \in Orders /\ order \in Orders
        /\ command \in [by : Writers, orders : SUBSET Orders]
        /\ 0 \in 0..PreGetUpFrames
        /\ 0 \in 0..(IF standFromPassive' THEN StandFrames ELSE RiseFrames)
    BY <1>1, FramesAssumption DEF IInv, TypeOK
  <1>3. /\ preGetup' \in 0..PreGetUpFrames
        /\ getup' \in 0..GetUpFrames'
        /\ command' \in [by : Writers, orders : SUBSET Orders]
        /\ command'.by = "getup"
        /\ UNCHANGED <<getdown, transition>>
    BY <1>1, <1>2, GetUpRunEffect DEF GetUpFrames
  <1>4. TypeOK'
    BY <1>1, <1>2, <1>3, ClearInputType DEF IInv, TypeOK, States
  <1>5. ChangeAllowed' /\ PolicyGuarded' /\ FailedInitLeaves'
    BY <1>1 DEF ChangeAllowed, PolicyGuarded, FailedInitLeaves
  <1>6. CommandOwner' /\ JointOrderKept'
    BY <1>1, <1>3 DEF CommandOwner, JointOrderKept, WriterOf
  <1> QED
    BY <1>1, <1>4, <1>5, <1>6 DEF IInv

LEMMA EnterGetDownStep ==
  ASSUME IInv, EnterGetDown
  PROVE  IInv' /\ rlInitDone' = FALSE
  <1>1. /\ mode = "CHANGE" /\ next = "GetDown"
        /\ current' = "GetDown" /\ previous' = current /\ mode' = "NORMAL"
        /\ nowOrder' = order
        /\ GetDownRun(0, nowOrder')
        /\ rlInitDone' = FALSE
        /\ UNCHANGED <<next, standFromPassive, startFrom, startOrder, order, model>>
        /\ ClearInput
    BY DEF EnterGetDown, Entering, ExitCurrent, IInv, PolicyGuarded
  <1>2. /\ nowOrder' \in Orders /\ startOrder \in Orders
        /\ command \in [by : Writers, orders : SUBSET Orders]
        /\ 0 \in 0..GetDownFrames
    BY <1>1, FramesAssumption DEF IInv, TypeOK
  <1>3. /\ getdown' \in 0..GetDownFrames
        /\ command' \in [by : Writers, orders : SUBSET Orders]
        /\ command'.by = "getdown"
        /\ UNCHANGED <<preGetup, getup, transition>>
    BY <1>1, <1>2, GetDownRunEffect
  <1>4. TypeOK'
    BY <1>1, <1>2, <1>3, ClearInputType DEF IInv, TypeOK, States, GetUpFrames
  <1>5. ChangeAllowed' /\ PolicyGuarded' /\ FailedInitLeaves'
    BY <1>1 DEF ChangeAllowed, PolicyGuarded, FailedInitLeaves
  <1>6. CommandOwner' /\ JointOrderKept'
    BY <1>1, <1>3 DEF CommandOwner, JointOrderKept, WriterOf
  <1> QED
    BY <1>1, <1>4, <1>5, <1>6 DEF IInv

(* RLLocomotion is entered from a completed GetUp only, so that a get-up   *)
(* command is the only one it can inherit.                                 *)
LEMMA EnteringRL ==
  ASSUME IInv, Entering("RL")
  PROVE  /\ mode = "CHANGE" /\ next = "RL" /\ current = "GetUp" /\ getup >= GetUpFrames
         /\ previous' = current /\ current' = "RL"
         /\ rlInitDone = FALSE
         /\ WriterOf(command.by) = "GetUp"
         /\ command.by = "getup"
  BY DEF Entering, IInv, TypeOK, ChangeAllowed, PolicyGuarded, CommandOwner, WriterOf

LEMMA EnterRLStep ==
  ASSUME IInv, EnterRL
  PROVE  IInv' /\ rlInitDone' \in BOOLEAN
  <1>1. /\ current' = "RL" /\ previous' = current /\ current = "GetUp"
        /\ order' = PolicyOrder /\ nowOrder' = PolicyOrder /\ model' = "valid"
        /\ UNCHANGED <<standFromPassive, startFrom, startOrder>>
        /\ ClearInput
        /\ command.by = "getup" /\ rlInitDone = FALSE
        /\ next = "RL"
    BY EnteringRL DEF EnterRL, RemapNowState
  <1>2. /\ nowOrder' \in Orders /\ order' \in Orders
        /\ 0 \in 0..TransitionFrames /\ 0 # TransitionFrames
        /\ command \in [by : Writers, orders : SUBSET Orders]
    BY <1>1, FramesAssumption DEF IInv, TypeOK, Orders
  <1>3. \/ /\ RLRun(0, nowOrder', FALSE)
           /\ mode' = "NORMAL" /\ next' = "RL"
        \/ /\ RLRunThrows(0, nowOrder')
           /\ mode' = "CHANGE" /\ next' = "Passive"
    BY <1>1 DEF EnterRL
  <1>4. /\ transition' \in 0..TransitionFrames
        /\ rlInitDone' \in BOOLEAN
        /\ rlInitDone' => transition' = TransitionFrames
        /\ UNCHANGED <<preGetup, getup, getdown>>
    <2>1. CASE RLRun(0, nowOrder', FALSE)
      BY <1>2, <2>1, RLRunEffect
    <2>2. CASE RLRunThrows(0, nowOrder')
      BY <1>2, <2>2, RLRunThrowsEffect
    <2> QED
      BY <1>3, <2>1, <2>2
  <1>5. \/ RLCommand(command', nowOrder', order')
        \/ command' = command /\ mode' = "CHANGE"
    <2>1. CASE RLRun(0, nowOrder', FALSE)
      BY <1>2, <2>1, RLRunEffect
    <2>2. CASE RLRunThrows(0, nowOrder') /\ mode' = "CHANGE"
      BY <1>2, <2>2, RLRunThrowsEffect
    <2> QED
      BY <1>3, <2>1, <2>2
  <1>6. TypeOK'
    BY <1>1, <1>2, <1>3, <1>4, <1>5, ClearInputType
    DEF IInv, TypeOK, States, GetUpFrames, RLCommand
  <1>7. ChangeAllowed' /\ PolicyGuarded' /\ FailedInitLeaves'
    BY <1>1, <1>3, <1>4 DEF ChangeAllowed, PolicyGuarded, FailedInitLeaves
  <1>8. CommandOwner' /\ JointOrderKept'
    BY <1>1, <1>5 DEF CommandOwner, JointOrderKept, RLCommand, WriterOf
  <1> QED
    BY <1>4, <1>6, <1>7, <1>8 DEF IInv

LEMMA EnterRLFailsStep ==
  ASSUME IInv, EnterRLFails
  PROVE  IInv' /\ rlInitDone' = FALSE
  <1>1. /\ mode' = "CHANGE" /\ next' = "Passive"
        /\ current' = "RL" /\ previous' = current /\ current = "GetUp"
        /\ transition' = 0 /\ rlInitDone' = FALSE
        /\ UNCHANGED <<preGetup, getup, getdown, poseVars, command>>
        /\ ClearInput
        /\ command.by = "getup" /\ WriterOf(command.by) = "GetUp"
    BY EnteringRL DEF EnterRLFails
  <1> PICK left \in InitFailures : order' = left.order /\ model' = left.model
    BY DEF EnterRLFails
  <1>5. order \in Orders /\ model \in {"none", "invalid", "valid"}
    BY DEF IInv, TypeOK
  <1>6. order' \in Orders /\ model' \in {"none", "invalid", "valid"}
    BY <1>5 DEF InitFailures, Orders
  <1>2. TypeOK'
    <2>1. UNCHANGED <<standFromPassive, startFrom, startOrder, nowOrder, GetUpFrames>>
      BY <1>1 DEF poseVars, GetUpFrames
    <2>2. 0 \in 0..TransitionFrames
      BY FramesAssumption
    <2> QED
      BY <1>1, <1>6, <2>1, <2>2, ClearInputType DEF IInv, TypeOK, States
  <1>3. ChangeAllowed' /\ PolicyGuarded' /\ FailedInitLeaves'
    BY <1>1 DEF ChangeAllowed, PolicyGuarded, FailedInitLeaves
  <1>4. CommandOwner' /\ JointOrderKept'
    BY <1>1 DEF CommandOwner, JointOrderKept, WriterOf
  <1> QED
    BY <1>1, <1>2, <1>3, <1>4 DEF IInv

(* The input callbacks touch nothing but the input.                        *)
LEMMA InputStep ==
  ASSUME IInv,
         \/ \E k \in Keys \ {"None"} : SetKeyboard(k)
         \/ \E b \in Buttons \ {"None"} : SetGamepad(b)
         \/ UNCHANGED vars
  PROVE  /\ IInv'
         /\ UNCHANGED <<fsmVars, percentVars, poseVars, rlInitDone>>
  <1>1. UNCHANGED <<fsmVars, percentVars, poseVars, order, model, rlInitDone, command>>
    BY DEF SetKeyboard, SetGamepad, vars
  <1>2. keyboard' \in Keys /\ lastKeyboard' \in Keys /\ gamepad' \in Buttons
    BY DEF SetKeyboard, SetGamepad, vars, inputVars, IInv, TypeOK
  <1>3. UNCHANGED <<current, next, previous, mode, preGetup, getup, getdown, transition,
                    standFromPassive, startFrom, startOrder, nowOrder, GetUpFrames>>
    BY <1>1 DEF fsmVars, percentVars, poseVars, GetUpFrames
  <1>4. TypeOK'
    BY <1>1, <1>2, <1>3 DEF IInv, TypeOK
  <1>5. ChangeAllowed' /\ PolicyGuarded' /\ FailedInitLeaves'
    BY <1>1, <1>3 DEF IInv, ChangeAllowed, PolicyGuarded, FailedInitLeaves
  <1>6. CommandOwner' /\ JointOrderKept'
    BY <1>1, <1>3 DEF IInv, CommandOwner, JointOrderKept
  <1> QED
    BY <1>1, <1>4, <1>5, <1>6 DEF IInv
-----------------------------------------------------------------------------
LEMMA InitEstablishesIInv == Init => IInv
  <1> SUFFICES ASSUME Init PROVE IInv
    OBVIOUS
  <1>1. command = Written("none", {}) /\ command.by = "none"
    BY DEF Init, Written
  <1>2. TypeOK
    <2>1. command \in [by : Writers, orders : SUBSET Orders]
      BY DEF Init, Written, Writers
    <2>2. /\ preGetup \in 0..PreGetUpFrames /\ getup \in 0..GetUpFrames
          /\ getdown \in 0..GetDownFrames /\ transition \in 0..TransitionFrames
      BY FramesAssumption DEF Init, GetUpFrames
    <2> QED
      BY <2>1, <2>2 DEF Init, TypeOK, States, Keys, Buttons, Orders
  <1>3. ChangeAllowed /\ PolicyGuarded /\ FailedInitLeaves
    BY DEF Init, ChangeAllowed, PolicyGuarded, FailedInitLeaves
  <1>4. CommandOwner /\ JointOrderKept
    BY <1>1 DEF Init, CommandOwner, JointOrderKept, WriterOf
  <1> QED
    BY <1>2, <1>3, <1>4 DEF IInv

LEMMA NextKeepsIInv == IInv /\ [Next]_vars => IInv'
  <1> SUFFICES ASSUME IInv, [Next]_vars PROVE IInv'
    OBVIOUS
  <1>1. CASE \/ \E k \in Keys \ {"None"} : SetKeyboard(k)
             \/ \E b \in Buttons \ {"None"} : SetGamepad(b)
             \/ UNCHANGED vars
    BY <1>1, InputStep
  <1>2. CASE Tick
    BY <1>2, PassiveTickStep, GetUpTickStep, GetDownTickStep, RLTickStep, RLTickThrowsStep,
       EnterPassiveStep, EnterGetUpStep, EnterGetDownStep, EnterRLStep, EnterRLFailsStep
    DEF Tick
  <1> QED
    BY <1>1, <1>2 DEF Next

THEOREM Invariance == Spec => []IInv
  BY InitEstablishesIInv, NextKeepsIInv, PTL DEF Spec

(* Every variable keeps its type, however long the interpolations are.     *)
THEOREM TypeCorrect == Spec => []TypeOK
  <1>1. IInv => TypeOK
    BY DEF IInv
  <1> QED
    BY <1>1, Invariance, PTL

(* The policy thread runs only inside RLLocomotion, with a validated model *)
(* and a completed transition, and a failed InitRL always leaves.          *)
THEOREM PolicySafe == Spec => [](PolicyGuarded /\ FailedInitLeaves)
  <1>1. IInv => PolicyGuarded /\ FailedInitLeaves
    BY DEF IInv
  <1> QED
    BY <1>1, Invariance, PTL

(* The published command belongs to the current state.                     *)
THEOREM CommandSafe == Spec => []CommandOwner
  <1>1. IInv => CommandOwner
    BY DEF IInv
  <1> QED
    BY <1>1, Invariance, PTL

(* RLLocomotion never mixes joint orders, whatever the joint_mapping.      *)
THEOREM JointOrderIsKept == Spec => []JointOrderKept
  <1>1. IInv => JointOrderKept
    BY DEF IInv
  <1> QED
    BY <1>1, Invariance, PTL

(* rl_init_done never falls without a hold command or a way out.           *)
THEOREM PolicyNeverWithdrawnSilently == Spec => PolicyWithdrawn
  <1>1. ASSUME IInv, [Next]_vars, rlInitDone, ~rlInitDone'
        PROVE  command'.by = "hold" \/ mode' = "CHANGE" \/ current' # "RL"
    <2>1. current = "RL"
      BY <1>1 DEF IInv, PolicyGuarded
    <2>2. CASE \/ \E k \in Keys \ {"None"} : SetKeyboard(k)
               \/ \E b \in Buttons \ {"None"} : SetGamepad(b)
               \/ UNCHANGED vars
      BY <1>1, <2>2, InputStep
    <2>3. CASE PassiveTick \/ GetUpTick \/ GetDownTick
      BY <2>1, <2>3 DEF PassiveTick, GetUpTick, GetDownTick, Normal
    <2>4. CASE RLTick
      BY <1>1, <2>4, RLTickStep
    <2>5. CASE RLTickThrows
      BY <1>1, <2>5, RLTickThrowsStep
    <2>6. CASE EnterPassive \/ EnterGetUp \/ EnterGetDown
      BY <2>6 DEF EnterPassive, EnterGetUp, EnterGetDown, Entering
    <2>7. CASE EnterRL \/ EnterRLFails
      BY <1>1, <2>1, <2>7, EnteringRL DEF EnterRL, EnterRLFails
    <2> QED
      BY <1>1, <2>2, <2>3, <2>4, <2>5, <2>6, <2>7 DEF Next, Tick
  <1>2. IInv /\ [Next]_vars =>
          [rlInitDone /\ ~rlInitDone' => \/ command'.by = "hold"
                                         \/ mode' = "CHANGE"
                                         \/ current' # "RL"]_vars
    BY <1>1
  <1> QED
    BY <1>2, Invariance, PTL DEF Spec, PolicyWithdrawn
-----------------------------------------------------------------------------
(* The refinement: every tick is a step of RobotModes or leaves its state  *)
(* alone.                                                                  *)
stood == current = "GetUp" /\ getup >= GetUpFrames

modesAlone == UNCHANGED <<current, stood, rlInitDone>>

LEMMA InputRefines ==
  ASSUME IInv,
         \/ \E k \in Keys \ {"None"} : SetKeyboard(k)
         \/ \E b \in Buttons \ {"None"} : SetGamepad(b)
         \/ UNCHANGED vars
  PROVE  modesAlone
  <1>1. UNCHANGED <<fsmVars, percentVars, poseVars, rlInitDone>>
    BY InputStep
  <1> QED
    BY <1>1 DEF modesAlone, stood, GetUpFrames, fsmVars, percentVars, poseVars

LEMMA RunRefines ==
  ASSUME IInv, PassiveTick \/ GetUpTick \/ GetDownTick
  PROVE  modesAlone \/ Abstract!FinishStanding
  <1>1. CASE PassiveTick \/ GetDownTick
    <2>1. UNCHANGED <<current, rlInitDone>> /\ current # "GetUp"
      BY <1>1 DEF PassiveTick, GetDownTick, Normal, ChangeTo
    <2> QED
      BY <2>1 DEF modesAlone, stood
  <1>2. CASE GetUpTick
    <2>1. /\ current = "GetUp" /\ UNCHANGED <<current, rlInitDone, GetUpFrames>>
          /\ getup' >= getup
          /\ getup \in Nat /\ getup' \in Nat /\ GetUpFrames \in Nat
      BY <1>2, GetUpTickStep, FramesAssumption
      DEF IInv, TypeOK, GetUpTick, Normal, ChangeTo, GetUpFrames, poseVars
    <2>2. CASE getup >= GetUpFrames \/ getup' < GetUpFrames
      BY <2>1, <2>2 DEF modesAlone, stood
    <2>3. CASE getup < GetUpFrames /\ getup' >= GetUpFrames
      BY <2>1, <2>3 DEF Abstract!FinishStanding
    <2> QED
      BY <2>1, <2>2, <2>3
  <1> QED
    BY <1>1, <1>2

LEMMA RLRunRefines ==
  ASSUME IInv, RLTick \/ RLTickThrows
  PROVE  modesAlone \/ Abstract!EngageOrHold
  <1>1. current = "RL" /\ UNCHANGED current
    BY DEF RLTick, RLTickThrows, Normal, ChangeTo
  <1>2. rlInitDone \in BOOLEAN /\ rlInitDone' \in BOOLEAN
    BY RLTickStep, RLTickThrowsStep DEF IInv, TypeOK
  <1>3. rlInitDone' = rlInitDone \/ rlInitDone' = ~rlInitDone
    BY <1>2
  <1> QED
    BY <1>1, <1>3 DEF modesAlone, stood, Abstract!EngageOrHold

LEMMA EnterRefines ==
  ASSUME IInv, EnterPassive \/ EnterGetUp \/ EnterGetDown
  PROVE  Abstract!Relax \/ Abstract!StandUp \/ Abstract!LieDown
  <1>1. CASE EnterPassive
    <2>1. current # "Passive" /\ current' = "Passive"
      BY <1>1, EnterPassiveStep DEF EnterPassive, Entering
    <2>2. rlInitDone' = FALSE
      BY <1>1, <2>1, EnterPassiveStep DEF IInv, TypeOK, PolicyGuarded
    <2> QED
      BY <2>1, <2>2 DEF Abstract!Relax
  <1>2. CASE EnterGetUp
    <2>1. current # "GetUp" /\ current' = "GetUp" /\ rlInitDone' = FALSE
      BY <1>2, EnterGetUpStep DEF EnterGetUp, Entering
    <2> QED
      BY <2>1 DEF Abstract!StandUp
  <1>3. CASE EnterGetDown
    <2>1. /\ current = "RL" \/ (current = "GetUp" /\ getup >= GetUpFrames)
          /\ current' = "GetDown"
          /\ rlInitDone' = FALSE
      BY <1>3, EnterGetDownStep DEF EnterGetDown, Entering, IInv, ChangeAllowed
    <2> QED
      BY <2>1 DEF Abstract!LieDown
  <1> QED
    BY <1>1, <1>2, <1>3

LEMMA EnterRLRefines ==
  ASSUME IInv, EnterRL \/ EnterRLFails
  PROVE  Abstract!StartPolicyMode
  <1>1. Entering("RL")
    BY DEF EnterRL, EnterRLFails
  <1>2. current = "GetUp" /\ getup >= GetUpFrames /\ current' = "RL"
    BY <1>1, EnteringRL
  <1>3. rlInitDone' \in BOOLEAN
    BY EnterRLStep, EnterRLFailsStep
  <1> QED
    BY <1>2, <1>3 DEF Abstract!StartPolicyMode

(* The state machine implements RobotModes: it stands up before it runs a  *)
(* policy or lies down, engages the policy only in RL and leaves it off    *)
(* everywhere else.                                                        *)
THEOREM RefinesRobotModes == Spec => ImplementsRobotModes
  <1>1. Init => Abstract!Init
    BY DEF Init, Abstract!Init
  <1>2. IInv /\ [Next]_vars => [Abstract!Next]_(Abstract!modeVars)
    <2> SUFFICES ASSUME IInv, [Next]_vars
                 PROVE  Abstract!Next \/ modesAlone
      BY DEF Abstract!modeVars, modesAlone, stood
    <2>1. CASE \/ \E k \in Keys \ {"None"} : SetKeyboard(k)
               \/ \E b \in Buttons \ {"None"} : SetGamepad(b)
               \/ UNCHANGED vars
      BY <2>1, InputRefines
    <2>2. CASE Tick
      BY <2>2, RunRefines, RLRunRefines, EnterRefines, EnterRLRefines DEF Tick, Abstract!Next
    <2> QED
      BY <2>1, <2>2 DEF Next
  <1> QED
    BY <1>1, <1>2, Invariance, PTL DEF Spec, ImplementsRobotModes, Abstract!Spec
=============================================================================
