----------------------------- MODULE Robots_proofs ----------------------------
(***************************************************************************)
(* What is proved of the two other robots. The one of the Gazebo node: the *)
(* fault switch, the parameters and the gain damage, the foot contacts and *)
(* the joint controller group; the policy debug CSV of both; the real one: *)
(* its remote and its startup. Each has its inductive invariant, its steps *)
(* and its theorems.                                                       *)
(***************************************************************************)
EXTENDS FaultSwitch, PolicyParams, FootContacts, JointGroup, DebugCsv, RealRobot, SequenceLemmas

(***** The fault switch **************************************************)

(* Every variable keeps its type.                                          *)
THEOREM TypeCorrect == Spec => []TypeOK
<1> USE ConstantsAssumption DEF ConstantsAssumption
<1>1. Init => TypeOK
  <2> SUFFICES ASSUME Init PROVE TypeOK
    OBVIOUS
  <2>1. faultSwitch \in BOOLEAN /\ fault \in BOOLEAN
    BY Zenon DEF Init, LoadRecoveryPolicy
  <2>2. blend \in 0..Steps /\ result \in 0..Steps /\ actions \in 0..Steps
          /\ quiet \in 0..Steps
    BY DEF Init
  <2> QED
    BY <2>1, <2>2 DEF Init, TypeOK
<1>2. TypeOK /\ [Next]_vars => TypeOK'
  <2> SUFFICES ASSUME TypeOK, [Next]_vars PROVE TypeOK'
    OBVIOUS
  <2>1. CASE FaultAlphaCallback
    BY <2>1 DEF TypeOK, FaultAlphaCallback, controlVars
  <2>2. CASE Control
    BY <2>2 DEF TypeOK, Control, EnterRL, InitRL, InitRLFails, Engage, Disengage, Leave,
                faultVars
  <2>3. CASE Admit
    BY <2>3 DEF TypeOK, Admit, RLAt, controlVars, faultVars
  <2>4. CASE UpdateFaultBlend
    BY <2>4 DEF TypeOK, UpdateFaultBlend, NextBlend, RLAt, controlVars, faultVars
  <2>5. CASE SetCommand
    BY <2>5 DEF TypeOK, SetCommand, RLAt, controlVars, faultVars
  <2>6. CASE ForwardInfers
    BY <2>6 DEF TypeOK, ForwardInfers, RLAt, controlVars, faultVars
  <2>7. CASE ForwardBusy \/ ForwardCrashes \/ SetActions
    BY <2>7 DEF TypeOK, ForwardBusy, ForwardCrashes, SetActions, RLAt, controlVars,
                faultVars
  <2>8. CASE Crashed \/ UNCHANGED vars
    BY <2>8 DEF TypeOK, Crashed, vars
  <2> QED
    BY <2>1, <2>2, <2>3, <2>4, <2>5, <2>6, <2>7, <2>8 DEF Next, RunModel
<1> QED
  BY <1>1, <1>2, PTL DEF Spec
-----------------------------------------------------------------------------
(* The blend only rises with the switch on, and a run that is about to     *)
(* infer with some blend has zeroed its command: the second reading of the *)
(* verdict cannot undo what the first one started.                         *)
SwitchedOff == ~faultSwitch => blend = 0
CommandZeroed ==
  rl = "commanded" /\ blend > 0 /\ ZeroCommandAfterFault => command = "zero"

RestInv == SwitchedOff /\ CommandZeroed

(* RestInv is inductive.                                                   *)
LEMMA RestInvariance == Spec => []RestInv
<1> USE ConstantsAssumption DEF ConstantsAssumption
<1>1. Init => RestInv
  BY DEF Init, RestInv, SwitchedOff, CommandZeroed
<1>2. RestInv /\ TypeOK /\ [Next]_vars => RestInv'
  <2> SUFFICES ASSUME RestInv, TypeOK, [Next]_vars PROVE RestInv'
    OBVIOUS
  <2> USE DEF RestInv, SwitchedOff, CommandZeroed
  <2>1. CASE FaultAlphaCallback
    BY <2>1 DEF FaultAlphaCallback, controlVars
  <2>2. CASE Control
    BY <2>2 DEF Control, EnterRL, InitRL, InitRLFails, Engage, Disengage, Leave, faultVars
  <2>3. CASE UpdateFaultBlend
    BY <2>3 DEF UpdateFaultBlend, RLAt, controlVars, faultVars
  <2>4. CASE SetCommand
    BY <2>4 DEF SetCommand, ZeroWanted, RLAt, controlVars, faultVars
  <2>5. CASE Admit \/ ForwardInfers \/ ForwardBusy \/ ForwardCrashes \/ SetActions
    BY <2>5 DEF Admit, ForwardInfers, ForwardBusy, ForwardCrashes, SetActions, RLAt,
                controlVars, faultVars
  <2>6. CASE Crashed \/ UNCHANGED vars
    BY <2>6 DEF Crashed, vars
  <2> QED
    BY <2>1, <2>2, <2>3, <2>4, <2>5, <2>6 DEF Next, RunModel
<1> QED
  BY <1>1, <1>2, TypeCorrect, PTL DEF Spec

(* RunModel and Forward: the recovery policy computes no action for a      *)
(* command of the operator, whenever the verdict changes within a run.     *)
THEOREM RecoveryOnlyAtRest == Spec => RecoveryAtRest
<1>1. RestInv /\ [Next]_vars
        => [ForwardInfers /\ result' > 0 /\ ZeroCommandAfterFault => command = "zero"]_vars
  BY DEF RestInv, CommandZeroed, ForwardInfers, Mixes, RLAt
<1> QED
  BY <1>1, RestInvariance, PTL DEF Spec, RecoveryAtRest
-----------------------------------------------------------------------------
(* UpdateFaultBlend: Steps runs without a fault end the recovery.          *)
THEOREM HandsBackInTime == Spec => []HandBackBounded
<1> USE ConstantsAssumption DEF ConstantsAssumption
<1>1. Init => HandBackBounded
  BY DEF Init, HandBackBounded
<1>2. HandBackBounded /\ TypeOK /\ [Next]_vars => HandBackBounded'
  <2> SUFFICES ASSUME HandBackBounded, TypeOK, [Next]_vars PROVE HandBackBounded'
    OBVIOUS
  <2>1. CASE UpdateFaultBlend
    BY <2>1 DEF HandBackBounded, TypeOK, UpdateFaultBlend, NextBlend
  <2>2. CASE ~UpdateFaultBlend
    <3>1. UNCHANGED <<blend, quiet>>
      BY <2>2 DEF Next, RunModel, FaultAlphaCallback, Control, EnterRL, InitRL,
                  InitRLFails, Engage, Disengage, Leave, Admit, SetCommand, ForwardInfers,
                  ForwardBusy, ForwardCrashes, SetActions, Crashed, vars
    <3> QED
      BY <3>1 DEF HandBackBounded
  <2> QED
    BY <2>1, <2>2
<1> QED
  BY <1>1, <1>2, TypeCorrect, PTL DEF Spec
-----------------------------------------------------------------------------
(***** The parameters and the gain damage ********************************)

(* Which layers InitRL has laid over each other, by where it is.           *)
LayersSoFar ==
  /\ LayersResolved
  /\ reading # "idle" => ~ loaded
  /\ reading = "profile" => params = Base
  /\ reading \in {"config", "joints"} => policyLoaded \notin BadProfiles
  /\ reading = "config" => params = MergeYamlMap(Base, ProfileOf[policyLoaded])
  /\ reading = "joints" => params = Resolved(policyLoaded)

JointMappings == [Dofs -> Dofs]

ParamsNamed == "joint_mapping" \in DOMAIN params /\ params["joint_mapping"] \in JointMappings

(* A message, mapped with the joint order of the parameters.               *)
StandsFor(gains, message) ==
  /\ message \in [Dofs -> Int]
  /\ gains = [i \in Dofs |-> Clamped(message)[params["joint_mapping"][i]]]

DamageSoFar ==
  /\ callback = "clamped" => alpha \in [Dofs -> Int]
  /\ callback = "mapped" => alpha \in [Dofs -> 0..1]
  /\ callback = "mapped" /\ ~ overlap => StandsFor(alpha, damage)
  /\ callback = "waiting" /\ ~ overlap /\ loaded /\ reading = "idle" =>
       IF damage = <<>> THEN gainAlpha = Healthy ELSE StandsFor(gainAlpha, damage)

ParamsInv == ParamsTypeOK /\ ParamsNamed /\ LayersSoFar /\ DamageSoFar
-----------------------------------------------------------------------------
(* Two layers over base.yaml are what the three say together, whichever    *)
(* have a parameter.                                                       *)
LEMMA MergedIsResolved ==
  ASSUME NEW p
  PROVE  MergeYamlMap(MergeYamlMap(Base, ProfileOf[p]), ConfigOf[p]) = Resolved(p)
  <1> DEFINE under == MergeYamlMap(Base, ProfileOf[p])
             D == DOMAIN Base \cup DOMAIN ProfileOf[p] \cup DOMAIN ConfigOf[p]
  <1>1. /\ DOMAIN under = DOMAIN Base \cup DOMAIN ProfileOf[p]
        /\ \A k \in DOMAIN under : under[k] = IF k \in DOMAIN ProfileOf[p] THEN ProfileOf[p][k]
                                                                           ELSE Base[k]
    BY DEF MergeYamlMap
  <1> HIDE DEF under
  <1>2. MergeYamlMap(under, ConfigOf[p])
          = [k \in D |-> IF k \in DOMAIN ConfigOf[p] THEN ConfigOf[p][k] ELSE under[k]]
    BY <1>1 DEF MergeYamlMap
  <1>3. \A k \in D : (IF k \in DOMAIN ConfigOf[p] THEN ConfigOf[p][k] ELSE under[k])
          = CASE k \in DOMAIN ConfigOf[p] -> ConfigOf[p][k]
              [] k \in DOMAIN ProfileOf[p] \ DOMAIN ConfigOf[p] -> ProfileOf[p][k]
              [] OTHER -> Base[k]
    <2> TAKE k \in D
    <2>1. CASE k \in DOMAIN ConfigOf[p]
      BY <2>1
    <2>2. CASE k \notin DOMAIN ConfigOf[p] /\ k \in DOMAIN ProfileOf[p]
      BY <1>1, <2>2
    <2>3. CASE k \notin DOMAIN ConfigOf[p] /\ k \notin DOMAIN ProfileOf[p]
      BY <1>1, <2>3
    <2> QED
      BY <2>1, <2>2, <2>3
  <1> QED
    BY <1>2, <1>3 DEF under, Resolved

(* Every layer names the joints for all of them, if at all.                *)
LEMMA LayersNameJoints ==
  /\ "joint_mapping" \in DOMAIN Base /\ Base["joint_mapping"] \in JointMappings
  /\ \A under : "joint_mapping" \in DOMAIN under /\ under["joint_mapping"] \in JointMappings =>
       \A p \in PolicyNames :
         /\ "joint_mapping" \in DOMAIN MergeYamlMap(under, ProfileOf[p])
         /\ MergeYamlMap(under, ProfileOf[p])["joint_mapping"] \in JointMappings
         /\ "joint_mapping" \in DOMAIN MergeYamlMap(under, ConfigOf[p])
         /\ MergeYamlMap(under, ConfigOf[p])["joint_mapping"] \in JointMappings
  BY ParamsAssumption DEF ParamsAssumption, MergeYamlMap, JointMappings, Dofs

(* Clamping leaves a gain between 0 and 1 for every joint.                 *)
LEMMA ClampedGains ==
  ASSUME NEW a \in [Dofs -> Int]
  PROVE  /\ Clamped(a) \in [Dofs -> 0..1]
         /\ \A m \in JointMappings : [i \in Dofs |-> Clamped(a)[m[i]]] \in [Dofs -> 0..1]
  <1>1. Clamped(a) \in [Dofs -> 0..1]
    BY DEF Clamped
  <1> QED
    BY <1>1 DEF JointMappings

LEMMA ParamsInitially == ParamsInit => ParamsInv
  <1> SUFFICES ASSUME ParamsInit PROVE ParamsInv
    OBVIOUS
  <1> USE DEF ParamsInit
  <1>1. ParamsNamed
    BY LayersNameJoints DEF ParamsNamed
  <1>2. Healthy \in [Dofs -> 0..1] /\ MaxLoads \in Nat
    BY ParamsAssumption DEF ParamsAssumption, Healthy
  <1>3. ParamsTypeOK
    BY <1>1, <1>2, 0 \in 0..MaxLoads DEF ParamsTypeOK, ParamsNamed
  <1>4. LayersSoFar
    BY DEF LayersSoFar, LayersResolved
  <1>5. DamageSoFar
    BY DEF DamageSoFar
  <1> QED
    BY <1>1, <1>3, <1>4, <1>5 DEF ParamsInv
-----------------------------------------------------------------------------
(* A write of InitRL while a message is handled makes the two overlap;     *)
(* while none is, only its last write ends in a loaded policy.             *)
LEMMA InitRLKeepsDamage ==
  ASSUME DamageSoFar, UNCHANGED <<callback, alpha>>,
         callback # "waiting" => overlap',
         reading' # "idle" \/ ~ loaded' \/ (damage' = <<>> /\ gainAlpha' = Healthy)
  PROVE  DamageSoFar'
  BY DEF DamageSoFar

LEMMA ReadsEffect ==
  ASSUME ParamsTypeOK, NEW from, NEW to \in {"idle", "base", "profile", "config", "joints"},
         Reads(from, to)
  PROVE  /\ reading = from /\ reading' = to
         /\ overlap' \in BOOLEAN /\ (callback # "waiting" => overlap')
  <1>1. overlap' = (overlap \/ callback # "waiting")
    BY Zenon DEF Reads
  <1>2. overlap' \in BOOLEAN
    BY <1>1
  <1>3. callback # "waiting" => overlap'
    BY <1>1
  <1> QED
    BY <1>2, <1>3 DEF Reads

LEMMA LoadFileStep ==
  ASSUME ParamsInv, NEW p \in PolicyNames, NEW found \in BOOLEAN, LoadFile(p, found)
  PROVE  ParamsInv'
  <1> USE ParamsAssumption DEF ParamsAssumption, ParamsInv
  <1>1. /\ reading = "idle" /\ loaded' = FALSE /\ loads' = loads + 1 /\ loads < MaxLoads
        /\ policyLoaded' = IF found THEN p ELSE policyLoaded
        /\ UNCHANGED <<params, gainAlpha, callback, alpha, damage>>
    BY DEF LoadFile
  <1>a. loads' \in 0..MaxLoads
    BY <1>1 DEF ParamsTypeOK
  <1>2. CASE found
    <2>1. Reads("idle", "base")
      BY <1>2 DEF LoadFile
    <2>2. reading' = "base" /\ overlap' \in BOOLEAN /\ (callback # "waiting" => overlap')
      BY <2>1, ReadsEffect
    <2>3. ParamsTypeOK'
      <3>1. policyLoaded' = p
        BY <1>1, <1>2
      <3> QED
        BY <1>1, <1>a, <2>2, <3>1 DEF ParamsTypeOK
    <2>4. LayersSoFar'
      BY <1>1, <2>2 DEF LayersSoFar, LayersResolved
    <2>5. DamageSoFar'
      BY <1>1, <2>2, InitRLKeepsDamage
    <2> QED
      BY <1>1, <2>3, <2>4, <2>5 DEF ParamsNamed
  <1>3. CASE ~ found
    <2>1. UNCHANGED <<reading, overlap, policyLoaded>>
      BY <1>1, <1>3 DEF LoadFile
    <2>2. ParamsTypeOK'
      BY <1>1, <1>a, <2>1 DEF ParamsTypeOK
    <2>3. LayersSoFar'
      BY <1>1, <2>1 DEF LayersSoFar, LayersResolved
    <2>4. DamageSoFar'
      BY <1>1, <2>1 DEF DamageSoFar, StandsFor
    <2> QED
      BY <1>1, <2>2, <2>3, <2>4 DEF ParamsNamed
  <1> QED
    BY <1>2, <1>3

LEMMA FromBaseStep ==
  ASSUME ParamsInv, FromBase
  PROVE  ParamsInv'
  <1>1. /\ Reads("base", "profile") /\ params' = Base
        /\ UNCHANGED <<policyLoaded, loaded, gainAlpha, callback, alpha, damage, loads>>
    BY DEF FromBase
  <1>2. /\ reading = "base" /\ reading' = "profile"
        /\ overlap' \in BOOLEAN /\ (callback # "waiting" => overlap')
    BY <1>1, ReadsEffect DEF ParamsInv
  <1>3. ParamsNamed'
    BY <1>1, LayersNameJoints DEF ParamsNamed
  <1>4. ParamsTypeOK'
    BY <1>1, <1>2, <1>3 DEF ParamsInv, ParamsTypeOK, ParamsNamed
  <1>5. LayersSoFar'
    BY <1>1, <1>2 DEF ParamsInv, LayersSoFar, LayersResolved
  <1>6. DamageSoFar'
    BY <1>1, <1>2, InitRLKeepsDamage DEF ParamsInv
  <1> QED
    BY <1>3, <1>4, <1>5, <1>6 DEF ParamsInv

LEMMA MergeProfileStep ==
  ASSUME ParamsInv, MergeProfile
  PROVE  ParamsInv'
  <1>1. UNCHANGED <<policyLoaded, loaded, gainAlpha, callback, alpha, damage, loads>>
    BY DEF MergeProfile
  <1>2. policyLoaded \in PolicyNames
    BY DEF ParamsInv, ParamsTypeOK
  <1>3. CASE policyLoaded \in BadProfiles
    <2>1. Reads("profile", "idle") /\ params' = params
      BY <1>3 DEF MergeProfile
    <2>2. /\ reading = "profile" /\ reading' = "idle"
          /\ overlap' \in BOOLEAN /\ (callback # "waiting" => overlap')
      BY <2>1, ReadsEffect DEF ParamsInv
    <2>3. params = Base /\ ~ loaded
      BY <2>2 DEF ParamsInv, LayersSoFar
    <2>4. ParamsTypeOK'
      BY <1>1, <2>1, <2>2 DEF ParamsInv, ParamsTypeOK
    <2>5. LayersSoFar'
      BY <1>1, <2>1, <2>2, <2>3 DEF LayersSoFar, LayersResolved
    <2>6. DamageSoFar'
      BY <1>1, <2>2, <2>3, InitRLKeepsDamage DEF ParamsInv
    <2> QED
      BY <2>1, <2>4, <2>5, <2>6 DEF ParamsInv, ParamsNamed
  <1>4. CASE policyLoaded \notin BadProfiles
    <2>1. Reads("profile", "config") /\ params' = MergeYamlMap(params, ProfileOf[policyLoaded])
      BY <1>4 DEF MergeProfile
    <2>2. /\ reading = "profile" /\ reading' = "config"
          /\ overlap' \in BOOLEAN /\ (callback # "waiting" => overlap')
      BY <2>1, ReadsEffect DEF ParamsInv
    <2>3. params = Base /\ ~ loaded
      BY <2>2 DEF ParamsInv, LayersSoFar
    <2>4. ParamsNamed'
      BY <1>2, <2>1, <2>3, LayersNameJoints DEF ParamsNamed
    <2>5. ParamsTypeOK'
      BY <1>1, <2>2, <2>4 DEF ParamsInv, ParamsTypeOK, ParamsNamed
    <2>6. LayersSoFar'
      BY <1>1, <1>4, <2>1, <2>2, <2>3 DEF LayersSoFar, LayersResolved
    <2>7. DamageSoFar'
      BY <1>1, <2>2, InitRLKeepsDamage DEF ParamsInv
    <2> QED
      BY <2>4, <2>5, <2>6, <2>7 DEF ParamsInv
  <1> QED
    BY <1>3, <1>4

LEMMA MergeConfigStep ==
  ASSUME ParamsInv, MergeConfig
  PROVE  ParamsInv'
  <1>1. /\ Reads("config", "joints") /\ params' = MergeYamlMap(params, ConfigOf[policyLoaded])
        /\ UNCHANGED <<policyLoaded, loaded, gainAlpha, callback, alpha, damage, loads>>
    BY DEF MergeConfig
  <1>2. /\ reading = "config" /\ reading' = "joints"
        /\ overlap' \in BOOLEAN /\ (callback # "waiting" => overlap')
    BY <1>1, ReadsEffect DEF ParamsInv
  <1>3. policyLoaded \in PolicyNames \ BadProfiles /\ ~ loaded
    BY <1>2 DEF ParamsInv, ParamsTypeOK, LayersSoFar
  <1>4. ParamsNamed'
    BY <1>1, <1>3, LayersNameJoints DEF ParamsInv, ParamsNamed
  <1>5. params' = Resolved(policyLoaded)
    BY <1>1, <1>2, MergedIsResolved DEF ParamsInv, LayersSoFar
  <1>6. ParamsTypeOK'
    BY <1>1, <1>2, <1>4 DEF ParamsInv, ParamsTypeOK, ParamsNamed
  <1>7. LayersSoFar'
    <2>1. Resolved(policyLoaded)' = Resolved(policyLoaded)
      BY <1>1 DEF Resolved
    <2> QED
      BY <1>1, <1>2, <1>3, <1>5, <2>1 DEF LayersSoFar, LayersResolved
  <1>8. DamageSoFar'
    BY <1>1, <1>2, InitRLKeepsDamage DEF ParamsInv
  <1> QED
    BY <1>4, <1>6, <1>7, <1>8 DEF ParamsInv

LEMMA InitJointNumStep ==
  ASSUME ParamsInv, InitJointNum
  PROVE  ParamsInv'
  <1>1. /\ Reads("joints", "idle") /\ gainAlpha' = Healthy /\ damage' = <<>> /\ loaded' = TRUE
        /\ UNCHANGED <<params, policyLoaded, callback, alpha, loads>>
    BY DEF InitJointNum
  <1>2. /\ reading = "joints" /\ reading' = "idle"
        /\ overlap' \in BOOLEAN /\ (callback # "waiting" => overlap')
    BY <1>1, ReadsEffect DEF ParamsInv
  <1>3. Healthy \in [Dofs -> 0..1]
    BY DEF Healthy
  <1>4. ParamsTypeOK'
    BY <1>1, <1>2, <1>3 DEF ParamsInv, ParamsTypeOK
  <1>5. /\ policyLoaded \in PolicyNames \ BadProfiles /\ params = Resolved(policyLoaded)
    BY <1>2 DEF ParamsInv, ParamsTypeOK, LayersSoFar
  <1>6. LayersSoFar'
    <2>1. Resolved(policyLoaded)' = Resolved(policyLoaded)
      BY <1>1 DEF Resolved
    <2> QED
      BY <1>1, <1>2, <1>5, <2>1 DEF LayersSoFar, LayersResolved
  <1>7. DamageSoFar'
    BY <1>1, <1>2, InitRLKeepsDamage DEF ParamsInv
  <1> QED
    BY <1>1, <1>4, <1>6, <1>7 DEF ParamsInv, ParamsNamed

LEMMA GainMessageStep ==
  ASSUME ParamsInv, NEW m \in GainMessages, GainMessage(m)
  PROVE  ParamsInv'
  <1>1. /\ callback = "waiting" /\ Len(m) = NumDofs /\ callback' = "clamped" /\ alpha' = m
        /\ overlap' \in BOOLEAN
        /\ UNCHANGED <<params, policyLoaded, reading, loaded, gainAlpha, damage, loads>>
    BY DEF GainMessage
  <1>2. m \in [Dofs -> Int]
    BY <1>1, ParamsAssumption DEF ParamsAssumption, Dofs
  <1>3. ParamsTypeOK' /\ ParamsNamed'
    BY <1>1 DEF ParamsInv, ParamsTypeOK, ParamsNamed
  <1>4. LayersSoFar'
    BY <1>1 DEF ParamsInv, LayersSoFar, LayersResolved
  <1>5. DamageSoFar'
    BY <1>1, <1>2 DEF DamageSoFar
  <1> QED
    BY <1>3, <1>4, <1>5 DEF ParamsInv

LEMMA MapToPolicyStep ==
  ASSUME ParamsInv, MapToPolicy
  PROVE  ParamsInv'
  <1>1. /\ callback = "clamped" /\ callback' = "mapped"
        /\ alpha' = MapJoints(Clamped(alpha)) /\ damage' = alpha
        /\ UNCHANGED <<params, policyLoaded, reading, loaded, gainAlpha, overlap, loads>>
    BY DEF MapToPolicy
  <1>2. alpha \in [Dofs -> Int] /\ params["joint_mapping"] \in JointMappings
    BY <1>1 DEF ParamsInv, DamageSoFar, ParamsNamed
  <1>3. alpha' = [i \in Dofs |-> Clamped(alpha)[params["joint_mapping"][i]]]
    BY <1>1 DEF MapJoints
  <1>4. alpha' \in [Dofs -> 0..1]
    BY <1>2, <1>3, ClampedGains
  <1>5. ParamsTypeOK' /\ ParamsNamed'
    BY <1>1 DEF ParamsInv, ParamsTypeOK, ParamsNamed
  <1>6. LayersSoFar'
    BY <1>1 DEF ParamsInv, LayersSoFar, LayersResolved
  <1>7. DamageSoFar'
    BY <1>1, <1>2, <1>3, <1>4 DEF DamageSoFar, StandsFor, Clamped
  <1> QED
    BY <1>5, <1>6, <1>7 DEF ParamsInv

LEMMA SetGainAlphaStep ==
  ASSUME ParamsInv, SetGainAlpha
  PROVE  ParamsInv'
  <1>1. /\ callback = "mapped" /\ callback' = "waiting" /\ gainAlpha' = alpha
        /\ UNCHANGED <<params, policyLoaded, reading, loaded, damage, overlap, loads>>
    BY DEF SetGainAlpha
  <1>2. alpha \in [Dofs -> 0..1] /\ (~ overlap => StandsFor(alpha, damage))
    BY <1>1 DEF ParamsInv, DamageSoFar
  <1>3. ParamsTypeOK' /\ ParamsNamed'
    BY <1>1, <1>2 DEF ParamsInv, ParamsTypeOK, ParamsNamed
  <1>4. LayersSoFar'
    BY <1>1 DEF ParamsInv, LayersSoFar, LayersResolved
  <1>5. damage \in [Dofs -> Int] => damage # <<>>
    BY ParamsAssumption DEF ParamsAssumption, Dofs
  <1>6. StandsFor(alpha, damage) => StandsFor(gainAlpha, damage)'
    BY <1>1 DEF StandsFor
  <1>7. DamageSoFar'
    BY <1>1, <1>2, <1>5, <1>6 DEF DamageSoFar, StandsFor
  <1> QED
    BY <1>3, <1>4, <1>7 DEF ParamsInv

LEMMA ParamsStep == ParamsInv /\ [ParamsNext]_paramsVars => ParamsInv'
  <1> SUFFICES ASSUME ParamsInv, [ParamsNext]_paramsVars PROVE ParamsInv'
    OBVIOUS
  <1>1. CASE ReadYaml
    BY <1>1, LoadFileStep, FromBaseStep, MergeProfileStep, MergeConfigStep, InitJointNumStep
    DEF ReadYaml
  <1>2. CASE GainAlphaCallback
    BY <1>2, GainMessageStep, MapToPolicyStep, SetGainAlphaStep DEF GainAlphaCallback
  <1>3. CASE UNCHANGED paramsVars
    BY <1>3 DEF paramsVars, ParamsInv, ParamsTypeOK, ParamsNamed, LayersSoFar, LayersResolved,
                DamageSoFar, StandsFor
  <1> QED
    BY <1>1, <1>2, <1>3 DEF ParamsNext

(* ReadYaml and GainAlphaCallback: the parameters are those of the loaded  *)
(* policy, and each joint has the gain the last message meant for it, for  *)
(* any layers, any number of joints and any messages.                      *)
THEOREM ParamsAreSafe == ParamsSpec => []ParamsSafe
  <1>1. ParamsInv => ParamsSafe
    <2> SUFFICES ASSUME ParamsInv PROVE DamageOnItsJoint
      BY DEF ParamsInv, ParamsSafe, LayersSoFar
    <2> SUFFICES ASSUME loaded, reading = "idle", callback = "waiting", ~ overlap,
                        NEW i \in Dofs
                 PROVE  gainAlpha[i] = IF damage = <<>> THEN 1
                                       ELSE Clamped(damage)[params["joint_mapping"][i]]
      BY DEF DamageOnItsJoint
    <2> QED
      BY DEF ParamsInv, DamageSoFar, StandsFor, Healthy
  <1> QED
    BY <1>1, ParamsInitially, ParamsStep, PTL DEF ParamsSpec
-----------------------------------------------------------------------------
(***** The foot contacts *************************************************)

(* The contact sensors come and go together.                               *)
Together == linksAlive /\ sensing \in {{}, Feet}

(* A foot whose sources have published in this tick has been wrong for no  *)
(* longer than the link states are ignored, and is right if its own sensor *)
(* is among them, or the link states were not ignored.                     *)
WrongAtMost ==
  /\ \A f \in Feet : wrong[f] <= Window
  /\ \A f \in Feet \ due : /\ wrong[f] <= heard
                           /\ due # {} /\ sensing = Feet => wrong[f] = 0
  /\ "links" \notin due /\ Fallback => \A f \in Feet : wrong[f] = 0

ContactsInv ==
  /\ ContactsTypeOK
  /\ due \subseteq Sources
  /\ Together => WrongAtMost

LEMMA ContactsInitially == ContactsInit => ContactsInv
  <1> SUFFICES ASSUME ContactsInit PROVE ContactsInv
    OBVIOUS
  <1> USE ContactAssumption DEF ContactAssumption, ContactsInit
  <1>1. ContactsTypeOK
    BY DEF ContactsTypeOK
  <1>2. WrongAtMost
    BY DEF WrongAtMost
  <1> QED
    BY <1>1, <1>2 DEF ContactsInv

(* Observing some feet makes these right and the others no more wrong.     *)
LEMMA ObserveEffect ==
  ASSUME ContactsTypeOK, NEW feet \in SUBSET Feet, Observe(feet)
  PROVE  /\ contact' \in [Feet -> BOOLEAN] /\ wrong' \in [Feet -> 0..MaxAge]
         /\ \A f \in feet : wrong'[f] = 0
         /\ \A f \in Feet : wrong'[f] \in {0, wrong[f]}
  <1> USE DEF ContactsTypeOK
  <1>1. /\ contact' = [f \in Feet |-> IF f \in feet THEN f \in ground ELSE contact[f]]
        /\ wrong' = [f \in Feet |-> IF contact'[f] = (f \in ground) THEN 0 ELSE wrong[f]]
    BY DEF Observe
  <1>2. \A f \in Feet : wrong[f] \in 0..MaxAge /\ contact[f] \in BOOLEAN
    OBVIOUS
  <1>3. contact' \in [Feet -> BOOLEAN]
    <2>1. \A f \in Feet : (IF f \in feet THEN f \in ground ELSE contact[f]) \in BOOLEAN
      <3> TAKE f \in Feet
      <3>1. CASE f \in feet
        <4>1. (f \in ground) \in BOOLEAN
          OBVIOUS
        <4> QED
          BY <3>1, <4>1
      <3>2. CASE f \notin feet
        BY <1>2, <3>2, Zenon
      <3> QED
        BY <3>1, <3>2
    <2> QED
      BY <1>1, <2>1
  <1>4. 0 \in 0..MaxAge
    BY ContactAssumption DEF ContactAssumption
  <1>5. \A f \in Feet : wrong'[f] = IF contact'[f] = (f \in ground) THEN 0 ELSE wrong[f]
    BY <1>1
  <1>6. \A f \in feet : contact'[f] = (f \in ground)
    BY <1>1
  <1>7. wrong' \in [Feet -> 0..MaxAge]
    BY <1>1, <1>2, <1>4
  <1> QED
    BY <1>3, <1>5, <1>6, <1>7

LEMMA SensorStep ==
  ASSUME ContactsInv, NEW f \in Feet, GazeboFootContactCallback(f)
  PROVE  ContactsInv'
  <1> USE ContactAssumption DEF ContactAssumption
  <1>1. /\ f \in due /\ due' = due \ {f} /\ heard' = 0
        /\ UNCHANGED <<ground, sensing, topicAlive, linksAlive>>
    BY DEF GazeboFootContactCallback
  <1>2. /\ contact' \in [Feet -> BOOLEAN] /\ wrong' \in [Feet -> 0..MaxAge]
        /\ wrong'[f] = 0 /\ \A g \in Feet : wrong'[g] \in {0, wrong[g]}
    BY ObserveEffect DEF GazeboFootContactCallback, ContactsInv
  <1>3. ContactsTypeOK'
    BY <1>1, <1>2 DEF ContactsInv, ContactsTypeOK
  <1>4. due' \subseteq Sources'
    BY <1>1 DEF ContactsInv, Sources
  <1>5. ASSUME Together'
        PROVE  WrongAtMost'
    <2>1. WrongAtMost
      BY <1>1, <1>5 DEF ContactsInv, Together
    <2>2. sensing = Feet
      BY <1>1, <1>5 DEF ContactsInv, Together, Sources
    <2>3. \A g \in Feet \ due : wrong[g] = 0
      BY <1>1, <2>1, <2>2 DEF WrongAtMost
    <2>4. \A g \in Feet \ due' : wrong'[g] = 0
      BY <1>1, <1>2, <2>3
    <2>5. \A g \in Feet : wrong'[g] <= Window
      BY <1>2, <2>1 DEF WrongAtMost
    <2>6. ~ Fallback'
      BY <1>1 DEF Fallback
    <2> QED
      BY <1>1, <2>4, <2>5, <2>6 DEF WrongAtMost
  <1> QED
    BY <1>3, <1>4, <1>5 DEF ContactsInv

(* The topic and the link states see all feet.                             *)
LEMMA AllFeetStep ==
  ASSUME ContactsInv, NEW source \in {"topic", "links"}, source \in due, due' = due \ {source},
         heard' \in {0, heard}, source = "links" => heard' = heard,
         UNCHANGED <<ground, sensing, topicAlive, linksAlive>>,
         \/ Observe(Feet)
         \/ UNCHANGED <<contact, wrong, heard>> /\ (source = "links" => ~ Fallback)
  PROVE  ContactsInv'
  <1> USE ContactAssumption DEF ContactAssumption
  <1>1. ContactsTypeOK /\ due \subseteq Sources /\ (Together => WrongAtMost)
    BY DEF ContactsInv
  <1>2. /\ contact' \in [Feet -> BOOLEAN] /\ wrong' \in [Feet -> 0..MaxAge]
        /\ \/ \A f \in Feet : wrong'[f] = 0
           \/ UNCHANGED <<contact, wrong, heard>> /\ (source = "links" => ~ Fallback)
    BY <1>1, ObserveEffect DEF ContactsTypeOK
  <1>3. ContactsTypeOK'
    BY <1>1, <1>2 DEF ContactsTypeOK
  <1>4. due' \subseteq Sources'
    BY <1>1 DEF Sources
  <1>5. Feet \ due' = Feet \ due
    OBVIOUS
  <1>6. ASSUME Together'
        PROVE  WrongAtMost'
    <2>1. WrongAtMost
      BY <1>1, <1>6 DEF Together
    <2>2. heard' \in 0..MaxAge
      BY <1>3 DEF ContactsTypeOK
    <2>3. CASE \A f \in Feet : wrong'[f] = 0
      BY <2>2, <2>3 DEF WrongAtMost
    <2>4. CASE UNCHANGED <<contact, wrong, heard>> /\ (source = "links" => ~ Fallback)
      <3>1. due' # {} => due # {}
        OBVIOUS
      <3>2. "links" \notin due' /\ Fallback' => "links" \notin due /\ Fallback
        BY <2>4 DEF Fallback
      <3> QED
        BY <1>5, <2>1, <2>4, <3>1, <3>2 DEF WrongAtMost
    <2> QED
      BY <1>2, <2>3, <2>4
  <1> QED
    BY <1>3, <1>4, <1>6 DEF ContactsInv

LEMMA TickStep ==
  ASSUME ContactsInv, Tick
  PROVE  ContactsInv'
  <1> USE ContactAssumption DEF ContactAssumption
  <1>1. /\ due = {} /\ due' = Sources /\ heard' = Older(heard) /\ ground' \in SUBSET Feet
        /\ UNCHANGED <<contact, sensing, topicAlive, linksAlive>>
        /\ wrong' = [f \in Feet |-> IF contact[f] = (f \in ground') THEN 0 ELSE Older(wrong[f])]
    BY DEF Tick
  <1>2. ContactsTypeOK /\ (Together => WrongAtMost)
    BY DEF ContactsInv
  <1>3. \A n \in 0..MaxAge : Older(n) \in 0..MaxAge /\ Older(n) <= n + 1 /\ Older(n) >= n
                             /\ (n < MaxAge => Older(n) = n + 1)
    BY DEF Older
  <1>4. heard \in 0..MaxAge /\ \A f \in Feet : wrong[f] \in 0..MaxAge
    BY <1>2 DEF ContactsTypeOK
  <1>5. \A f \in Feet : wrong'[f] \in {0, Older(wrong[f])}
    BY <1>1
  <1>6. \A f \in Feet : wrong'[f] \in 0..MaxAge /\ wrong'[f] <= wrong[f] + 1
    BY <1>3, <1>4, <1>5
  <1>7. wrong' \in [Feet -> 0..MaxAge]
    BY <1>1, <1>6
  <1>8. due' \subseteq Sources'
    BY <1>1 DEF Sources
  <1>9. ContactsTypeOK'
    BY <1>1, <1>2, <1>3, <1>4, <1>7 DEF ContactsTypeOK, Sources
  <1>10. ASSUME Together'
         PROVE  WrongAtMost'
    <2>1. WrongAtMost /\ "links" \in due' /\ (sensing = Feet => Feet \ due' = {})
      BY <1>1, <1>2, <1>10 DEF Together, Sources
    <2>2. \A f \in Feet : wrong'[f] <= Window /\ wrong'[f] <= heard'
      <3>1. CASE Fallback
        <4>1. \A f \in Feet : wrong'[f] <= 1
          BY <1>1, <1>6, <2>1, <3>1 DEF WrongAtMost
        <4>2. heard' >= 1
          BY <1>1, <1>3, <1>4, <3>1 DEF Fallback
        <4> QED
          BY <1>1, <1>3, <1>4, <1>6, <4>1, <4>2
      <3>2. CASE ~ Fallback
        <4>1. heard' = heard + 1 /\ heard + 1 <= Window
          BY <1>1, <1>3, <1>4, <3>2 DEF Fallback
        <4>2. \A f \in Feet : wrong[f] <= heard
          BY <1>1, <2>1 DEF WrongAtMost
        <4> QED
          BY <1>4, <1>6, <4>1, <4>2
      <3> QED
        BY <3>1, <3>2
    <2> QED
      BY <1>1, <2>1, <2>2 DEF WrongAtMost
  <1> QED
    BY <1>8, <1>9, <1>10 DEF ContactsInv

LEMMA SourcesChangeStep ==
  ASSUME ContactsInv, SourcesChange
  PROVE  ContactsInv'
  <1>1. /\ due = {} /\ UNCHANGED <<contact, heard, ground, linksAlive, due, wrong>>
        /\ sensing' = sensing \/ (sensing \in {{}, Feet} /\ sensing' = Feet \ sensing)
    <2>1. due = {} /\ UNCHANGED <<contact, heard, ground, linksAlive, due, wrong>>
      BY DEF SourcesChange
    <2>2. sensing' = sensing \/ (sensing \in {{}, Feet} /\ sensing' = Feet \ sensing)
      BY Zenon DEF SourcesChange
    <2> QED
      BY <2>1, <2>2
  <1>2. topicAlive' \in BOOLEAN
    <2>1. topicAlive' = topicAlive \/ topicAlive' = ~ topicAlive
      BY Zenon DEF SourcesChange
    <2> QED
      BY <2>1, Zenon DEF ContactsInv, ContactsTypeOK
  <1>3. ContactsTypeOK'
    BY <1>1, <1>2 DEF ContactsInv, ContactsTypeOK
  <1>4. Together' => Together
    BY <1>1 DEF Together
  <1>5. WrongAtMost => WrongAtMost'
    BY <1>1 DEF WrongAtMost, Fallback
  <1> QED
    BY <1>1, <1>3, <1>4, <1>5 DEF ContactsInv

LEMMA ContactsStep == ContactsInv /\ [ContactsNext]_contactVars => ContactsInv'
  <1> SUFFICES ASSUME ContactsInv, [ContactsNext]_contactVars PROVE ContactsInv'
    OBVIOUS
  <1>1. CASE \E f \in Feet : GazeboFootContactCallback(f)
    BY <1>1, SensorStep
  <1>2. ASSUME NEW size, FootContactsCallback(size)
        PROVE  ContactsInv'
    BY <1>2, AllFeetStep DEF FootContactsCallback
  <1>3. CASE LinkStatesCallback
    BY <1>3, AllFeetStep DEF LinkStatesCallback
  <1>4. CASE Tick
    BY <1>4, TickStep
  <1>5. CASE SourcesChange
    BY <1>5, SourcesChangeStep
  <1>6. CASE UNCHANGED contactVars
    BY <1>6 DEF contactVars, ContactsInv, ContactsTypeOK, Sources, Together, WrongAtMost, Fallback
  <1> QED
    BY <1>1, <1>2, <1>3, <1>4, <1>5, <1>6 DEF ContactsNext

(* GazeboFootContactCallback, FootContactsCallback, LinkStatesCallback: no *)
(* contact stays wrong for longer than the window in which the link states *)
(* are ignored, for any feet, any window and any order of the messages.    *)
THEOREM ContactsAreSafe == ContactsSpec => []ContactsSafe
  <1>1. ContactsInv => ContactsSafe
    BY DEF ContactsInv, ContactsSafe, ContactsCatchUp, Together, WrongAtMost
  <1> QED
    BY <1>1, ContactsInitially, ContactsStep, PTL DEF ContactsSpec
-----------------------------------------------------------------------------
(***** The joint controller group ****************************************)

(* The answer finds the limits of the joints one by one.                   *)
Finds(g, known, names, n) ==
  g = [S \in SUBSET (1..n) |->
        IF S = {} THEN known ELSE AddLimits(g[S \ {Max(S)}], names[Max(S)])]

LEMMA FindsExists ==
  ASSUME NEW known, NEW names, NEW n \in Nat
  PROVE  \E g : Finds(g, known, names, n)
  <1> DEFINE T == {m \in Nat : \E g : Finds(g, known, names, m)}
  <1>1. 0 \in T
    <2> DEFINE g == [S \in SUBSET (1..0) |-> known]
    <2>1. SUBSET (1..0) = {{}}
      OBVIOUS
    <2>2. g = [S \in SUBSET (1..0) |->
                IF S = {} THEN known ELSE AddLimits(g[S \ {Max(S)}], names[Max(S)])]
      BY <2>1
    <2> QED
      BY <2>2 DEF Finds
  <1>2. ASSUME NEW m \in Nat, m \in T
        PROVE  m + 1 \in T
    <2>1. PICK g : Finds(g, known, names, m)
      BY <1>2
    <2> DEFINE h == [S \in SUBSET (1..m + 1) |->
                      IF m + 1 \in S THEN AddLimits(g[S \ {m + 1}], names[m + 1]) ELSE g[S]]
    <2>2. ASSUME NEW S \in SUBSET (1..m + 1)
          PROVE  h[S] = IF S = {} THEN known
                                  ELSE AddLimits(h[S \ {Max(S)}], names[Max(S)])
      <3>1. CASE m + 1 \in S
        <4>1. Max(S) \in S /\ Max(S) >= m + 1
          <5>1. m + 1 \in Nat
            OBVIOUS
          <5> QED
            BY <3>1, <5>1, MaxOfIndices
        <4>2. Max(S) = m + 1
          <5>1. \A i \in 1..m + 1 : i >= m + 1 => i = m + 1
            OBVIOUS
          <5> QED
            BY <4>1, <5>1
        <4>3. S \ {m + 1} \in SUBSET (1..m + 1) /\ m + 1 \notin S \ {m + 1}
          OBVIOUS
        <4> QED
          BY <3>1, <4>2, <4>3
      <3>2. CASE m + 1 \notin S
        <4>1. S \in SUBSET (1..m)
          BY <3>2
        <4>2. h[S] = g[S]
          BY <3>2
        <4>3. CASE S = {}
          BY <2>1, <4>1, <4>2, <4>3 DEF Finds
        <4>4. CASE S # {}
          <5>1. S \ {Max(S)} \in SUBSET (1..m + 1) /\ m + 1 \notin S \ {Max(S)}
            BY <3>2
          <5>2. h[S \ {Max(S)}] = g[S \ {Max(S)}]
            BY <5>1
          <5>3. g[S] = AddLimits(g[S \ {Max(S)}], names[Max(S)])
            BY <2>1, <4>1, <4>4 DEF Finds
          <5> QED
            BY <4>2, <4>4, <5>2, <5>3
        <4> QED
          BY <4>3, <4>4
      <3> QED
        BY <3>1, <3>2
    <2>3. Finds(h, known, names, m + 1)
      BY <2>2 DEF Finds
    <2> QED
      BY <2>3
  <1> HIDE DEF T
  <1>3. n \in T
    BY <1>1, <1>2, InductionOnSet
  <1> QED
    BY <1>3 DEF T

(* When all joints are described their limits are appended in order.       *)
LEMMA LimitsAppended ==
  ASSUME NEW names \in Seq(STRING), NEW known \in Seq(STRING),
         \A i \in 1..Len(names) : Described(names[i])
  PROVE  FoldLeft(AddLimits, known, names) = known \o names
  <1> DEFINE n == Len(names)
             F == CHOOSE g : Finds(g, known, names, n)
  <1>1. n \in Nat /\ DOMAIN names = 1..n
    OBVIOUS
  <1>2. Finds(F, known, names, n)
    BY <1>1, FindsExists
  <1>3. FoldLeft(AddLimits, known, names) = F[1..n]
    BY <1>1 DEF FoldLeft, MapThenFoldSet, Finds
  <1> HIDE DEF n, F
  <1> DEFINE T == {k \in Nat : k <= n => F[1..k] = known \o SubSeq(names, 1, k)}
  <1>4. 0 \in T
    <2>1. 1..0 = {} /\ {} \in SUBSET (1..n)
      OBVIOUS
    <2>2. F[{}] = known
      BY <1>2, <2>1 DEF Finds
    <2>3. known \o SubSeq(names, 1, 0) = known
      OBVIOUS
    <2> QED
      BY <2>1, <2>2, <2>3
  <1>5. ASSUME NEW k \in Nat, k \in T
        PROVE  k + 1 \in T
    <2> SUFFICES ASSUME k + 1 <= n
                 PROVE  F[1..k + 1] = known \o SubSeq(names, 1, k + 1)
      <3>1. k + 1 \in Nat
        OBVIOUS
      <3> QED
        BY <3>1
    <2> DEFINE I == 1..k + 1
    <2>1. k + 1 \in I /\ k + 1 \in Nat
      OBVIOUS
    <2>2. I \in SUBSET I /\ I # {}
      BY <2>1
    <2>3. Max(I) \in I /\ Max(I) >= k + 1
      BY <2>1, <2>2, MaxOfIndices
    <2>4. Max(I) = k + 1 /\ I \ {k + 1} = 1..k /\ I \in SUBSET (1..n)
      BY <1>1, <2>3
    <2>5. F[I] = AddLimits(F[1..k], names[k + 1])
      BY <1>2, <2>2, <2>4 DEF Finds
    <2>6. F[1..k] = known \o SubSeq(names, 1, k)
      BY <1>1, <1>5
    <2>7. Described(names[k + 1])
      BY <1>1 DEF n
    <2>8. SubSeq(names, 1, k + 1) = Append(SubSeq(names, 1, k), names[k + 1])
      BY <1>1 DEF n
    <2>9. Append(known \o SubSeq(names, 1, k), names[k + 1])
            = known \o Append(SubSeq(names, 1, k), names[k + 1])
      BY <1>1 DEF n
    <2> QED
      BY <2>5, <2>6, <2>7, <2>8, <2>9 DEF AddLimits
  <1> HIDE DEF T
  <1>6. n \in T
    BY <1>1, <1>4, <1>5, InductionOnSet
  <1>7. SubSeq(names, 1, n) = names
    BY DEF n
  <1> QED
    BY <1>1, <1>3, <1>6, <1>7 DEF T
-----------------------------------------------------------------------------
CommandsUpTo(n) == [number : 0..n, size : Sizes]

EffortTyped ==
  /\ effort = [i \in Joints |-> effort[i]]
  /\ \A i \in Joints : effort[i].command \in 0..commands /\ effort[i].alpha \in 0..1

GroupTyped ==
  /\ lifecycle \in {"unconfigured", "inactive", "active"}
  /\ jointNames \in JointLists \cup {<<>>}
  /\ commands \in 0..MaxCommands /\ switches \in 0..MaxSwitches
  /\ asked \in 0..switches /\ first \in 0..commands + 1
  /\ lastCommand \in [Joints -> CommandsUpTo(commands)] /\ rtCommand \in CommandsUpTo(commands)
  /\ faultAlpha \in [Joints -> 0..1] /\ rtAlpha \in [Joints -> 0..1] \cup {<<>>}
  /\ EffortTyped
  /\ receiving \in BOOLEAN /\ raced \in BOOLEAN /\ renamed \in BOOLEAN

(* The joints an update has done with; those left are the later ones.      *)
Done == NumJoints - Len(updating)

UpdateInOrder ==
  /\ updating \in Seq(Joints) /\ Len(updating) <= NumJoints
  /\ \A k \in 1..Len(updating) : updating[k] = Done + k

(* Every command still in the controller came after the activation, and so *)
(* did every fault vector.                                                 *)
FreshSinceActivation ==
  /\ ActivationIsQuiet
  /\ lifecycle = "active" => faultAlpha \in faults /\ rtAlpha \in faults

(* The joints done with obey the one command that all will obey.           *)
OneCommand ==
  /\ updating # <<>> => lifecycle = "active"
  /\ ~ raced /\ updating = <<>> => \A i, j \in Joints : effort[i].command = effort[j].command
  /\ ~ raced /\ updating # <<>> =>
       \E same \in Nat :
         /\ \A i \in Joints : lastCommand[i] = [number |-> same, size |-> "right"]
         /\ \A i \in 1..Done : effort[i].command = same

AllDescribed == \A i \in DOMAIN jointNames : Described(jointNames[i])

(* The first answer put the limits of each joint in its place; later ones  *)
(* only append.                                                            *)
LimitsInPlace ==
  /\ jointNames = <<>> => asked = 0 /\ jointsUrdf = <<>>
  /\ ~ renamed /\ AllDescribed => jointsUrdf \in Seq(STRING)
  /\ ~ renamed /\ AllDescribed =>
       \/ jointsUrdf = <<>> /\ (jointNames # <<>> => asked > 0)
       \/ \A i \in DOMAIN jointNames : i <= Len(jointsUrdf) /\ jointsUrdf[i] = jointNames[i]

GroupInv ==
  GroupTyped /\ UpdateInOrder /\ FreshSinceActivation /\ OneCommand /\ LimitsInPlace
-----------------------------------------------------------------------------
LEMMA NamesAreSequences ==
  \A names \in JointLists : /\ names \in Seq(STRING) /\ Len(names) = NumJoints
                            /\ DOMAIN names = Joints /\ names # <<>>
  <1> USE GroupAssumption DEF GroupAssumption, Joints
  <1>1. \A names \in [1..NumJoints -> STRING] :
          names \in Seq(STRING) /\ Len(names) = NumJoints /\ DOMAIN names = 1..NumJoints
    OBVIOUS
  <1> QED
    BY <1>1

LEMMA TypedIsTypeOK == GroupTyped => GroupTypeOK
  <1> SUFFICES ASSUME GroupTyped PROVE GroupTypeOK
    OBVIOUS
  <1>1. \A i \in Joints : /\ lastCommand[i].number \in 0..commands
                          /\ lastCommand[i].size \in Sizes
                          /\ effort[i].command \in 0..commands /\ effort[i].alpha \in 0..1
    BY DEF GroupTyped, CommandsUpTo, EffortTyped
  <1>2. rtCommand.number \in 0..commands /\ rtCommand.size \in Sizes
    BY DEF GroupTyped, CommandsUpTo
  <1>3. asked \in 0..MaxSwitches
    BY GroupAssumption DEF GroupAssumption, GroupTyped
  <1> QED
    BY <1>1, <1>2, <1>3 DEF GroupTyped, GroupTypeOK

LEMMA MoreCommands ==
  ASSUME NEW n \in Nat
  PROVE  /\ CommandsUpTo(n) \subseteq CommandsUpTo(n + 1)
         /\ HoldPosition \in CommandsUpTo(n) /\ HoldPosition.number = 0
  BY DEF CommandsUpTo, HoldPosition, Sizes

LEMMA GroupInitially == GroupInit => GroupInv
  <1> SUFFICES ASSUME GroupInit PROVE GroupInv
    OBVIOUS
  <1> USE GroupAssumption DEF GroupAssumption, GroupInit
  <1>1. /\ HoldPosition \in CommandsUpTo(0) /\ AllHealthy \in [Joints -> 0..1]
        /\ EffortTyped
    <2>1. HoldPosition \in CommandsUpTo(0)
      BY MoreCommands
    <2>2. AllHealthy \in [Joints -> 0..1]
      BY DEF AllHealthy
    <2>3. EffortTyped
      BY DEF EffortTyped
    <2> QED
      BY <2>1, <2>2, <2>3
  <1>2. 0 \in 0..MaxSwitches /\ 0 \in 0..MaxCommands /\ 0 \in 0..0 /\ 0 \in 0..0 + 1
    OBVIOUS
  <1>3. \A E : <<>> \in Seq(E)
    OBVIOUS
  <1>4. GroupTyped
    BY <1>1, <1>2, <1>3 DEF GroupTyped
  <1>5. UpdateInOrder
    BY <1>3 DEF UpdateInOrder
  <1>6. FreshSinceActivation
    BY DEF FreshSinceActivation, ActivationIsQuiet
  <1>7. OneCommand
    BY DEF OneCommand
  <1>8. LimitsInPlace
    BY <1>3 DEF LimitsInPlace
  <1> QED
    BY <1>4, <1>5, <1>6, <1>7, <1>8 DEF GroupInv

(* Steps that touch neither the commands nor the faults.                   *)
LEMMA CommandsUntouched ==
  ASSUME GroupInv, UNCHANGED <<lifecycle, commands, lastCommand, rtCommand, receiving, rtAlpha,
                               faultAlpha, updating, effort, raced, first, faults>>
  PROVE  UpdateInOrder' /\ FreshSinceActivation' /\ OneCommand'
  BY DEF GroupInv, UpdateInOrder, Done, FreshSinceActivation, ActivationIsQuiet, OneCommand

LEMMA LimitsUntouched ==
  ASSUME GroupInv, UNCHANGED <<jointNames, jointsUrdf, asked, renamed>>
  PROVE  LimitsInPlace'
  BY DEF GroupInv, LimitsInPlace, AllDescribed

LEMMA OnConfigureStep ==
  ASSUME GroupInv, NEW joints \in JointLists, OnConfigure(joints)
  PROVE  GroupInv'
  <1> USE GroupAssumption DEF GroupAssumption
  <1>1. /\ lifecycle = "unconfigured" /\ lifecycle' = "inactive" /\ updating = <<>>
        /\ switches < MaxSwitches /\ switches' = switches + 1
        /\ jointNames' = joints /\ asked' = asked + 1
        /\ UNCHANGED <<jointsUrdf, commands, lastCommand, rtCommand, receiving, rtAlpha,
                       faultAlpha, updating, effort, raced, first, faults>>
    BY DEF OnConfigure, Switch
  <1>2. renamed' \in BOOLEAN /\ (~ renamed' => ~ renamed /\ jointNames \in {<<>>, joints})
    <2>1. renamed' = (renamed \/ jointNames \notin {<<>>, joints})
      BY Zenon DEF OnConfigure
    <2>2. renamed \in BOOLEAN
      BY DEF GroupInv, GroupTyped
    <2>3. renamed' \in BOOLEAN
      BY <2>1, <2>2
    <2>4. ~ renamed' => ~ renamed /\ jointNames \in {<<>>, joints}
      BY <2>1, Zenon
    <2> QED
      BY <2>3, <2>4
  <1>3. asked' \in 0..switches' /\ switches' \in 0..MaxSwitches
    BY <1>1 DEF GroupInv, GroupTyped
  <1>4. GroupTyped'
    BY <1>1, <1>2, <1>3 DEF GroupInv, GroupTyped, EffortTyped
  <1>5. UpdateInOrder'
    BY <1>1 DEF GroupInv, UpdateInOrder, Done
  <1>6. FreshSinceActivation'
    BY <1>1 DEF FreshSinceActivation, ActivationIsQuiet
  <1>7. OneCommand'
    BY <1>1 DEF GroupInv, OneCommand
  <1>8. LimitsInPlace'
    <2>1. joints # <<>> /\ asked' > 0
      BY <1>1, NamesAreSequences DEF GroupInv, GroupTyped
    <2>2. CASE jointNames = <<>>
      BY <1>1, <2>1, <2>2 DEF GroupInv, LimitsInPlace
    <2>3. CASE jointNames = joints
      BY <1>1, <1>2, <2>1, <2>3 DEF GroupInv, LimitsInPlace, AllDescribed
    <2>4. CASE renamed'
      BY <1>1, <2>1, <2>4 DEF LimitsInPlace
    <2> QED
      BY <1>2, <2>2, <2>3, <2>4
  <1> QED
    BY <1>4, <1>5, <1>6, <1>7, <1>8 DEF GroupInv

(* on_activate and on_deactivate clear both buffers.                       *)
LEMMA ResetEffect ==
  ASSUME GroupTyped, ResetBuffers
  PROVE  /\ lastCommand' \in [Joints -> CommandsUpTo(commands)]
         /\ rtCommand' \in CommandsUpTo(commands)
         /\ faultAlpha' = AllHealthy /\ rtAlpha' = AllHealthy /\ AllHealthy \in [Joints -> 0..1]
         /\ rtCommand'.number = 0 /\ \A i \in Joints : lastCommand'[i].number = 0
  <1>1. commands \in Nat
    BY DEF GroupTyped
  <1>2. HoldPosition \in CommandsUpTo(commands) /\ HoldPosition.number = 0
    BY <1>1, MoreCommands
  <1> QED
    BY <1>2 DEF ResetBuffers, AllHealthy

LEMMA OnActivateStep ==
  ASSUME GroupInv, OnActivate
  PROVE  GroupInv'
  <1> USE GroupAssumption DEF GroupAssumption
  <1>1. /\ lifecycle' = "active" /\ updating = <<>>
        /\ switches < MaxSwitches /\ switches' = switches + 1
        /\ first' = commands + 1 /\ faults' = {AllHealthy} /\ ResetBuffers
        /\ UNCHANGED <<jointNames, jointsUrdf, asked, commands, receiving, updating, effort,
                       raced, renamed>>
    BY DEF OnActivate, Switch
  <1>2. GroupTyped
    BY DEF GroupInv
  <1>3. /\ lastCommand' \in [Joints -> CommandsUpTo(commands)]
        /\ rtCommand' \in CommandsUpTo(commands)
        /\ faultAlpha' = AllHealthy /\ rtAlpha' = AllHealthy /\ AllHealthy \in [Joints -> 0..1]
        /\ rtCommand'.number = 0 /\ \A i \in Joints : lastCommand'[i].number = 0
    BY <1>1, <1>2, ResetEffect
  <1>4. first' \in 0..commands' + 1 /\ switches' \in 0..MaxSwitches /\ asked' \in 0..switches'
    BY <1>1, <1>2 DEF GroupTyped
  <1>5. GroupTyped'
    BY <1>1, <1>2, <1>3, <1>4 DEF GroupTyped, EffortTyped
  <1>6. UpdateInOrder'
    BY <1>1 DEF GroupInv, UpdateInOrder, Done
  <1>7. FreshSinceActivation'
    BY <1>1, <1>3 DEF FreshSinceActivation, ActivationIsQuiet
  <1>8. OneCommand'
    BY <1>1 DEF GroupInv, OneCommand
  <1>9. LimitsInPlace'
    BY <1>1, LimitsUntouched
  <1> QED
    BY <1>5, <1>6, <1>7, <1>8, <1>9 DEF GroupInv

LEMMA OnDeactivateStep ==
  ASSUME GroupInv, OnDeactivate \/ OnCleanup
  PROVE  GroupInv'
  <1> USE GroupAssumption DEF GroupAssumption
  <1>1. /\ lifecycle' \in {"inactive", "unconfigured"} /\ updating = <<>>
        /\ switches < MaxSwitches /\ switches' = switches + 1
        /\ UNCHANGED <<jointNames, jointsUrdf, asked, commands, receiving, updating, effort,
                       raced, first, faults, renamed>>
        /\ \/ ResetBuffers
           \/ UNCHANGED <<lastCommand, rtCommand, rtAlpha, faultAlpha>>
    BY DEF OnDeactivate, OnCleanup, Switch
  <1>2. GroupTyped
    BY DEF GroupInv
  <1>3. /\ lastCommand' \in [Joints -> CommandsUpTo(commands)]
        /\ rtCommand' \in CommandsUpTo(commands)
        /\ faultAlpha' \in [Joints -> 0..1] /\ rtAlpha' \in [Joints -> 0..1] \cup {<<>>}
    BY <1>1, <1>2, ResetEffect DEF GroupTyped
  <1>4. switches' \in 0..MaxSwitches /\ asked' \in 0..switches'
    BY <1>1, <1>2 DEF GroupTyped
  <1>5. GroupTyped'
    BY <1>1, <1>2, <1>3, <1>4 DEF GroupTyped, EffortTyped
  <1>6. UpdateInOrder'
    BY <1>1 DEF GroupInv, UpdateInOrder, Done
  <1>7. FreshSinceActivation'
    BY <1>1 DEF FreshSinceActivation, ActivationIsQuiet
  <1>8. OneCommand'
    BY <1>1 DEF GroupInv, OneCommand
  <1>9. LimitsInPlace'
    BY <1>1, LimitsUntouched
  <1> QED
    BY <1>5, <1>6, <1>7, <1>8, <1>9 DEF GroupInv

LEMMA UrdfResponseStep ==
  ASSUME GroupInv, UrdfResponse
  PROVE  GroupInv'
  <1> USE GroupAssumption DEF GroupAssumption
  <1>1. /\ asked > 0 /\ asked' = asked - 1
        /\ jointsUrdf' = FoldLeft(AddLimits, jointsUrdf, jointNames)
        /\ UNCHANGED <<lifecycle, jointNames, commands, lastCommand, rtCommand, receiving,
                       rtAlpha, faultAlpha, updating, effort, raced, first, faults, renamed,
                       switches>>
    BY DEF UrdfResponse
  <1>2. GroupTyped /\ LimitsInPlace
    BY DEF GroupInv
  <1>3. jointNames \in JointLists /\ jointNames \in Seq(STRING)
    BY <1>1, <1>2, NamesAreSequences DEF GroupTyped, LimitsInPlace
  <1>4. ~ renamed /\ AllDescribed =>
          jointsUrdf \in Seq(STRING) /\ jointsUrdf' = jointsUrdf \o jointNames
    <2> SUFFICES ASSUME ~ renamed, AllDescribed
                 PROVE  jointsUrdf \in Seq(STRING) /\ jointsUrdf' = jointsUrdf \o jointNames
      OBVIOUS
    <2>1. jointsUrdf \in Seq(STRING)
      BY <1>2 DEF LimitsInPlace
    <2>2. \A i \in 1..Len(jointNames) : Described(jointNames[i])
      BY <1>3 DEF AllDescribed
    <2> QED
      BY <1>1, <1>3, <2>1, <2>2, LimitsAppended
  <1>5. asked' \in 0..switches'
    BY <1>1, <1>2 DEF GroupTyped
  <1>6. GroupTyped'
    BY <1>1, <1>2, <1>5 DEF GroupTyped, EffortTyped
  <1>7. LimitsInPlace'
    <2>1. jointNames' # <<>>
      BY <1>1, <1>3, NamesAreSequences
    <2>2. SUFFICES ASSUME ~ renamed, AllDescribed
                   PROVE  /\ jointsUrdf' \in Seq(STRING)
                          /\ \A i \in DOMAIN jointNames :
                               i <= Len(jointsUrdf') /\ jointsUrdf'[i] = jointNames[i]
      BY <1>1, <2>1 DEF LimitsInPlace, AllDescribed
    <2>3. CASE jointsUrdf = <<>>
      <3>1. jointsUrdf' = jointNames
        BY <1>3, <1>4, <2>2, <2>3
      <3> QED
        BY <1>3, <3>1
    <2>4. CASE \A i \in DOMAIN jointNames : i <= Len(jointsUrdf) /\ jointsUrdf[i] = jointNames[i]
      <3>1. jointsUrdf' \in Seq(STRING) /\ Len(jointsUrdf') >= Len(jointsUrdf)
        <4>1. \A a, b \in Seq(STRING) : a \o b \in Seq(STRING) /\ Len(a \o b) >= Len(a)
          OBVIOUS
        <4> QED
          BY <1>3, <1>4, <2>2, <4>1
      <3>2. ASSUME NEW i \in DOMAIN jointNames
            PROVE  i <= Len(jointsUrdf') /\ jointsUrdf'[i] = jointNames[i]
        <4>1. i \in 1..Len(jointsUrdf) /\ jointsUrdf[i] = jointNames[i]
          BY <1>3, <2>4
        <4>2. jointsUrdf'[i] = jointsUrdf[i]
          BY <1>3, <1>4, <2>2, <4>1
        <4> QED
          BY <1>4, <2>2, <3>1, <4>1, <4>2
      <3> QED
        BY <3>1, <3>2
    <2> QED
      BY <1>2, <2>2, <2>3, <2>4 DEF LimitsInPlace
  <1> QED
    BY <1>1, <1>6, <1>7, CommandsUntouched DEF GroupInv

LEMMA ReceiveCommandStep ==
  ASSUME GroupInv, NEW size \in Sizes, ReceiveCommand(size)
  PROVE  GroupInv'
  <1> USE GroupAssumption DEF GroupAssumption
  <1> DEFINE received == [number |-> commands + 1, size |-> size]
  <1>1. /\ commands < MaxCommands /\ commands' = commands + 1 /\ receiving' = TRUE
        /\ lastCommand' = [i \in Joints |-> received]
        /\ UNCHANGED <<lifecycle, jointNames, jointsUrdf, asked, rtCommand, rtAlpha,
                       faultAlpha, updating, effort, first, faults, renamed, switches>>
    BY DEF ReceiveCommand
  <1>2. raced' = (raced \/ updating # <<>>)
    BY Zenon DEF ReceiveCommand
  <1>3. GroupTyped
    BY DEF GroupInv
  <1>4. raced' \in BOOLEAN /\ (~ raced' => ~ raced /\ updating = <<>>)
    BY <1>2, <1>3 DEF GroupTyped
  <1>5. commands \in Nat /\ commands' \in 0..MaxCommands /\ first \in 0..commands' + 1
    BY <1>1, <1>3 DEF GroupTyped
  <1>6. received \in CommandsUpTo(commands')
    BY <1>1, <1>5 DEF CommandsUpTo
  <1> HIDE DEF received
  <1>7. CommandsUpTo(commands) \subseteq CommandsUpTo(commands')
    BY <1>1, <1>5, MoreCommands
  <1>8. /\ lastCommand' \in [Joints -> CommandsUpTo(commands')]
        /\ rtCommand' \in CommandsUpTo(commands')
    BY <1>1, <1>3, <1>6, <1>7 DEF GroupTyped
  <1>a. EffortTyped'
    BY <1>1, <1>3, <1>5 DEF GroupTyped, EffortTyped
  <1>9. GroupTyped'
    BY <1>1, <1>3, <1>4, <1>5, <1>8, <1>a DEF GroupTyped
  <1>10. UpdateInOrder'
    BY <1>1 DEF GroupInv, UpdateInOrder, Done
  <1>11. FreshSinceActivation'
    <2>1. ~ (commands' < first')
      BY <1>1, <1>3 DEF GroupTyped
    <2> QED
      BY <1>1, <2>1 DEF GroupInv, FreshSinceActivation, ActivationIsQuiet
  <1>12. OneCommand'
    BY <1>1, <1>4 DEF GroupInv, OneCommand
  <1>13. LimitsInPlace'
    BY <1>1, LimitsUntouched
  <1> QED
    BY <1>9, <1>10, <1>11, <1>12, <1>13 DEF GroupInv

LEMMA WriteCommandStep ==
  ASSUME GroupInv, WriteCommand
  PROVE  GroupInv'
  <1> USE GroupAssumption DEF GroupAssumption
  <1>1. /\ receiving' = FALSE /\ rtCommand' = lastCommand[1] /\ 1 \in Joints
        /\ UNCHANGED <<lifecycle, jointNames, jointsUrdf, asked, commands, lastCommand, rtAlpha,
                       faultAlpha, updating, effort, raced, first, faults, renamed, switches>>
    BY DEF WriteCommand, Joints
  <1>2. GroupTyped'
    BY <1>1 DEF GroupInv, GroupTyped, EffortTyped
  <1>3. UpdateInOrder' /\ OneCommand'
    BY <1>1 DEF GroupInv, UpdateInOrder, Done, OneCommand
  <1>4. FreshSinceActivation'
    BY <1>1 DEF GroupInv, FreshSinceActivation, ActivationIsQuiet
  <1>5. LimitsInPlace'
    BY <1>1, LimitsUntouched
  <1> QED
    BY <1>2, <1>3, <1>4, <1>5 DEF GroupInv

LEMMA ReceiveAlphaStep ==
  ASSUME GroupInv, NEW message \in Alphas, ReceiveAlpha(message)
  PROVE  GroupInv'
  <1> USE GroupAssumption DEF GroupAssumption
  <1>1. /\ Len(message) = NumJoints
        /\ rtAlpha' = [i \in Joints |-> ClampAlpha(message[i])]
        /\ faults' = faults \cup {rtAlpha'}
        /\ UNCHANGED <<lifecycle, jointNames, jointsUrdf, asked, commands, lastCommand,
                       rtCommand, receiving, faultAlpha, updating, effort, raced, first,
                       renamed, switches>>
    BY DEF ReceiveAlpha
  <1>2. \A i \in Joints : message[i] \in Int
    BY <1>1 DEF Joints
  <1>3. rtAlpha' \in [Joints -> 0..1]
    BY <1>1, <1>2 DEF ClampAlpha
  <1>4. GroupTyped'
    BY <1>1, <1>3 DEF GroupInv, GroupTyped, EffortTyped
  <1>5. UpdateInOrder' /\ OneCommand'
    BY <1>1 DEF GroupInv, UpdateInOrder, Done, OneCommand
  <1>6. FreshSinceActivation'
    BY <1>1 DEF GroupInv, FreshSinceActivation, ActivationIsQuiet
  <1>7. LimitsInPlace'
    BY <1>1, LimitsUntouched
  <1> QED
    BY <1>4, <1>5, <1>6, <1>7 DEF GroupInv

LEMMA UpdateStep ==
  ASSUME GroupInv, Update
  PROVE  GroupInv'
  <1> USE GroupAssumption DEF GroupAssumption
  <1>1. /\ lifecycle = "active" /\ updating = <<>> /\ rtCommand.size = "right"
        /\ lastCommand' = [i \in Joints |-> rtCommand]
        /\ faultAlpha' = IF rtAlpha # <<>> THEN rtAlpha ELSE faultAlpha
        /\ updating' = [i \in Joints |-> i] /\ raced' = FALSE
        /\ UNCHANGED <<lifecycle, jointNames, jointsUrdf, asked, commands, rtCommand, receiving,
                       rtAlpha, effort, first, faults, renamed, switches>>
    BY DEF Update
  <1>2. GroupTyped
    BY DEF GroupInv
  <1>3. GroupTyped'
    BY <1>1, <1>2 DEF GroupTyped, EffortTyped
  <1>4. /\ updating' \in Seq(Joints) /\ Len(updating') = NumJoints /\ updating' # <<>>
        /\ \A k \in Joints : updating'[k] = k
    BY <1>1 DEF Joints
  <1>5. Done' = 0
    BY <1>4 DEF Done
  <1>6. UpdateInOrder'
    BY <1>4, <1>5 DEF UpdateInOrder, Joints
  <1>7. FreshSinceActivation'
    BY <1>1 DEF GroupInv, FreshSinceActivation, ActivationIsQuiet
  <1>8. OneCommand'
    <2>1. rtCommand.number \in Nat /\ rtCommand = [number |-> rtCommand.number, size |-> "right"]
      BY <1>1, <1>2 DEF GroupTyped, CommandsUpTo
    <2>2. \A i \in Joints : lastCommand'[i] = [number |-> rtCommand.number, size |-> "right"]
      BY <1>1, <2>1
    <2> QED
      BY <1>1, <1>4, <1>5, <2>1, <2>2 DEF OneCommand
  <1>9. LimitsInPlace'
    BY <1>1, LimitsUntouched
  <1> QED
    BY <1>3, <1>6, <1>7, <1>8, <1>9 DEF GroupInv

LEMMA UpdateJointStep ==
  ASSUME GroupInv, UpdateJoint
  PROVE  GroupInv'
  <1> USE GroupAssumption DEF GroupAssumption
  <1> DEFINE i == Head(updating)
             done == [command |-> lastCommand[i].number, limits |-> LimitsAt(i),
                      alpha |-> faultAlpha[i]]
  <1>1. /\ updating # <<>> /\ updating' = Tail(updating)
        /\ effort' = [effort EXCEPT ![i] = done]
        /\ UNCHANGED <<lifecycle, jointNames, jointsUrdf, asked, commands, lastCommand, rtCommand,
                       receiving, rtAlpha, faultAlpha, raced, first, faults, renamed, switches>>
    BY DEF UpdateJoint
  <1>2. GroupTyped /\ UpdateInOrder /\ OneCommand
    BY DEF GroupInv
  <1>3. /\ i = Done + 1 /\ i \in Joints /\ Len(updating) \in 1..NumJoints
        /\ updating' \in Seq(Joints) /\ Len(updating') = Len(updating) - 1
        /\ \A k \in 1..Len(updating') : updating'[k] = updating[k + 1]
    BY <1>1, <1>2 DEF UpdateInOrder, Done
  <1>4. Done' = Done + 1
    BY <1>3 DEF Done
  <1>5. UpdateInOrder'
    <2>1. \A k \in 1..Len(updating') : updating'[k] = Done' + k
      BY <1>2, <1>3, <1>4 DEF UpdateInOrder, Done
    <2> QED
      BY <1>3, <2>1 DEF UpdateInOrder
  <1>6. done.command = lastCommand[i].number /\ done.command \in 0..commands /\ done.alpha \in 0..1
    <2>1. lastCommand[i] \in CommandsUpTo(commands) /\ faultAlpha[i] \in 0..1
      BY <1>2, <1>3 DEF GroupTyped
    <2> QED
      BY <2>1 DEF CommandsUpTo
  <1> HIDE DEF done
  <1>7. /\ effort' = [j \in Joints |-> effort'[j]]
        /\ effort'[i] = done
        /\ \A j \in Joints : j # i => effort'[j] = effort[j]
    <2>1. effort = [j \in Joints |-> effort[j]]
      BY <1>2 DEF GroupTyped, EffortTyped
    <2> QED
      BY <1>1, <1>3, <2>1
  <1> HIDE DEF i
  <1>b. EffortTyped'
    BY <1>1, <1>2, <1>6, <1>7 DEF GroupTyped, EffortTyped
  <1>8. GroupTyped'
    BY <1>1, <1>2, <1>b DEF GroupTyped
  <1>9. FreshSinceActivation'
    BY <1>1 DEF GroupInv, FreshSinceActivation, ActivationIsQuiet
  <1>10. OneCommand'
    <2>1. lifecycle' = "active"
      BY <1>1, <1>2 DEF OneCommand
    <2>2. SUFFICES ASSUME ~ raced
                   PROVE  /\ updating' = <<>> => \A j, k \in Joints :
                                                   effort'[j].command = effort'[k].command
                          /\ updating' # <<>> =>
                               \E same \in Nat :
                                 /\ \A j \in Joints : lastCommand[j]
                                                        = [number |-> same, size |-> "right"]
                                 /\ \A j \in 1..Done' : effort'[j].command = same
      BY <1>1, <2>1 DEF OneCommand
    <2>3. PICK same \in Nat :
            /\ \A j \in Joints : lastCommand[j] = [number |-> same, size |-> "right"]
            /\ \A j \in 1..Done : effort[j].command = same
      BY <1>1, <1>2, <2>2 DEF OneCommand
    <2>4. \A j \in 1..Done' : effort'[j].command = same
      <3> TAKE j \in 1..Done'
      <3>1. j \in Joints /\ (j = i \/ j \in 1..Done)
        BY <1>3, <1>4 DEF Done, Joints
      <3> QED
        BY <1>3, <1>6, <1>7, <2>3, <3>1
    <2>5. updating' = <<>> => 1..Done' = Joints
      <3>1. updating' = <<>> => Len(updating') = 0
        OBVIOUS
      <3> QED
        BY <3>1 DEF Done, Joints
    <2> QED
      BY <2>3, <2>4, <2>5
  <1>11. LimitsInPlace'
    BY <1>1, LimitsUntouched
  <1> QED
    BY <1>5, <1>8, <1>9, <1>10, <1>11 DEF GroupInv

LEMMA GroupStep == GroupInv /\ [GroupNext]_groupVars => GroupInv'
  <1> SUFFICES ASSUME GroupInv, [GroupNext]_groupVars PROVE GroupInv'
    OBVIOUS
  <1>1. CASE (\E joints \in JointLists : OnConfigure(joints)) \/ OnActivate \/ OnDeactivate
             \/ OnCleanup
    BY <1>1, OnConfigureStep, OnActivateStep, OnDeactivateStep
  <1>2. CASE UrdfResponse
    BY <1>2, UrdfResponseStep
  <1>3. CASE (\E size \in Sizes : ReceiveCommand(size)) \/ WriteCommand
    BY <1>3, ReceiveCommandStep, WriteCommandStep
  <1>4. CASE \E message \in Alphas : ReceiveAlpha(message)
    BY <1>4, ReceiveAlphaStep
  <1>5. CASE Update \/ UpdateJoint
    BY <1>5, UpdateStep, UpdateJointStep
  <1>6. CASE UNCHANGED groupVars
    <2>1. UNCHANGED <<lifecycle, jointNames, jointsUrdf, asked, commands, lastCommand, rtCommand,
                      receiving, rtAlpha, faultAlpha, updating, effort, raced, first, faults,
                      renamed, switches>>
      BY <1>6 DEF groupVars
    <2>2. GroupTyped'
      BY <2>1 DEF GroupInv, GroupTyped, EffortTyped
    <2> QED
      BY <2>1, <2>2, CommandsUntouched, LimitsUntouched DEF GroupInv
  <1> QED
    BY <1>1, <1>2, <1>3, <1>4, <1>5, <1>6 DEF GroupNext

(* RobotJointControllerGroup: each joint obeys one command since the       *)
(* activation, one fault vector and its own limits, for any number of      *)
(* joints, any names and messages, and any delay of the description.       *)
THEOREM JointGroupIsSafe == GroupSpec => []GroupSafe
  <1>1. GroupInv => GroupSafe
    <2> SUFFICES ASSUME GroupInv PROVE GroupSafe
      OBVIOUS
    <2>1. GroupTypeOK /\ ActivationIsQuiet /\ OneFaultVector
      BY TypedIsTypeOK DEF GroupInv, FreshSinceActivation, OneFaultVector
    <2>2. OneCommandPerUpdate
      <3>1. ~ raced /\ updating # <<>> => \A i \in Joints : lastCommand[i].size = "right"
        <4> SUFFICES ASSUME ~ raced, updating # <<>>
                     PROVE  \A i \in Joints : lastCommand[i].size = "right"
          OBVIOUS
        <4>1. PICK same \in Nat :
                \A i \in Joints : lastCommand[i] = [number |-> same, size |-> "right"]
          BY DEF GroupInv, OneCommand
        <4> QED
          BY <4>1
      <3>2. ~ raced /\ updating = <<>> =>
              \A i, j \in Joints : effort[i].command = effort[j].command
        BY DEF GroupInv, OneCommand
      <3> QED
        BY <3>1, <3>2 DEF OneCommandPerUpdate
    <2>3. LimitsOfOwnJoint
      <3> SUFFICES ASSUME asked = 0, ~ renamed, AllDescribed, NEW k \in DOMAIN jointNames
                   PROVE  LimitsAt(k) = jointNames[k]
        BY DEF LimitsOfOwnJoint, AllDescribed
      <3>1. jointNames # <<>> /\ ~ (asked > 0)
        OBVIOUS
      <3>2. k <= Len(jointsUrdf) /\ jointsUrdf[k] = jointNames[k]
        BY <3>1 DEF GroupInv, LimitsInPlace
      <3> QED
        BY <3>2 DEF LimitsAt
    <2> QED
      BY <2>1, <2>2, <2>3 DEF GroupSafe
  <1> QED
    BY <1>1, GroupInitially, GroupStep, PTL DEF GroupSpec
-----------------------------------------------------------------------------
(***** The policy debug CSV **********************************************)

LEMMA LeastNumber ==
  ASSUME NEW S \in SUBSET Nat, S # {}
  PROVE  \E m \in S : \A x \in S : m <= x
  <1> SUFFICES ASSUME \A m \in S : \E x \in S : x < m
               PROVE  FALSE
    OBVIOUS
  <1> DEFINE T == {n \in Nat : \A m \in S : n <= m}
  <1>1. 0 \in T
    OBVIOUS
  <1>2. ASSUME NEW n \in Nat, n \in T
        PROVE  n + 1 \in T
    <2>1. \A m \in S : n <= m /\ n # m
      <3>1. \A m \in S : n <= m
        BY <1>2
      <3>2. ASSUME NEW m \in S, n = m
            PROVE  FALSE
        <4>1. PICK x \in S : x < m
          OBVIOUS
        <4> QED
          BY <3>1, <3>2, <4>1
      <3> QED
        BY <3>1, <3>2
    <2> QED
      BY <2>1
  <1> HIDE DEF T
  <1>3. \A n \in Nat : n \in T
    BY <1>1, <1>2, InductionOnSet
  <1>4. PICK m \in S : TRUE
    OBVIOUS
  <1>5. m + 1 \in T
    BY <1>3
  <1>6. m + 1 <= m
    BY <1>5 DEF T
  <1> QED
    BY <1>6

(* What can be counted out of s and f.                                     *)
Combination(g, s, f) == \E a, b \in Int : g = a * s + b * f

LEMMA RestOfCombination ==
  ASSUME NEW s \in Nat, NEW f \in Nat, NEW g \in Int, NEW x \in Int, NEW q \in Int,
         Combination(g, s, f), Combination(x, s, f)
  PROVE  Combination(x - q * g, s, f)
  <1>1. PICK a \in Int, b \in Int : g = a * s + b * f
    BY DEF Combination
  <1>2. PICK c \in Int, d \in Int : x = c * s + d * f
    BY DEF Combination
  <1>3. PICK u \in Int, v \in Int : u = c - q * a /\ v = d - q * b
    OBVIOUS
  <1>4. x - q * g = u * s + v * f
    <2>1. u * s = c * s - q * a * s /\ v * f = d * f - q * b * f
      BY <1>3
    <2>2. q * g = q * a * s + q * b * f
      BY <1>1
    <2>3. PICK i \in Int, j \in Int, k \in Int, l \in Int :
            i = c * s /\ j = q * a * s /\ k = d * f /\ l = q * b * f
      OBVIOUS
    <2> QED
      BY <1>2, <2>1, <2>2, <2>3
  <1> QED
    BY <1>4 DEF Combination

(* No number from 2 on divides both.                                       *)
NoCommonDivisor(s, f) == \A d \in 2..f : ~(s % d = 0 /\ f % d = 0)

LEMMA OneIsCombination ==
  ASSUME NEW s \in Nat \ {0}, NEW f \in Nat \ {0}, NoCommonDivisor(s, f)
  PROVE  Combination(1, s, f)
  <1> DEFINE S == {g \in Nat \ {0} : Combination(g, s, f)}
  <1>1. s \in S /\ f \in S
    <2>1. s = 1 * s + 0 * f /\ f = 0 * s + 1 * f
      OBVIOUS
    <2> QED
      BY <2>1 DEF Combination
  <1>2. PICK g \in S : \A x \in S : g <= x
    <2>1. S \in SUBSET Nat /\ S # {}
      BY <1>1
    <2> HIDE DEF S
    <2> QED
      BY <2>1, LeastNumber
  <1>3. g \in Nat \ {0} /\ Combination(g, s, f) /\ g <= f
    BY <1>1, <1>2
  <1>4. ASSUME NEW x \in Nat, Combination(x, s, f)
        PROVE  x % g = 0
    <2>1. x \in Int /\ g \in Int
      BY <1>3
    <2>2. Place(x, x \div g, x % g, g)
      BY <1>3, <2>1, Division, Zenon
    <2>3. PICK q \in Int, b \in 0..g - 1 : q = x \div g /\ b = x % g /\ x = q * g + b
      BY <2>2 DEF Place
    <2>4. Combination(x - q * g, s, f)
      BY <1>3, <1>4, <2>1, RestOfCombination
    <2>5. x - q * g = b
      <3>1. PICK h \in Int : h = q * g
        BY <1>3
      <3> QED
        BY <2>3, <3>1
    <2>6. b # 0 => b \in S
      BY <1>3, <2>4, <2>5
    <2>7. b # 0 => g <= b
      BY <1>2, <2>6
    <2> QED
      BY <1>3, <2>3, <2>7
  <1>5. s % g = 0 /\ f % g = 0
    BY <1>1, <1>4
  <1>6. g = 1
    <2>1. g \notin 2..f
      BY <1>5 DEF NoCommonDivisor
    <2> QED
      BY <1>3, <2>1
  <1> QED
    BY <1>3, <1>6

(* Row q is written by call s * q + 1, and flushes if f divides it.        *)
Flushes(q, s, f) == \E e \in Int : s * q + 1 = f * e

(* Of f rows in a row one flushes.                                         *)
LEMMA OneRowFlushes ==
  ASSUME NEW s \in Nat \ {0}, NEW f \in Nat \ {0}, NoCommonDivisor(s, f), NEW q \in Int
  PROVE  \E k \in 1..f : Flushes(q - k, s, f)
  <1>1. PICK a \in Int, b \in Int : 1 = a * s + b * f
    BY OneIsCombination DEF Combination
  <1>2. PICK m \in Int : m = q + a - 1
    OBVIOUS
  <1>3. Place(m, m \div f, m % f, f)
    BY Division, Zenon
  <1>4. PICK h \in Int, r \in 0..f - 1 : m = h * f + r
    BY <1>3 DEF Place
  <1>5. PICK k \in 1..f, p \in Int : k = r + 1 /\ p = q - k
    BY <1>4
  <1>6. p = h * f - a
    <2>1. PICK x \in Int : x = h * f
      OBVIOUS
    <2> QED
      BY <1>2, <1>4, <1>5, <2>1
  <1>7. PICK e \in Int : e = s * h + b
    OBVIOUS
  <1>8. s * p + 1 = f * e
    <2>1. s * p = s * h * f - a * s
      BY <1>6
    <2>2. f * e = s * h * f + b * f
      BY <1>7
    <2>3. PICK x \in Int, y \in Int, z \in Int : x = s * h * f /\ y = a * s /\ z = b * f
      OBVIOUS
    <2> QED
      BY <1>1, <2>1, <2>2, <2>3
  <1>9. Flushes(p, s, f)
    BY <1>8 DEF Flushes
  <1> QED
    BY <1>5, <1>9
-----------------------------------------------------------------------------
(* Calls are counted without the wrap, by c, and rows by q: the row that   *)
(* is due, or else the next one.  None of the unflushed rows flushed.      *)
Counted(c) == \E e \in Int : c = csvCounter + csvStride * FlushEvery * e

RowOfCall(c, q) ==
  IF rowDue THEN c = csvStride * q + 1
            ELSE csvStride * (q - 1) + 1 <= c /\ c <= csvStride * q

Unflushed(q) == \A k \in 1..unflushed : ~Flushes(q - k, csvStride, FlushEvery)

CountInv == \E c, q \in Int : Counted(c) /\ RowOfCall(c, q) /\ Unflushed(q)

FirstRows ==
  ~csvInitialized => csvCounter = 0 /\ unflushed = 0 /\ ~rowDue

CsvInv ==
  /\ CsvTypeOK /\ csvCounter \in 0..csvStride * FlushEvery - 1
  /\ FirstRows /\ CountInv

LEMMA CsvInvIsSafe == CsvInv => CsvSafe
  <1> SUFFICES ASSUME CsvInv PROVE RowsReachDisk
    BY Zenon DEF CsvInv, CsvSafe
  <1>1. csvStride \in Nat \ {0} /\ FlushEvery \in Nat \ {0} /\ unflushed \in Nat
    BY CsvAssumption DEF CsvInv, CsvTypeOK
  <1> SUFFICES ASSUME NoCommonDivisor(csvStride, FlushEvery), unflushed > FlushEvery
               PROVE  FALSE
    BY <1>1 DEF RowsReachDisk, NoCommonDivisor
  <1>2. PICK q \in Int : Unflushed(q)
    BY DEF CsvInv, CountInv
  <1>3. PICK k \in 1..FlushEvery : Flushes(q - k, csvStride, FlushEvery)
    BY <1>1, OneRowFlushes
  <1>4. k \in 1..unflushed
    BY <1>1, <1>3
  <1> QED
    BY <1>2, <1>3, <1>4 DEF Unflushed

LEMMA CsvInitially == CsvInit => CsvInv
  <1> SUFFICES ASSUME CsvInit PROVE CsvInv
    OBVIOUS
  <1>1. csvStride = 1 /\ csvCounter = 0 /\ unflushed = 0 /\ rowDue = FALSE /\ FlushEvery \in Nat \ {0}
    BY CsvAssumption DEF CsvInit
  <1>2. CsvTypeOK
    <2>1. csvStride \in Nat \ {0} /\ csvCounter \in 0..csvStride * FlushEvery
      BY <1>1
    <2>2. unflushed \in 0..FlushEvery + 1
      BY <1>1
    <2> QED
      BY <2>1, <2>2, Zenon DEF CsvInit, CsvTypeOK
  <1>3. csvCounter \in 0..csvStride * FlushEvery - 1
    BY <1>1
  <1>4. Counted(0)
    <2>1. 0 = csvCounter + csvStride * FlushEvery * 0
      BY <1>1
    <2> QED
      BY <2>1 DEF Counted
  <1>5. RowOfCall(0, 0) /\ Unflushed(0)
    BY <1>1 DEF RowOfCall, Unflushed
  <1> QED
    BY <1>1, <1>2, <1>3, <1>4, <1>5 DEF CsvInv, FirstRows, CountInv

(* With a count of n after e wraps, call c comes before row q.             *)
NextRow(n, e, c, q, s, f) == c = n + s * f * e /\ s * (q - 1) + 1 <= c /\ c <= s * q

DueNow(n, s, c, q) == n % s = 0 <=> c = s * q

(* The calls whose number is a multiple of the stride are followed by a    *)
(* row, however often the count has wrapped.                               *)
LEMMA DueRow ==
  ASSUME NEW s \in Nat \ {0}, NEW f \in Nat \ {0}, NEW n \in Int, NEW e \in Int,
         NEW c \in Int, NEW q \in Int, NextRow(n, e, c, q, s, f)
  PROVE  DueNow(n, s, c, q)
  <1>1. Place(n, n \div s, n % s, s)
    BY Division, Zenon
  <1>2. PICK h \in Int, r \in 0..s - 1 : r = n % s /\ n = h * s + r
    BY <1>1 DEF Place
  <1>3. PICK t \in Int, p \in Int : t = h + f * e /\ p = q - 1
    OBVIOUS
  <1>4. c = t * s + r
    <2>1. t * s = h * s + s * f * e
      BY <1>3
    <2>2. PICK x \in Int, y \in Int : x = h * s /\ y = s * f * e
      OBVIOUS
    <2>3. c = n + y
      BY <2>2 DEF NextRow
    <2>4. n = x + r /\ t * s = x + y
      BY <1>2, <2>1, <2>2
    <2> QED
      BY <2>3, <2>4
  <1>5. Place(c, t, r, s)
    BY <1>2, <1>4 DEF Place
  <1>6. ASSUME c = s * q
        PROVE  r = 0
    <2>1. Place(c, q, 0, s)
      BY <1>6 DEF Place
    <2> QED
      BY <1>5, <2>1, OnePlace
  <1>7. ASSUME r = 0
        PROVE  c = s * q
    <2>1. PICK x \in Int, y \in Int : x = t * s /\ y = p * s
      BY <1>3
    <2>2. s * q = y + s /\ s * (q - 1) = y
      BY <1>3, <2>1
    <2>3. c = x /\ y + 1 <= x /\ x <= y + s
      BY <1>4, <1>7, <2>1, <2>2 DEF NextRow
    <2>4. ~(t < p)
      <3> SUFFICES ASSUME t < p PROVE FALSE
        OBVIOUS
      <3>1. x + s <= y
        BY <2>1, LaterMultiple
      <3> QED
        BY <2>3, <3>1
    <2>5. t # p
      BY <2>1, <2>3
    <2>6. p < t
      BY <2>4, <2>5
    <2>7. y + s <= x
      BY <2>1, <2>6, LaterMultiple
    <2> QED
      BY <2>2, <2>3, <2>7
  <1> QED
    BY <1>2, <1>6, <1>7 DEF DueNow

LEMMA WriteStep ==
  ASSUME CsvInv, NEW opens \in BOOLEAN, WritePolicyDebugCsv(opens)
  PROVE  CsvInv'
  <1>1. /\ csvConfig \in CsvConfigs /\ csvInitialized \in BOOLEAN /\ csvEnabled \in BOOLEAN
        /\ csvFile \in {"none", "open", "failed", "closed"} /\ closing \in BOOLEAN
        /\ csvStride \in Nat \ {0} /\ csvCounter \in 0..csvStride * FlushEvery - 1
        /\ unflushed \in 0..FlushEvery + 1 /\ ~rowDue /\ rowDue \in BOOLEAN
        /\ (~csvInitialized => csvCounter = 0 /\ unflushed = 0)
    BY Zenon DEF CsvInv, CsvTypeOK, FirstRows, WritePolicyDebugCsv
  <1>2. /\ csvConfig' = csvConfig /\ unflushed' = unflushed /\ closing' = closing
        /\ IF csvInitialized
           THEN UNCHANGED <<csvInitialized, csvEnabled, csvStride, csvFile>>
           ELSE InitPolicyDebugCsv(opens)
        /\ IF csvEnabled' /\ csvFile' = "open"
           THEN CountCall /\ rowDue' = (csvCounter % csvStride' = 0)
           ELSE UNCHANGED <<csvCounter, rowDue>>
    BY DEF WritePolicyDebugCsv
  <1>3. /\ csvInitialized' = TRUE /\ csvEnabled' \in BOOLEAN
        /\ csvFile' \in {"none", "open", "failed", "closed"}
    BY <1>1, <1>2 DEF InitPolicyDebugCsv, Opened
  <1>4. PICK s \in Nat \ {0}, f \in Nat \ {0} :
          s = csvStride' /\ f = FlushEvery /\ (csvInitialized => csvStride = s)
    <2>1. csvConfig.stride \in Int
      BY <1>1, CsvAssumption
    <2>2. AtLeast(1, csvConfig.stride) \in Nat \ {0}
      BY <2>1 DEF AtLeast
    <2>3. csvStride' \in Nat \ {0} /\ (csvInitialized => csvStride = csvStride')
      BY <1>1, <1>2, <2>2 DEF InitPolicyDebugCsv
    <2> QED
      BY <2>3, CsvAssumption
  <1>5. csvCounter \in 0..s * f - 1 /\ s * f \in Nat \ {0}
    <2>1. s * f \in Nat \ {0}
      BY ProductIsLarger
    <2>2. CASE csvInitialized
      BY <1>1, <1>4, <2>1, <2>2
    <2>3. CASE ~csvInitialized
      BY <1>1, <2>1, <2>3
    <2> QED
      BY <2>1, <2>2, <2>3
  <1>6. PICK c \in Int, q \in Int, e \in Int :
          /\ c = csvCounter + s * f * e /\ s * (q - 1) + 1 <= c /\ c <= s * q
          /\ \A k \in 1..unflushed : ~Flushes(q - k, s, f)
    <2>1. CASE csvInitialized
      BY <1>1, <1>4, <2>1 DEF CsvInv, CountInv, Counted, RowOfCall, Unflushed
    <2>2. CASE ~csvInitialized
      <3>1. /\ 0 = csvCounter + s * f * 0 /\ s * (0 - 1) + 1 <= 0 /\ 0 <= s * 0
            /\ \A k \in 1..unflushed : ~Flushes(0 - k, s, f)
        BY <1>1, <2>2
      <3> QED
        BY <3>1
    <2> QED
      BY <2>1, <2>2
  <1>7. Unflushed(q)'
    BY <1>2, <1>4, <1>6 DEF Unflushed, Flushes
  <1>8. /\ csvCounter' \in 0..s * f - 1 /\ rowDue' \in BOOLEAN
        /\ \E d \in Int : Counted(d)' /\ RowOfCall(d, q)'
    <2>1. CASE csvEnabled' /\ csvFile' = "open"
      <3>1. csvCounter' = (csvCounter + 1) % (s * f) /\ rowDue' = (csvCounter % s = 0)
        BY <1>2, <1>4, <2>1 DEF CountCall
      <3>2. PICK m \in Int, n \in Int, w \in Nat \ {0} :
              m = csvCounter /\ n = csvCounter + 1 /\ w = s * f
        BY <1>5
      <3>3. Place(n, n \div w, n % w, w)
        BY Division, Zenon
      <3>4. PICK h \in Int, r \in 0..w - 1 : r = csvCounter' /\ n = h * w + r
        BY <3>1, <3>2, <3>3 DEF Place
      <3>5. PICK x \in Int, d \in Int : x = e + h /\ d = c + 1
        OBVIOUS
      <3>6. d = csvCounter' + s * f * x
        <4>1. w * x = w * e + h * w
          BY <3>5
        <4>2. PICK i \in Int, j \in Int : i = w * e /\ j = h * w
          OBVIOUS
        <4>3. c = m + i
          BY <1>6, <3>2, <4>2
        <4>4. d = r + w * x
          <5>1. w * x = i + j
            BY <4>1, <4>2
          <5>2. m + 1 = j + r
            BY <3>2, <3>4, <4>2
          <5> QED
            BY <3>5, <4>3, <5>1, <5>2
        <4> QED
          BY <3>2, <3>4, <4>4
      <3>7. Counted(d)'
        BY <1>4, <3>6 DEF Counted
      <3>8. rowDue' <=> c = s * q
        <4>1. m % s = 0 <=> c = s * q
          <5>1. NextRow(m, e, c, q, s, f)
            BY <1>6, <3>2 DEF NextRow
          <5>2. DueNow(m, s, c, q)
            BY <5>1, DueRow
          <5> QED
            BY <5>2 DEF DueNow
        <4> QED
          BY <3>1, <3>2, <4>1
      <3>9. RowOfCall(d, q)'
        <4>1. PICK y \in Int : y = s * q
          OBVIOUS
        <4>2. rowDue' => d = s * q + 1
          BY <3>5, <3>8
        <4>3. ~rowDue' => s * (q - 1) + 1 <= d /\ d <= s * q
          BY <1>6, <3>5, <3>8, <4>1
        <4> QED
          BY <1>4, <4>2, <4>3 DEF RowOfCall
      <3>10. csvCounter' \in 0..s * f - 1 /\ rowDue' \in BOOLEAN
        BY <3>1, <3>2, <3>4
      <3> QED
        BY <3>7, <3>9, <3>10
    <2>2. CASE ~(csvEnabled' /\ csvFile' = "open")
      <3>1. csvCounter' = csvCounter /\ rowDue' = rowDue
        BY <1>2, <2>2
      <3>2. Counted(c)'
        BY <1>4, <1>6, <3>1 DEF Counted
      <3>3. RowOfCall(c, q)'
        BY <1>1, <1>4, <1>6, <3>1 DEF RowOfCall
      <3>4. csvCounter' \in 0..s * f - 1 /\ rowDue' \in BOOLEAN
        <4>1. csvCounter' \in 0..s * f - 1
          BY <1>5, <3>1
        <4> QED
          BY <1>1, <3>1, <4>1, Zenon
      <3> QED
        BY <3>2, <3>3, <3>4
    <2> QED
      BY <2>1, <2>2
  <1>9. CountInv'
    BY <1>7, <1>8 DEF CountInv
  <1>10. csvCounter' \in 0..csvStride' * FlushEvery /\ csvCounter' \in 0..csvStride' * FlushEvery - 1
    <2>1. csvCounter' \in 0..s * f /\ csvCounter' \in 0..s * f - 1
      BY <1>5, <1>8
    <2> QED
      BY <1>4, <2>1
  <1>11. CsvTypeOK'
    BY <1>1, <1>2, <1>3, <1>4, <1>8, <1>10, Zenon DEF CsvTypeOK
  <1> QED
    BY <1>3, <1>9, <1>10, <1>11 DEF CsvInv, FirstRows

LEMMA RowStep ==
  ASSUME CsvInv, WriteRow
  PROVE  CsvInv'
  <1>1. /\ csvConfig' = csvConfig /\ csvInitialized' = csvInitialized
        /\ csvEnabled' = csvEnabled /\ csvStride' = csvStride /\ csvCounter' = csvCounter
        /\ csvFile' = csvFile /\ closing' = closing /\ rowDue' = FALSE
        /\ Written(csvCounter % FlushEvery = 0) /\ rowDue
    BY DEF WriteRow
  <1>2. PICK s \in Nat \ {0}, f \in Nat \ {0}, n \in Int, u \in 0..FlushEvery + 1 :
          s = csvStride /\ f = FlushEvery /\ n = csvCounter /\ u = unflushed
    <2>1. csvStride \in Nat \ {0} /\ csvCounter \in Int /\ unflushed \in 0..FlushEvery + 1
      BY DEF CsvInv, CsvTypeOK
    <2> QED
      BY <2>1, CsvAssumption
  <1>3. PICK c \in Int, q \in Int, e \in Int :
          /\ c = n + s * f * e /\ c = s * q + 1
          /\ \A k \in 1..u : ~Flushes(q - k, s, f)
    BY <1>1, <1>2, ZenonT(30) DEF CsvInv, CountInv, Counted, RowOfCall, Unflushed
  <1>4. PICK p \in Int : p = q + 1
    OBVIOUS
  <1>5. Counted(c)'
    BY <1>1, <1>2, <1>3 DEF Counted
  <1>6. RowOfCall(c, p)'
    <2>1. s * (p - 1) = s * q /\ s * p = s * q + s
      BY <1>4
    <2>2. PICK x \in Int : x = s * q
      OBVIOUS
    <2>3. s * (p - 1) + 1 <= c /\ c <= s * p
      BY <1>3, <2>1, <2>2
    <2> QED
      BY <1>1, <1>2, <2>3 DEF RowOfCall
  <1>7. ASSUME Flushes(q, s, f)
        PROVE  n % f = 0
    <2>1. PICK h \in Int : s * q + 1 = f * h
      BY <1>7 DEF Flushes
    <2>2. PICK g \in Int : g = h - s * e
      OBVIOUS
    <2>3. n = g * f + 0
      <3>1. g * f = f * h - s * f * e
        BY <2>2
      <3>2. PICK x \in Int, y \in Int : x = f * h /\ y = s * f * e
        OBVIOUS
      <3> QED
        BY <1>3, <2>1, <3>1, <3>2
    <2>4. Place(n, g, 0, f)
      BY <2>3 DEF Place
    <2>5. Place(n, n \div f, n % f, f)
      BY Division, Zenon
    <2> QED
      BY <2>4, <2>5, OnePlace
  <1>8. unflushed' \in 0..FlushEvery + 1 /\ Unflushed(p)'
    <2>1. CASE csvFile # "open" \/ csvCounter % FlushEvery = 0
      <3>1. unflushed' = 0
        BY <1>1, <2>1 DEF Written
      <3> QED
        BY <1>2, <3>1 DEF Unflushed
    <2>2. CASE ~(csvFile # "open" \/ csvCounter % FlushEvery = 0)
      <3>1. unflushed' = OneMore(unflushed) /\ ~Flushes(q, s, f)
        BY <1>1, <1>2, <1>7, <2>2 DEF Written
      <3>2. unflushed' \in 0..FlushEvery + 1 /\ unflushed' <= u + 1
        BY <1>2, <3>1 DEF OneMore
      <3>3. ASSUME NEW k \in 1..unflushed'
            PROVE  ~Flushes(p - k, s, f)
        <4>1. CASE k = 1
          <5>1. p - k = q
            BY <1>4, <4>1
          <5> QED
            BY <3>1, <5>1
        <4>2. CASE k # 1
          <5>1. k - 1 \in 1..u /\ p - k = q - (k - 1)
            BY <1>2, <1>4, <3>2, <4>2
          <5> QED
            BY <1>3, <5>1
        <4> QED
          BY <4>1, <4>2
      <3>4. Unflushed(p)'
        BY <1>1, <1>2, <3>3 DEF Unflushed, Flushes
      <3> QED
        BY <3>2, <3>4
    <2> QED
      BY <2>1, <2>2
  <1>9. CountInv'
    BY <1>5, <1>6, <1>8 DEF CountInv
  <1>10. CsvTypeOK'
    BY <1>1, <1>8, Zenon DEF CsvInv, CsvTypeOK
  <1> QED
    BY <1>1, <1>9, <1>10, Zenon DEF CsvInv, FirstRows

LEMMA CloseStep ==
  ASSUME CsvInv, ClosePolicyDebugCsv
  PROVE  CsvInv'
  <1>1. /\ csvConfig' = csvConfig /\ csvInitialized' = csvInitialized
        /\ csvEnabled' = csvEnabled /\ csvStride' = csvStride /\ csvCounter' = csvCounter
        /\ closing' = TRUE /\ rowDue' = rowDue /\ unflushed' = 0
    BY DEF ClosePolicyDebugCsv
  <1>2. csvFile' \in {"none", "open", "failed", "closed"}
    BY DEF ClosePolicyDebugCsv, CsvInv, CsvTypeOK
  <1>3. unflushed' \in 0..FlushEvery + 1
    BY <1>1, CsvAssumption
  <1>4. CsvTypeOK'
    BY <1>1, <1>2, <1>3, Zenon DEF CsvInv, CsvTypeOK
  <1>5. CountInv'
    <2>1. PICK c \in Int, q \in Int : Counted(c) /\ RowOfCall(c, q)
      BY DEF CsvInv, CountInv
    <2>2. Counted(c)' /\ RowOfCall(c, q)'
      BY <1>1, <2>1 DEF Counted, RowOfCall
    <2>3. Unflushed(q)'
      BY <1>1 DEF Unflushed
    <2> QED
      BY <2>2, <2>3 DEF CountInv
  <1> QED
    BY <1>1, <1>4, <1>5, Zenon DEF CsvInv, FirstRows

LEMMA CsvStep == CsvInv /\ [CsvNext]_csvVars => CsvInv'
  <1> SUFFICES ASSUME CsvInv, [CsvNext]_csvVars
               PROVE  CsvInv'
    OBVIOUS
  <1>1. ASSUME UNCHANGED csvVars \/ LoadPolicy
        PROVE  CsvInv'
    <2>1. /\ csvConfig' \in CsvConfigs /\ csvInitialized' = csvInitialized
          /\ csvEnabled' = csvEnabled /\ csvStride' = csvStride /\ csvCounter' = csvCounter
          /\ closing' = closing /\ rowDue' = rowDue /\ unflushed' = unflushed
          /\ csvFile' = csvFile
      BY <1>1, Zenon DEF csvVars, LoadPolicy, CsvInv, CsvTypeOK
    <2>2. CountInv'
      BY <2>1 DEF CsvInv, CountInv, Counted, RowOfCall, Unflushed
    <2> QED
      BY <2>1, <2>2, Zenon DEF CsvInv, FirstRows, CsvTypeOK
  <1> QED
    BY <1>1, WriteStep, RowStep, CloseStep DEF CsvNext

(* However often the count of calls wraps, and whichever policy the file   *)
(* was opened with, a crash never loses more than FlushEvery rows of the   *)
(* policy debug CSV, as long as no number from 2 on divides both the stride*)
(* and FlushEvery.                                                         *)
THEOREM CsvIsSafe == CsvSpec => []CsvSafe
  BY CsvInitially, CsvStep, CsvInvIsSafe, PTL DEF CsvSpec
-----------------------------------------------------------------------------
(***** The remote of the real robot **************************************)

(* The statement of GetState that is tested next, and whether the first key*)
(* of a chord was found pressed and its second one is left.                *)
Tested == Len(Statements) - Len(untested)
HalfTested == untested # <<>> /\ untested[1].test # untested[1].pad

(* What is left of GetState are its last statements, in order.             *)
Tests == [pad : Seq(RemoteKeys), test : Seq(RemoteKeys)]

TestsInOrder ==
  /\ untested \in Seq(Tests)
  /\ Len(untested) <= Len(Statements)
  /\ \A i \in 1..Len(untested) :
       untested[i] \in [pad : {Statements[Tested + i]},
                        test : {Statements[Tested + i]} \cup
                               (IF i = 1 THEN {Tail(Statements[Tested + i])} ELSE {})]
  /\ HalfTested => /\ Len(untested[1].pad) = 2
                   /\ Head(untested[1].pad) \in keysSeen

KeysOf(i) == Range(Statements[i])

(* While the remote does not change, the last statement whose keys are all *)
(* pressed has written the pad.                                            *)
LastHeldWins ==
  \/ pad = <<>> /\ \A i \in 1..Tested : ~ KeysOf(i) \subseteq unitreeJoy
  \/ \E j \in 1..Tested :
       /\ pad = Statements[j]
       /\ \A i \in j + 1 .. Tested : ~ KeysOf(i) \subseteq unitreeJoy

RemoteRead ==
  /\ phaseReal = "idle" => pad = <<>>
  /\ phaseReal = "keys" => TestsInOrder
  /\ phaseReal # "keys" => untested = <<>>
  /\ phaseReal = "control" => velocity = stickRead
  /\ phaseReal \in {"keys", "control"} =>
       /\ unitreeJoy \subseteq keysSeen /\ Range(pad) \subseteq keysSeen
       /\ steady => keysSeen = unitreeJoy /\ LastHeldWins

RealInv ==
  /\ RealTypeOK /\ ServiceLetGo
  /\ KeyboardNeverAddsUp /\ NoForgottenMotor
  /\ RemoteRead
-----------------------------------------------------------------------------
(* GetState's statements are of one key or two, ...                        *)
LEMMA StatementFacts ==
  /\ Len(Statements) = 6 /\ DOMAIN Statements = 1..6
  /\ \A i \in 1..6 : /\ Statements[i] \in Seq(RemoteKeys)
                     /\ Len(Statements[i]) \in {1, 2}
                     /\ Statements[i] # <<>>
                     /\ Len(Statements[i]) = 1 => KeysOf(i) = {Head(Statements[i])}
                     /\ Len(Statements[i]) = 2 =>
                          /\ KeysOf(i) = {Head(Statements[i]), Head(Tail(Statements[i]))}
                          /\ Len(Tail(Statements[i])) = 1
                          /\ Tail(Statements[i]) # Statements[i]
  <1>1. Len(Statements) = 6 /\ DOMAIN Statements = 1..6
    BY DEF Statements
  <1>2. /\ Statements[1] = <<"X">> /\ Statements[2] = <<"L1">> /\ Statements[3] = <<"R1">>
        /\ Statements[4] = <<"L1", "X">> /\ Statements[5] = <<"R1", "X">>
        /\ Statements[6] = <<"L1", "R1">>
    BY DEF Statements
  <1>3. \A a, b \in RemoteKeys :
          /\ <<a>> \in Seq(RemoteKeys) /\ Len(<<a>>) = 1 /\ Head(<<a>>) = a /\ <<a>> # <<>>
          /\ Range(<<a>>) = {a}
          /\ <<a, b>> \in Seq(RemoteKeys) /\ Len(<<a, b>>) = 2 /\ Head(<<a, b>>) = a
          /\ <<a, b>> # <<>> /\ Tail(<<a, b>>) = <<b>> /\ <<b>> # <<a, b>>
          /\ Range(<<a, b>>) = {a, b}
    BY DEF Range
  <1>4. \A i \in 1..6 : \/ \E a \in RemoteKeys : Statements[i] = <<a>>
                        \/ \E a, b \in RemoteKeys : Statements[i] = <<a, b>>
    BY <1>2 DEF RemoteKeys
  <1>5. ASSUME NEW i \in 1..6, NEW a \in RemoteKeys, Statements[i] = <<a>>
        PROVE  /\ Statements[i] \in Seq(RemoteKeys) /\ Len(Statements[i]) = 1
               /\ Statements[i] # <<>> /\ KeysOf(i) = {Head(Statements[i])}
    BY <1>3, <1>5 DEF KeysOf
  <1>6. ASSUME NEW i \in 1..6, NEW a \in RemoteKeys, NEW b \in RemoteKeys,
               Statements[i] = <<a, b>>
        PROVE  /\ Statements[i] \in Seq(RemoteKeys) /\ Len(Statements[i]) = 2
               /\ Statements[i] # <<>>
               /\ KeysOf(i) = {Head(Statements[i]), Head(Tail(Statements[i]))}
               /\ Len(Tail(Statements[i])) = 1 /\ Tail(Statements[i]) # Statements[i]
    <2>1. /\ Head(<<a, b>>) = a /\ Tail(<<a, b>>) = <<b>> /\ Head(<<b>>) = b
          /\ Len(<<b>>) = 1 /\ <<b>> # <<a, b>> /\ Range(<<a, b>>) = {a, b}
          /\ <<a, b>> \in Seq(RemoteKeys) /\ Len(<<a, b>>) = 2 /\ <<a, b>> # <<>>
      BY <1>3
    <2> QED
      BY <1>6, <2>1 DEF KeysOf
  <1>7. ASSUME NEW i \in 1..6
        PROVE  /\ Statements[i] \in Seq(RemoteKeys)
               /\ Len(Statements[i]) \in {1, 2}
               /\ Statements[i] # <<>>
               /\ Len(Statements[i]) = 1 => KeysOf(i) = {Head(Statements[i])}
               /\ Len(Statements[i]) = 2 =>
                    /\ KeysOf(i) = {Head(Statements[i]), Head(Tail(Statements[i]))}
                    /\ Len(Tail(Statements[i])) = 1
                    /\ Tail(Statements[i]) # Statements[i]
    <2>1. CASE \E a \in RemoteKeys : Statements[i] = <<a>>
      BY <1>5, <2>1
    <2>2. CASE \E a, b \in RemoteKeys : Statements[i] = <<a, b>>
      <3>1. PICK a \in RemoteKeys, b \in RemoteKeys : Statements[i] = <<a, b>>
        BY <2>2
      <3>2. /\ Statements[i] \in Seq(RemoteKeys) /\ Len(Statements[i]) = 2
            /\ Statements[i] # <<>>
            /\ KeysOf(i) = {Head(Statements[i]), Head(Tail(Statements[i]))}
            /\ Len(Tail(Statements[i])) = 1 /\ Tail(Statements[i]) # Statements[i]
        BY <1>6, <3>1
      <3> QED
        BY <3>2
    <2> QED
      BY <1>4, <2>1, <2>2
  <1> QED
    BY <1>1, <1>7

(* ... and no later one has only keys of an earlier one.                   *)
LEMMA ChordsComeLast ==
  ASSUME NEW i \in 1..6, NEW j \in 1..6, i < j
  PROVE  ~ KeysOf(j) \subseteq KeysOf(i)
  <1>1. /\ KeysOf(1) = {"X"} /\ KeysOf(2) = {"L1"} /\ KeysOf(3) = {"R1"}
        /\ KeysOf(4) = {"L1", "X"} /\ KeysOf(5) = {"R1", "X"} /\ KeysOf(6) = {"L1", "R1"}
    BY DEF KeysOf, Statements, Range
  <1> QED
    BY <1>1

LEMMA HeldChordIsSeen == RemoteRead => PadIsOfThisTick
  <1> SUFFICES ASSUME RemoteRead, phaseReal = "control", steady,
                      NEW i \in DOMAIN Statements, KeysOf(i) \subseteq unitreeJoy
               PROVE  KeysOf(i) = Range(pad) \/ ~ Range(pad) \subseteq KeysOf(i)
    BY DEF RemoteRead, PadIsOfThisTick, KeysOf
  <1>1. i \in 1..6 /\ Tested = 6 /\ LastHeldWins
    BY StatementFacts DEF RemoteRead, Tested
  <1>2. PICK j \in 1..6 : /\ pad = Statements[j]
                          /\ \A k \in j + 1 .. 6 : ~ KeysOf(k) \subseteq unitreeJoy
    BY <1>1 DEF LastHeldWins
  <1>3. Range(pad) = KeysOf(j) /\ i <= j
    BY <1>1, <1>2 DEF KeysOf
  <1>4. i = j \/ i < j
    BY <1>1, <1>3
  <1> QED
    BY <1>1, <1>3, <1>4, ChordsComeLast
-----------------------------------------------------------------------------
(* The order of the natural numbers, which induction needs.                *)
LEMMA CommandIsTyped ==
  ASSUME mapping \in Mappings, NEW before \in [Motors -> Nat]
  PROVE  CommandOver(before) \in [Motors -> Nat]
  <1>1. mapping \in Seq(Motors)
    BY RealAssumption DEF RealAssumption
  <1> SUFFICES ASSUME NEW m \in Motors, \E i \in DOMAIN mapping : mapping[i] = m
               PROVE  Max({i \in DOMAIN mapping : mapping[i] = m}) \in Nat
    BY DEF CommandOver
  <1> DEFINE S == {i \in DOMAIN mapping : mapping[i] = m}
  <1>2. S \in SUBSET (1..Len(mapping)) /\ S # {} /\ Len(mapping) \in Nat
    BY <1>1
  <1>3. Max(S) \in S
    BY <1>2, MaxOfIndices
  <1> QED
    BY <1>2, <1>3
-----------------------------------------------------------------------------
LEMMA RealInitially == RealInit => RealInv
  <1> SUFFICES ASSUME RealInit PROVE RealInv
    OBVIOUS
  <1> USE RealAssumption DEF RealAssumption, RealInit
  <1>1. RealTypeOK
    <2>1. serviceOn \in BOOLEAN /\ checkFailed \in BOOLEAN /\ handling \in BOOLEAN
            /\ steady \in BOOLEAN
      BY Zenon
    <2>2. velocity \in Sticks /\ stickRead \in Sticks
            /\ lowCommand \in [Motors -> Nat]
      OBVIOUS
    <2> QED
      BY <2>1, <2>2 DEF RealTypeOK
  <1>2. ServiceLetGo /\ NoForgottenMotor
    BY DEF ServiceLetGo, NoForgottenMotor
  <1>3. KeyboardNeverAddsUp
    <2>1. velocity - 0 \in -1..1 /\ stickRead = 0
      OBVIOUS
    <2> QED
      BY <2>1 DEF KeyboardNeverAddsUp
  <1>4. RemoteRead
    BY DEF RemoteRead
  <1> QED
    BY <1>1, <1>2, <1>3, <1>4 DEF RealInv

(* What the remote's and the tick's variables carry over.                  *)
LEMMA TickUnmoved ==
  ASSUME RealInv, UNCHANGED tickVars, UNCHANGED unitreeJoy
  PROVE  KeyboardNeverAddsUp' /\ NoForgottenMotor' /\ RemoteRead'
  <1> USE DEF tickVars
  <1>1. KeyboardNeverAddsUp' /\ NoForgottenMotor'
    BY DEF RealInv, KeyboardNeverAddsUp, NoForgottenMotor
  <1>2. Tested' = Tested /\ (HalfTested <=> HalfTested')
    BY DEF Tested, HalfTested
  <1>3. TestsInOrder' <=> TestsInOrder
    BY <1>2 DEF TestsInOrder
  <1>4. LastHeldWins' <=> LastHeldWins
    BY <1>2 DEF LastHeldWins, KeysOf
  <1> QED
    BY <1>1, <1>3, <1>4 DEF RealInv, RemoteRead

LEMMA StartupStep ==
  ASSUME RealInv, NEW b \in BOOLEAN, QueryMotionStatus(b) \/ ReleaseMode(b)
  PROVE  RealInv'
  <1>1. UNCHANGED tickVars /\ UNCHANGED remoteVars
    BY DEF QueryMotionStatus, ReleaseMode
  <1>2. ServiceLetGo'
    BY DEF RealInv, RealTypeOK, ServiceLetGo, QueryMotionStatus, ReleaseMode, StartAt
  <1>3. RealTypeOK'
    <2>1. startup' \in {"check", "release", "loops"}
      BY DEF QueryMotionStatus, ReleaseMode, StartAt
    <2>2. serviceOn' \in BOOLEAN /\ checkFailed' \in BOOLEAN
      BY DEF RealInv, RealTypeOK, QueryMotionStatus, ReleaseMode
    <2> QED
      BY <1>1, <2>1, <2>2 DEF RealInv, RealTypeOK, tickVars, remoteVars
  <1> QED
    BY <1>1, <1>2, <1>3, TickUnmoved DEF RealInv, remoteVars

LEMMA ReceiveJoystickStep ==
  ASSUME RealInv, NEW keys \in SUBSET RemoteKeys, NEW stick \in Sticks,
         ReceiveJoystick(keys, stick)
  PROVE  RealInv'
  <1>1. UNCHANGED tickVars /\ UNCHANGED unitreeJoy
    BY DEF ReceiveJoystick
  <1>2. RealTypeOK'
    BY DEF ReceiveJoystick, RealInv, RealTypeOK, tickVars, serviceVars
  <1>3. ServiceLetGo'
    BY DEF ReceiveJoystick, RealInv, ServiceLetGo, serviceVars
  <1> QED
    BY <1>1, <1>2, <1>3, TickUnmoved DEF RealInv

(* New keys in the middle of GetState: what was seen stays seen, and if    *)
(* anything changed the remote is no longer steady.                        *)
LEMMA CopyKeysStep ==
  ASSUME RealInv, CopyKeys
  PROVE  RealInv'
  <1> USE DEF CopyKeys, RealInv
  <1>1. RealTypeOK'
    <2>1. unitreeJoy' \in SUBSET RemoteKeys
      BY DEF RealTypeOK
    <2>2. steady' \in BOOLEAN /\ handling' \in BOOLEAN
      BY DEF RealTypeOK
    <2>3. keysSeen' \in SUBSET RemoteKeys
      BY <2>1 DEF RealTypeOK
    <2> QED
      BY <2>1, <2>2, <2>3 DEF RealTypeOK, serviceVars
  <1>2. ServiceLetGo' /\ KeyboardNeverAddsUp' /\ NoForgottenMotor'
    BY DEF ServiceLetGo, KeyboardNeverAddsUp, NoForgottenMotor, serviceVars
  <1>3. Tested' = Tested /\ (HalfTested' <=> HalfTested)
    BY DEF Tested, HalfTested
  <1>4. TestsInOrder => TestsInOrder'
    BY <1>3 DEF TestsInOrder
  <1>5. steady' => steady /\ unitreeJoy' = unitreeJoy
    OBVIOUS
  <1>6. steady' /\ LastHeldWins => LastHeldWins'
    BY <1>3, <1>5 DEF LastHeldWins, KeysOf
  <1>7. RemoteRead'
    BY <1>4, <1>5, <1>6 DEF RemoteRead
  <1> QED
    BY <1>1, <1>2, <1>7

LEMMA BeginTickStep ==
  ASSUME RealInv, BeginTick
  PROVE  RealInv'
  <1> USE DEF BeginTick, RealInv
  <1>1. RealTypeOK'
    BY DEF RealTypeOK, serviceVars, remoteVars
  <1>2. ServiceLetGo' /\ KeyboardNeverAddsUp' /\ NoForgottenMotor'
    BY DEF ServiceLetGo, KeyboardNeverAddsUp, NoForgottenMotor, serviceVars
  <1>3. /\ Len(untested') = 6 /\ Tested' = 0
        /\ \A i \in 1..6 : untested'[i] = [pad |-> Statements[i], test |-> Statements[i]]
    BY StatementFacts DEF Tested
  <1>4. TestsInOrder'
    <2>1. untested' \in Seq(Tests)
      BY StatementFacts DEF Tests
    <2> QED
      BY <1>3, <2>1, StatementFacts DEF TestsInOrder, HalfTested
  <1>5. pad' = <<>> /\ Range(pad') = {}
    BY DEF RemoteRead, Range
  <1>6. LastHeldWins'
    BY <1>3, <1>5 DEF LastHeldWins
  <1>7. RemoteRead'
    BY <1>4, <1>5, <1>6 DEF RemoteRead, remoteVars
  <1> QED
    BY <1>1, <1>2, <1>7

(* One bit of unitree_joy.                                                 *)
LEMMA ReadKeyStep ==
  ASSUME RealInv, ReadKey
  PROVE  RealInv'
  <1> DEFINE n == Tested + 1
             test == untested[1].test
  <1>1. /\ TestsInOrder /\ phaseReal = "keys" /\ untested # <<>>
        /\ unitreeJoy \subseteq keysSeen /\ Range(pad) \subseteq keysSeen
        /\ steady => keysSeen = unitreeJoy /\ LastHeldWins
    BY DEF ReadKey, RealInv, RemoteRead
  <1>2. /\ untested \in Seq(Tests)
        /\ Len(untested) \in 1..6 /\ DOMAIN untested = 1..Len(untested)
        /\ n \in 1..6 /\ Tested = 6 - Len(untested) /\ Head(untested) = untested[1]
    <2>1. untested \in Seq(Tests)
            /\ Len(untested) <= 6
      BY <1>1, StatementFacts DEF TestsInOrder
    <2>2. Len(untested) \in 1..6 /\ DOMAIN untested = 1..Len(untested)
            /\ Head(untested) = untested[1]
      <3>1. Len(untested) \in Nat /\ Len(untested) # 0
        BY <1>1, <2>1
      <3>2. DOMAIN untested = 1..Len(untested) /\ Head(untested) = untested[1]
        BY <1>1, <2>1
      <3> QED
        BY <2>1, <3>1, <3>2, SMTT(30)
    <2>3. Tested = 6 - Len(untested)
      BY StatementFacts DEF Tested
    <2>4. n \in 1..6
      <3>1. Len(untested) \in 1..6
        BY <2>2
      <3>2. \A len \in 1..6 : (6 - len) + 1 \in 1..6
        OBVIOUS
      <3>3. n = (6 - Len(untested)) + 1
        BY <2>3
      <3> QED
        BY <3>1, <3>2, <3>3
    <2> QED
      BY <2>1, <2>2, <2>3, <2>4
  <1>3. /\ untested[1] \in Tests
        /\ untested[1].pad = Statements[n]
        /\ \/ test = Statements[n]
           \/ /\ test = Tail(Statements[n]) /\ Len(Statements[n]) = 2
              /\ Head(Statements[n]) \in keysSeen
    <2>1. untested[1] \in Tests
      BY <1>2
    <2>2. 1 \in 1..Len(untested)
      BY <1>2
    <2>3. untested[1] \in [pad : {Statements[n]}, test : {Statements[n], Tail(Statements[n])}]
      BY <1>1, <2>2 DEF TestsInOrder
    <2>4. untested[1].pad = Statements[n] /\ test \in {Statements[n], Tail(Statements[n])}
      BY <2>3
    <2>5. test # Statements[n] => Len(Statements[n]) = 2 /\ Head(Statements[n]) \in keysSeen
      BY <1>1, <2>4 DEF TestsInOrder, HalfTested
    <2> QED
      BY <2>1, <2>4, <2>5
  <1>4. \A i \in 2..Len(untested) :
          untested[i] = [pad |-> Statements[Tested + i], test |-> Statements[Tested + i]]
    BY <1>1, <1>2 DEF TestsInOrder
  <1>a. n = Tested + 1 /\ test = untested[1].test
    OBVIOUS
  <1> HIDE DEF n, test
  <1>5. /\ Statements[n] \in Seq(RemoteKeys) /\ Statements[n] # <<>>
        /\ Len(Statements[n]) \in {1, 2}
        /\ Len(Statements[n]) = 1 => KeysOf(n) = {Head(Statements[n])}
        /\ Len(Statements[n]) = 2 =>
             /\ KeysOf(n) = {Head(Statements[n]), Head(Tail(Statements[n]))}
             /\ Len(Tail(Statements[n])) = 1 /\ Tail(Statements[n]) # Statements[n]
    BY <1>2, StatementFacts
  <1>b. /\ test = Statements[n] \/ (test = Tail(Statements[n]) /\ Len(test) = 1
                                     /\ Len(Statements[n]) = 2)
        /\ Len(test) \in {1, 2}
    BY <1>3, <1>5
  <1>6. /\ ServiceLetGo' /\ KeyboardNeverAddsUp' /\ NoForgottenMotor'
        /\ unitreeJoy' = unitreeJoy /\ keysSeen' = keysSeen /\ steady' = steady
        /\ phaseReal' = "keys"
    BY <1>1 DEF RealInv, ReadKey, ServiceLetGo, KeyboardNeverAddsUp, NoForgottenMotor,
                serviceVars, remoteVars
  <1>7. pad' \in {pad, Statements[n]}
    BY <1>2, <1>3, <1>a DEF ReadKey
  <1>8. RealTypeOK'
    <2>1. pad' = <<>> \/ \E i \in DOMAIN Statements : pad' = Statements[i]
      BY <1>2, <1>7, StatementFacts DEF RealInv, RealTypeOK
    <2> QED
      BY <2>1 DEF RealInv, RealTypeOK, ReadKey, serviceVars, remoteVars
  <1>9. CASE Head(test) \in unitreeJoy /\ Len(test) > 1
    <2>1. test = Statements[n] /\ Len(Statements[n]) = 2
      <3>1. Len(test) # 1
        <4>1. \A len \in {1, 2} : len > 1 => len # 1
          OBVIOUS
        <4> QED
          BY <1>9, <1>b, <4>1
      <3> QED
        BY <1>b, <1>5, <3>1
    <2> DEFINE half == [pad |-> Statements[n], test |-> Tail(Statements[n])]
    <2>2. /\ untested' = <<half>> \o Tail(untested)
          /\ pad' = pad
      <3>1. [untested[1] EXCEPT !.test = Tail(test)] = half
        <4>1. \A r \in Tests : \A t : [r EXCEPT !.test = t] = [pad |-> r.pad, test |-> t]
          BY DEF Tests
        <4> QED
          BY <1>3, <2>1, <4>1
      <3> HIDE DEF half
      <3>2. Len(test) # 1
        <4>1. \A len \in {1, 2} : len > 1 => len # 1
          OBVIOUS
        <4> QED
          BY <1>9, <1>b, <4>1
      <3>3. untested' = <<half>> \o Tail(untested)
        BY <1>2, <1>9, <1>a, <3>1 DEF ReadKey
      <3>4. pad' = pad
        BY <1>2, <1>a, <3>2 DEF ReadKey
      <3> QED
        BY <3>3, <3>4
    <2>3. half \in Tests
      BY <1>5 DEF Tests
    <2>4. /\ untested' \in Seq(Tests)
          /\ Len(untested') = Len(untested)
          /\ untested'[1] = half
          /\ \A i \in 2..Len(untested) : untested'[i] = untested[i]
      <3> HIDE DEF half
      <3> QED
        BY <1>1, <1>2, <2>2, <2>3
    <2>5. Tested' = Tested
      BY <2>4 DEF Tested
    <2>6. Head(Statements[n]) \in keysSeen
      BY <1>1, <1>9, <2>1
    <2>7. TestsInOrder'
      <3>1. ASSUME NEW i \in 1..Len(untested')
            PROVE  untested'[i] \in [pad : {Statements[Tested' + i]},
                          test : {Statements[Tested' + i]} \cup
                            (IF i = 1 THEN {Tail(Statements[Tested' + i])} ELSE {})]
        <4>1. CASE i = 1
          BY <1>a, <2>4, <2>5, <4>1
        <4>2. CASE i # 1
          <5>1. i \in 2..Len(untested)
            BY <1>2, <2>4, <4>2
          <5>2. untested'[i] = [pad |-> Statements[Tested' + i],
                                test |-> Statements[Tested' + i]]
            BY <1>4, <2>4, <2>5, <5>1
          <5> QED
            BY <5>2
        <4> QED
          BY <4>1, <4>2
      <3>2. Len(untested'[1].pad) = 2 /\ Head(untested'[1].pad) \in keysSeen'
        BY <1>6, <2>1, <2>4, <2>6
      <3>3. Len(untested') <= Len(Statements)
        <4>1. Len(Statements) = 6
          BY StatementFacts
        <4> QED
          BY <1>2, <2>4, <4>1
      <3> QED
        BY <2>4, <3>1, <3>2, <3>3 DEF TestsInOrder
    <2>8. LastHeldWins => LastHeldWins'
      BY <1>6, <2>2, <2>5 DEF LastHeldWins, KeysOf
    <2> QED
      BY <1>1, <1>6, <1>8, <2>2, <2>7, <2>8 DEF RealInv, RemoteRead
  <1>10. CASE ~(Head(test) \in unitreeJoy /\ Len(test) > 1)
    <2>1. /\ untested' = Tail(untested)
          /\ pad' = IF Head(test) \in unitreeJoy /\ Len(test) = 1 THEN Statements[n] ELSE pad
      BY <1>2, <1>3, <1>10, <1>a DEF ReadKey
    <2>2. /\ untested' \in Seq(Tests)
          /\ Len(untested') = Len(untested) - 1
          /\ \A i \in 1..Len(untested') : untested'[i] = untested[i + 1]
      BY <1>1, <1>2, <2>1
    <2>3. Tested' = n
      BY <1>2, <1>a, <2>2, StatementFacts DEF Tested
    <2>4. TestsInOrder'
      <3>1. \A i \in 1..Len(untested') :
              untested'[i] = [pad |-> Statements[Tested' + i], test |-> Statements[Tested' + i]]
        BY <1>2, <1>4, <1>a, <2>2, <2>3
      <3>2. ~HalfTested'
        <4>1. untested' # <<>> => 1 \in 1..Len(untested')
          BY <2>2
        <4>2. untested' # <<>> =>
                untested'[1] = [pad |-> Statements[Tested' + 1], test |-> Statements[Tested' + 1]]
          BY <3>1, <4>1
        <4> QED
          BY <4>2 DEF HalfTested
      <3>3. Len(untested') <= Len(Statements)
        <4>1. Len(Statements) = 6
          BY StatementFacts
        <4> QED
          BY <1>2, <2>2, <4>1, SMTT(30)
      <3>4. \A i \in 1..Len(untested') :
              untested'[i] \in [pad : {Statements[Tested' + i]},
                    test : {Statements[Tested' + i]} \cup
                      (IF i = 1 THEN {Tail(Statements[Tested' + i])} ELSE {})]
        <4> TAKE i \in 1..Len(untested')
        <4>1. untested'[i] = [pad |-> Statements[Tested' + i], test |-> Statements[Tested' + i]]
          BY <3>1
        <4> QED
          BY <4>1
      <3> QED
        BY <2>2, <3>2, <3>3, <3>4 DEF TestsInOrder
    <2>5. CASE Head(test) \in unitreeJoy
      <3>1. Len(test) = 1 /\ pad' = Statements[n]
        BY <1>b, <1>10, <2>1, <2>5
      <3>2. KeysOf(n) \subseteq keysSeen
        BY <1>1, <1>3, <1>5, <2>5, <3>1
      <3>3. LastHeldWins'
        BY <1>2, <2>3, <3>1 DEF LastHeldWins
      <3> QED
        BY <1>1, <1>6, <1>8, <2>4, <3>1, <3>2, <3>3 DEF RealInv, RemoteRead, KeysOf
    <2>6. CASE Head(test) \notin unitreeJoy
      <3>1. pad' = pad
        BY <2>1, <2>6
      <3>2. ~ KeysOf(n) \subseteq unitreeJoy
        BY <1>3, <1>5, <2>6
      <3>3. LastHeldWins => LastHeldWins'
        <4>1. /\ \A i \in 1..n : i \in 1..Tested \/ i = n
              /\ \A i \in 1..Tested : i \in 1..n
              /\ \A j \in 1..Tested : \A i \in j + 1 .. n : i \in j + 1 .. Tested \/ i = n
          <5>1. Tested \in 0..5
            BY <1>2
          <5> QED
            BY <1>a, <5>1
        <4>2. CASE pad = <<>> /\ \A i \in 1..Tested : ~ KeysOf(i) \subseteq unitreeJoy
          BY <1>6, <2>3, <3>1, <3>2, <4>1, <4>2 DEF LastHeldWins, KeysOf
        <4>3. ASSUME NEW j \in 1..Tested, pad = Statements[j],
                     \A i \in j + 1 .. Tested : ~ KeysOf(i) \subseteq unitreeJoy
              PROVE  LastHeldWins'
          <5>1. j \in 1..n /\ \A i \in j + 1 .. n : ~ KeysOf(i) \subseteq unitreeJoy
            BY <3>2, <4>1, <4>3
          <5> QED
            BY <1>6, <2>3, <3>1, <4>3, <5>1 DEF LastHeldWins, KeysOf
        <4> QED
          BY <4>2, <4>3 DEF LastHeldWins
      <3> QED
        BY <1>1, <1>6, <1>8, <2>4, <3>1, <3>3 DEF RealInv, RemoteRead
    <2> QED
      BY <2>5, <2>6
  <1> QED
    BY <1>9, <1>10

LEMMA ReadAxesStep ==
  ASSUME RealInv, ReadAxes
  PROVE  RealInv'
  <1> USE RealAssumption DEF RealAssumption, ReadAxes, RealInv
  <1>1. joystick.stick \in Sticks /\ joystick.stick \in Int
    BY DEF RealTypeOK
  <1>2. RealTypeOK'
    BY <1>1 DEF RealTypeOK, serviceVars, remoteVars
  <1>3. KeyboardNeverAddsUp'
    <2>1. velocity' - stickRead' \in -1..1
      BY <1>1
    <2> QED
      BY <2>1 DEF KeyboardNeverAddsUp
  <1>4. ServiceLetGo' /\ NoForgottenMotor'
    BY DEF ServiceLetGo, NoForgottenMotor, serviceVars
  <1>5. LastHeldWins => LastHeldWins'
    BY DEF LastHeldWins, Tested, KeysOf, remoteVars
  <1>6. RemoteRead'
    BY <1>5 DEF RemoteRead, remoteVars
  <1> QED
    BY <1>2, <1>3, <1>4, <1>6

(* The keyboard's step starts from the stick, or from zero.                *)
LEMMA StateControllerStep ==
  ASSUME RealInv, NEW key \in {"W", "S", "Space", "None"}, StateController(key)
  PROVE  RealInv'
  <1> USE DEF RealInv
  <1>1. /\ velocity = stickRead /\ stickRead \in Sticks /\ Sticks \subseteq Int /\ 0 \in Sticks
        /\ MaxCommand \in Nat \ {0} /\ phaseReal' = "command"
    BY RealAssumption DEF RealAssumption, RealTypeOK, RemoteRead, StateController
  <1>2. PICK x \in {velocity, 0} : velocity' = CASE key = "W" -> Bounded(x + 1)
                                              [] key = "S" -> Bounded(x - 1)
                                              [] key = "Space" -> 0
                                              [] key = "None" -> x
    BY DEF StateController
  <1>3. x \in Int /\ x \in Sticks /\ x \in {stickRead, 0}
    BY <1>1
  <1>4. ASSUME NEW d \in {-1, 1}
        PROVE  /\ Bounded(x + d) \in -MaxCommand..MaxCommand
               /\ \/ Bounded(x + d) - x \in -1..1
                  \/ x > MaxCommand /\ Bounded(x + d) = MaxCommand
                  \/ x < -MaxCommand /\ Bounded(x + d) = -MaxCommand
    BY <1>1, <1>3 DEF Bounded
  <1>5. /\ velocity' \in Sticks \cup -MaxCommand..MaxCommand
        /\ \/ \E base \in {x, 0} : velocity' - base \in -1..1
           \/ x > MaxCommand /\ velocity' = MaxCommand
           \/ x < -MaxCommand /\ velocity' = -MaxCommand
    <2>1. CASE key = "W"
      BY <1>2, <1>4, <2>1
    <2>2. CASE key = "S"
      <3>1. velocity' = Bounded(x + -1)
        BY <1>2, <1>3, <2>2
      <3> QED
        BY <1>4, <3>1
    <2>3. CASE key = "Space"
      BY <1>1, <1>2, <2>3
    <2>4. CASE key = "None"
      <3>1. velocity' = x /\ x - x \in -1..1
        BY <1>2, <1>3, <2>4
      <3> QED
        BY <1>3, <3>1
    <2> QED
      BY <2>1, <2>2, <2>3, <2>4
  <1>6. KeyboardNeverAddsUp'
    <2>1. stickRead' = stickRead
      BY DEF StateController
    <2> QED
      BY <1>3, <1>5, <2>1 DEF KeyboardNeverAddsUp
  <1>7. RealTypeOK'
    BY <1>5 DEF RealTypeOK, StateController, serviceVars, remoteVars
  <1>8. ServiceLetGo' /\ NoForgottenMotor'
    BY <1>1 DEF ServiceLetGo, NoForgottenMotor, StateController, serviceVars
  <1>9. RemoteRead'
    <2>1. phaseReal = "control" /\ untested' = untested
      BY DEF StateController
    <2> QED
      BY <1>1, <2>1 DEF RemoteRead
  <1> QED
    BY <1>6, <1>7, <1>8, <1>9

(* Every message is filled in from nothing.                                *)
LEMMA SetCommandStep ==
  ASSUME RealInv, SetCommandReal
  PROVE  RealInv'
  <1> USE DEF RealInv
  <1> DEFINE stopped == [m \in Motors |-> 0]
  <1>1. lowCommand' = CommandOver(stopped) /\ mapping' = mapping /\ phaseReal' = "idle"
          /\ pad' = <<>>
    BY DEF SetCommandReal
  <1>2. lowCommand' \in [Motors -> Nat]
    <2>1. stopped \in [Motors -> Nat]
      OBVIOUS
    <2>2. mapping \in Mappings
      BY DEF RealTypeOK
    <2> HIDE DEF stopped
    <2> QED
      BY <1>1, <2>1, <2>2, CommandIsTyped
  <1>3. RealTypeOK'
    BY <1>1, <1>2 DEF RealTypeOK, SetCommandReal, serviceVars, remoteVars
  <1>4. NoForgottenMotor'
    <2>1. \A m \in Motors : (~ \E i \in DOMAIN mapping : mapping[i] = m) => lowCommand'[m] = 0
      BY <1>1 DEF CommandOver
    <2> QED
      BY <1>1, <2>1 DEF NoForgottenMotor
  <1>5. ServiceLetGo' /\ KeyboardNeverAddsUp'
    BY DEF SetCommandReal, ServiceLetGo, KeyboardNeverAddsUp, serviceVars
  <1>6. RemoteRead'
    BY <1>1 DEF SetCommandReal, RemoteRead
  <1> QED
    BY <1>3, <1>4, <1>5, <1>6

LEMMA RealInvInvariance == RealSpec => []RealInv
  <1>1. RealInv /\ [RealNext]_realVars => RealInv'
    <2> SUFFICES ASSUME RealInv, [RealNext]_realVars PROVE RealInv'
      OBVIOUS
    <2>1. CASE UNCHANGED realVars
      <3>1. UNCHANGED tickVars /\ UNCHANGED remoteVars /\ UNCHANGED serviceVars
        BY <2>1 DEF realVars, tickVars, remoteVars, serviceVars
      <3>2. RealTypeOK' /\ ServiceLetGo'
        BY <3>1 DEF RealInv, RealTypeOK, ServiceLetGo, tickVars, remoteVars, serviceVars
      <3> QED
        BY <3>1, <3>2, TickUnmoved DEF RealInv, remoteVars
    <2> QED
      BY <2>1, StartupStep, ReceiveJoystickStep, CopyKeysStep, BeginTickStep, ReadKeyStep,
         ReadAxesStep, StateControllerStep, SetCommandStep DEF RealNext
  <1> QED
    BY <1>1, RealInitially, PTL DEF RealSpec

(* RL_Real: the motors are commanded only without the robot's own service  *)
(* (or when CheckMode failed), by a message that stops all the motors it   *)
(* does not command; no button the state machine sees is older than its    *)
(* tick or hides a chord, however the subscriber overwrites the keys under *)
(* GetState; and, on any axis, whatever the range of its stick and of its  *)
(* keys, the keyboard never adds up.                                       *)
THEOREM RealRobotIsSafe == RealSpec => []RealRobotSafe
  <1>1. RealInv => RealRobotSafe
    BY HeldChordIsSeen DEF RealInv, RealRobotSafe
  <1> QED
    BY <1>1, RealInvInvariance, PTL
===============================================================================
