----------------------------- MODULE PolicyParams -----------------------------
(***************************************************************************)
(* The parameters of the active policy and the gain damage mapped with     *)
(* them.  ReadYaml lays the policy's config.yaml over its profile over     *)
(* base.yaml, on the control thread and under model_mutex; GainAlphaCall-  *)
(* back, on the ROS thread, maps a message from controller to policy order *)
(* with the joint_mapping it finds there, and takes no lock to read it.    *)
(***************************************************************************)
EXTENDS Integers, Sequences, Functions

CONSTANTS
  NumDofs,
  Base,       \* base.yaml: parameter -> value
  PolicyNames,   \* the policies that may be loaded
  ConfigOf,   \* policy -> its config.yaml
  ProfileOf,  \* policy -> its profile, <<>> for none
  BadProfiles,\* the policies whose profile has an unsafe name or does not exist
  GainMessages,     \* the gain_alpha messages, in controller order
  MaxLoads    \* bound: policies loaded

(* base.yaml names the joints, another layer may, each for all of them.    *)
ASSUME ParamsAssumption ==
  /\ NumDofs \in Nat \ {0} /\ MaxLoads \in Nat /\ BadProfiles \subseteq PolicyNames
  /\ "joint_mapping" \in DOMAIN Base
  /\ Base["joint_mapping"] \in [1..NumDofs -> 1..NumDofs]
  /\ \A p \in PolicyNames :
       /\ "joint_mapping" \in DOMAIN ProfileOf[p] =>
            ProfileOf[p]["joint_mapping"] \in [1..NumDofs -> 1..NumDofs]
       /\ "joint_mapping" \in DOMAIN ConfigOf[p] =>
            ConfigOf[p]["joint_mapping"] \in [1..NumDofs -> 1..NumDofs]
  /\ GainMessages \subseteq Seq(Int)

VARIABLES
  params,       \* params.config_node
  policyLoaded, \* the policy InitRL loads or has loaded last
  reading,    \* where the control thread is in InitRL
  loaded,     \* InitRL has got past ReadYaml
  gainAlpha,  \* gain_alpha, in policy order
  callback,   \* GainAlphaCallback: "waiting", "clamped" or "mapped"
  alpha,      \* controller_alpha, then policy_alpha, of the callback
  damage,     \* history: the message gain_alpha stands for, <<>> for none
  overlap,    \* history: InitRL ran while the callback last did
  loads       \* policies loaded so far

paramsVars ==
  <<params, policyLoaded, reading, loaded, gainAlpha, callback, alpha, damage, overlap, loads>>

Dofs == 1..NumDofs
Healthy == [j \in Dofs |-> 1]

(* MergeYamlMap: the source's parameters replace those of the destination. *)
MergeKeeps(destination, source) ==  \* mutant: the destination's parameters win
  [k \in DOMAIN destination \cup DOMAIN source |->
    IF k \in DOMAIN destination THEN destination[k] ELSE source[k]]

MergeYamlMap(destination, source) ==
  [k \in DOMAIN destination \cup DOMAIN source |->
    IF k \in DOMAIN source THEN source[k] ELSE destination[k]]

-----------------------------------------------------------------------------
(* Control thread: InitRL up to InitJointNum, one step for every write of  *)
(* ReadYaml that another thread can come in between.                       *)

Reads(from, to) ==
  /\ reading = from /\ reading' = to
  /\ overlap' = (overlap \/ callback # "waiting")

(* YAML::LoadFile throws for a missing file before anything is changed.    *)
LoadFile(p, found) ==
  /\ loads < MaxLoads
  /\ IF found THEN Reads("idle", "base") ELSE UNCHANGED <<reading, overlap>>
  /\ reading = "idle"
  /\ policyLoaded' = IF found THEN p ELSE policyLoaded
  /\ loaded' = FALSE
  /\ loads' = loads + 1
  /\ UNCHANGED <<params, gainAlpha, callback, alpha, damage>>

FromBase ==
  /\ Reads("base", "profile")
  /\ params' = Base
  /\ UNCHANGED <<policyLoaded, loaded, gainAlpha, callback, alpha, damage, loads>>

(* An invalid profile name or a missing profile throws: base.yaml stays.   *)
MergeProfile ==
  /\ IF policyLoaded \in BadProfiles
     THEN Reads("profile", "idle") /\ UNCHANGED params
     ELSE Reads("profile", "config") /\ params' = MergeYamlMap(params, ProfileOf[policyLoaded])
  /\ UNCHANGED <<policyLoaded, loaded, gainAlpha, callback, alpha, damage, loads>>

MergeConfig ==
  /\ Reads("config", "joints")
  /\ params' = MergeYamlMap(params, ConfigOf[policyLoaded])
  /\ UNCHANGED <<policyLoaded, loaded, gainAlpha, callback, alpha, damage, loads>>

InitJointNumKeepsGain ==  \* mutant: the damage of the previous policy is kept
  /\ Reads("joints", "idle")
  /\ loaded' = TRUE
  /\ UNCHANGED <<params, policyLoaded, gainAlpha, callback, alpha, damage, loads>>

InitJointNum ==
  /\ Reads("joints", "idle")
  /\ gainAlpha' = Healthy /\ damage' = <<>>
  /\ loaded' = TRUE
  /\ UNCHANGED <<params, policyLoaded, callback, alpha, loads>>
-----------------------------------------------------------------------------
(* ROS thread: GainAlphaCallback.                                          *)

Clamped(a) == [j \in Dofs |-> IF a[j] < 0 THEN 0 ELSE IF a[j] > 1 THEN 1 ELSE a[j]]

(* A message of another size is ignored.                                   *)
GainMessage(message) ==
  /\ callback = "waiting"
  /\ Len(message) = NumDofs
  /\ callback' = "clamped" /\ alpha' = message
  /\ overlap' = (reading # "idle")
  /\ UNCHANGED <<params, policyLoaded, reading, loaded, gainAlpha, damage, loads>>

(* policy_alpha[i] = controller_alpha[joint_mapping[i]].                   *)
MapInverse(a) ==  \* mutant: mapped the wrong way round
  [i \in Dofs |-> a[Inverse(params["joint_mapping"], Dofs, Dofs)[i]]]

MapJoints(a) == [i \in Dofs |-> a[params["joint_mapping"][i]]]

MapToPolicy ==
  /\ callback = "clamped"
  /\ callback' = "mapped"
  /\ alpha' = MapJoints(Clamped(alpha)) /\ damage' = alpha
  /\ UNCHANGED <<params, policyLoaded, reading, loaded, gainAlpha, overlap, loads>>

SetGainAlpha ==
  /\ callback = "mapped"
  /\ callback' = "waiting"
  /\ gainAlpha' = alpha
  /\ alpha' = <<>>
  /\ UNCHANGED <<params, policyLoaded, reading, loaded, damage, overlap, loads>>
-----------------------------------------------------------------------------
ParamsInit ==
  /\ params = Base /\ policyLoaded \in PolicyNames /\ reading = "idle" /\ loaded = FALSE
  /\ gainAlpha = Healthy /\ callback = "waiting" /\ alpha = <<>>
  /\ damage = <<>> /\ overlap = FALSE /\ loads = 0

ReadYaml ==
  \/ \E p \in PolicyNames, found \in BOOLEAN : LoadFile(p, found)
  \/ FromBase \/ MergeProfile \/ MergeConfig \/ InitJointNum

GainAlphaCallback == (\E m \in GainMessages : GainMessage(m)) \/ MapToPolicy \/ SetGainAlpha

ParamsNext == ReadYaml \/ GainAlphaCallback

ParamsSpec == ParamsInit /\ [][ParamsNext]_paramsVars
-----------------------------------------------------------------------------
ParamsTypeOK ==
  /\ "joint_mapping" \in DOMAIN params
  /\ policyLoaded \in PolicyNames
  /\ reading \in {"idle", "base", "profile", "config", "joints"}
  /\ loaded \in BOOLEAN /\ overlap \in BOOLEAN
  /\ gainAlpha \in [Dofs -> 0..1]
  /\ callback \in {"waiting", "clamped", "mapped"}
  /\ loads \in 0..MaxLoads

(* What the three layers of a policy say together.                         *)
Resolved(p) ==
  [k \in DOMAIN Base \cup DOMAIN ProfileOf[p] \cup DOMAIN ConfigOf[p] |->
    CASE k \in DOMAIN ConfigOf[p] -> ConfigOf[p][k]
      [] k \in DOMAIN ProfileOf[p] \ DOMAIN ConfigOf[p] -> ProfileOf[p][k]
      [] OTHER -> Base[k]]

(* Between two InitRL the parameters are those of one policy, each from the*)
(* highest layer that has it, or base.yaml after a failure: nothing of an  *)
(* earlier policy is left over.                                            *)
LayersResolved ==
  reading = "idle" =>
    /\ loaded => params = Resolved(policyLoaded)
    /\ \/ params = Base
       \/ \E p \in PolicyNames \ BadProfiles : params = Resolved(p)

(* While a loaded policy runs, each joint has the gain of its own entry in *)
(* the last message since the load, in the joint order of this policy,     *)
(* unless InitRL ran while that message was handled.                       *)
DamageOnItsJoint ==
  loaded /\ reading = "idle" /\ callback = "waiting" /\ ~overlap =>
    \A i \in Dofs :
      gainAlpha[i] = IF damage = <<>> THEN 1
                     ELSE Clamped(damage)[params["joint_mapping"][i]]

(* The parameters and the damage are those of the policy that runs.        *)
ParamsSafe == ParamsTypeOK /\ LayersResolved /\ DamageOnItsJoint
=============================================================================
