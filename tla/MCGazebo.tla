------------------------------ MODULE MCGazebo ------------------------------
(***************************************************************************)
(* The Gazebo side of the system, in five parts that no operation relates: *)
(* the fault switch, the parameters and the gain damage, the foot contacts,*)
(* the debug CSV, and the joint controller group.  Each behaviour is one of*)
(* one part.                                                               *)
(***************************************************************************)
EXTENDS FaultSwitch, PolicyParams, FootContacts, DebugCsv, JointGroup, TLC

VARIABLE part   \* the part that moves

gazeboVars == <<part, vars, paramsVars, contactVars, csvVars, groupVars>>

Parts == {"fault", "params", "contacts", "csv", "group"}

FaultPart(Step) ==
  part = "fault" /\ Step /\ UNCHANGED <<part, paramsVars, contactVars, csvVars, groupVars>>

ParamsPart ==
  part = "params" /\ ParamsNext /\ UNCHANGED <<part, vars, contactVars, csvVars, groupVars>>

ContactsPart ==
  part = "contacts" /\ ContactsNext /\ UNCHANGED <<part, vars, paramsVars, csvVars, groupVars>>

CsvPart ==
  part = "csv" /\ CsvNext /\ UNCHANGED <<part, vars, paramsVars, contactVars, groupVars>>

GroupPart ==
  part = "group" /\ GroupNext /\ UNCHANGED <<part, vars, paramsVars, contactVars, csvVars>>

(* The other parts rest in one of their initial states.                    *)
GazeboInit ==
  /\ part \in Parts
  /\ Init /\ ParamsInit /\ ContactsInit /\ CsvInit /\ GroupInit
  /\ part # "fault" => ~faultSwitch
  /\ part # "params" => policyLoaded = "a"
  /\ part # "contacts" => sensing = {} /\ ~topicAlive /\ ~linksAlive
  /\ part # "csv" => csvNode = "sim" /\ csvConfig = [csv |-> "absent", stride |-> 1]

GazeboNext == FaultPart(Next) \/ ParamsPart \/ ContactsPart \/ CsvPart \/ GroupPart

(* Fair to the fault switch as FaultSwitch!FairSpec is.                    *)
GazeboSpec ==
  GazeboInit /\ [][GazeboNext]_gazeboVars /\ WF_gazeboVars(FaultPart(RunModel))
-----------------------------------------------------------------------------
BaseYaml == [joint_mapping |-> <<1, 2, 3>>, stiffness |-> 1]

ConfigYaml ==
  "a" :> [joint_mapping |-> <<2, 3, 1>>] @@ "b" :> [stiffness |-> 2] @@
  "c" :> [joint_mapping |-> <<3, 1, 2>>, damping |-> 1]

ProfileYaml == "a" :> [stiffness |-> 3] @@ "b" :> <<>> @@ "c" :> <<>>

GainAlphaMessages == {<<0, 1, 1>>, <<1, 2, -1>>, <<1, 0>>}

CsvSettings == [csv : {"absent", "off", "on"}, stride : {0, 1, 2, 3}]

(* Configured anew under other names; a joint the description does not know*)
JointNames == {<<"hip", "knee">>, <<"hip", "toe">>, <<"knee", "hip">>}

FaultAlphas == {<<0, 1>>, <<1, 2>>, <<1>>}
=============================================================================
