----------------------------- MODULE LayerPlans -----------------------------
(***************************************************************************)
(* The decomposition of a template into layers: the contracts between      *)
(* layers, the four predefined plans, the lookup of one by the name of a   *)
(* deployment pattern, and the groups of layers generated together.        *)
(*                                                                         *)
(* A plan is a sequence of layers. A layer imports values that it refers   *)
(* to by a parameter name, and exports values by the logical id of the     *)
(* resource that gives them, with an attribute for Fn::GetAtt and without  *)
(* one for Ref. Names and ids are the program's own.                       *)
(***************************************************************************)
EXTENDS Naturals, Sequences, SequencesExt

NoAttribute == ""

ByRef(n, id) == [name |-> n, resource |-> id, attribute |-> NoAttribute]
ByAtt(n, id, a) == [name |-> n, resource |-> id, attribute |-> a]

(* In the predefined plans a parameter has the name of the export.          *)
Imports(source, names) ==
  [i \in DOMAIN names |->
     [name |-> names[i], source |-> source, parameter |-> names[i]]]

Layer(n, imports, exports) == [name |-> n, imports |-> imports, exports |-> exports]

(* What is a LayerPlan: it has one layer at least, and lists are finite.    *)
IsLayerPlan(plan) ==
  /\ plan \in Seq(ToSet(plan)) \ {<<>>}
  /\ \A layer \in ToSet(plan) : /\ layer.imports \in Seq(ToSet(layer.imports))
                                /\ layer.exports \in Seq(ToSet(layer.exports))

Named(plan, n) == {i \in DOMAIN plan : plan[i].name = n}

(* get_layer: the first of that name.                                       *)
HasLayer(plan, n) == Named(plan, n) # {}
GetLayer(plan, n) == plan[CHOOSE i \in Named(plan, n) : \A j \in Named(plan, n) : i <= j]

-----------------------------------------------------------------------------
(* The predefined plans.                                                    *)

FoundationExports ==
  << ByAtt("VpcId", "MainVPC", "VpcId"), ByRef("PublicSubnet1Id", "PublicSubnet1"),
     ByRef("PrivateSubnet1Id", "PrivateSubnet1"), ByRef("InternetGatewayId", "InternetGateway") >>

(* A mutant: the second zone is forgotten.                                  *)
SingleAzExports == FoundationExports

FoundationExportsDualAz ==
  FoundationExports \o
    << ByRef("PublicSubnet2Id", "PublicSubnet2"), ByRef("PrivateSubnet2Id", "PrivateSubnet2") >>

SecurityExports ==
  << ByAtt("InferenceSecurityGroupId", "InferenceSecurityGroup", "GroupId"),
     ByAtt("ManagementSecurityGroupId", "ManagementSecurityGroup", "GroupId") >>

SingleInstancePlan ==
  << Layer("foundation", <<>>, FoundationExports),
     Layer("security", Imports("foundation", <<"VpcId">>),
       SecurityExports \o << ByAtt("InstanceProfileArn", "InferenceInstanceProfile", "Arn") >>),
     Layer("compute",
       Imports("foundation", <<"VpcId", "PublicSubnet1Id", "PrivateSubnet1Id">>) \o
       Imports("security", <<"InferenceSecurityGroupId", "InstanceProfileArn">>),
       << ByRef("InstanceId", "InferenceInstance"), ByAtt("ALBDnsName", "InferenceALB", "DNSName") >>) >>

AutoScalingFleetPlan ==
  << Layer("foundation", <<>>, FoundationExportsDualAz),
     Layer("security", Imports("foundation", <<"VpcId">>),
       SecurityExports \o << ByAtt("ALBSecurityGroupId", "ALBSecurityGroup", "GroupId"),
                             ByAtt("InstanceProfileArn", "InferenceInstanceProfile", "Arn") >>),
     Layer("compute",
       Imports("foundation", <<"VpcId", "PublicSubnet1Id", "PublicSubnet2Id",
                               "PrivateSubnet1Id", "PrivateSubnet2Id">>) \o
       Imports("security", <<"ALBSecurityGroupId", "InferenceSecurityGroupId",
                             "InstanceProfileArn">>),
       << ByAtt("ALBDnsName", "InferenceALB", "DNSName"), ByRef("ASGName", "InferenceASG") >>),
     Layer("scaling", Imports("compute", <<"ASGName">>), <<>>) >>

BatchProcessingPlan ==
  << Layer("foundation", <<>>,
       FoundationExports \o << ByRef("S3VpcEndpointId", "S3VpcEndpoint") >>),
     Layer("security", Imports("foundation", <<"VpcId">>),
       << ByAtt("BatchInstanceProfileArn", "BatchInstanceProfile", "Arn"),
          ByAtt("StepFunctionsRoleArn", "StepFunctionsRole", "Arn"),
          ByAtt("BatchSecurityGroupId", "BatchSecurityGroup", "GroupId") >>),
     Layer("compute",
       Imports("foundation", <<"PrivateSubnet1Id">>) \o
       Imports("security", <<"BatchSecurityGroupId", "BatchInstanceProfileArn">>),
       << ByRef("InputBucketName", "InputBucket"), ByRef("OutputBucketName", "OutputBucket"),
          ByRef("JobTableName", "JobTable"), ByRef("LaunchTemplateId", "BatchLaunchTemplate") >>),
     Layer("orchestration",
       Imports("security", <<"StepFunctionsRoleArn">>) \o
       Imports("compute", <<"LaunchTemplateId", "JobTableName">>),
       << ByAtt("StateMachineArn", "BatchStateMachine", "Arn"), ByRef("JobQueueUrl", "JobQueue") >>) >>

DistributedTrainingPlan ==
  << Layer("foundation", <<>>,
       FoundationExports \o << ByRef("TrainingSubnetId", "TrainingSubnet") >>),
     Layer("security", Imports("foundation", <<"VpcId">>),
       << ByAtt("ClusterSecurityGroupId", "ClusterSecurityGroup", "GroupId"),
          ByAtt("TrainingInstanceProfileArn", "TrainingInstanceProfile", "Arn") >>),
     Layer("compute",
       Imports("foundation", <<"TrainingSubnetId">>) \o
       Imports("security", <<"ClusterSecurityGroupId", "TrainingInstanceProfileArn">>),
       << ByRef("PlacementGroupName", "TrainingPlacementGroup"), ByRef("ASGName", "TrainingASG") >>),
     Layer("storage",
       Imports("foundation", <<"TrainingSubnetId">>) \o
       Imports("security", <<"ClusterSecurityGroupId">>),
       << ByRef("FileSystemId", "TrainingFileSystem"),
          ByAtt("FileSystemDnsName", "TrainingFileSystem", "DNSName"),
          ByRef("CheckpointBucketName", "CheckpointBucket") >>),
     Layer("networking",
       Imports("compute", <<"ASGName">>) \o Imports("storage", <<"FileSystemId">>), <<>>) >>

(* The registry, in its order: the first key that matches wins.             *)
PredefinedPatterns ==
  << <<"single", SingleInstancePlan>>, <<"single-instance", SingleInstancePlan>>,
     <<"standalone", SingleInstancePlan>>, <<"dev", SingleInstancePlan>>,
     <<"auto-scaling-fleet", AutoScalingFleetPlan>>, <<"fleet", AutoScalingFleetPlan>>,
     <<"asg", AutoScalingFleetPlan>>, <<"auto-scaling", AutoScalingFleetPlan>>,
     <<"batch-processing", BatchProcessingPlan>>, <<"batch", BatchProcessingPlan>>,
     <<"step-functions", BatchProcessingPlan>>, <<"offline", BatchProcessingPlan>>,
     <<"distributed-training", DistributedTrainingPlan>>,
     <<"training-cluster", DistributedTrainingPlan>>,
     <<"multi-node", DistributedTrainingPlan>>, <<"distributed", DistributedTrainingPlan>> >>

(* A pattern is known by its normalised name and by the set of registry     *)
(* keys that contain it or are contained in it. An equal key beats every    *)
(* key that only overlaps.                                                  *)
Candidates(pattern) ==
  LET equal == {i \in DOMAIN PredefinedPatterns : PredefinedPatterns[i][1] = pattern.name}
  IN  IF equal # {} THEN equal
      ELSE {i \in DOMAIN PredefinedPatterns : PredefinedPatterns[i][1] \in pattern.overlaps}

IsPredefined(pattern) == Candidates(pattern) # {}
GetPredefinedPlan(pattern) ==
  PredefinedPatterns[CHOOSE i \in Candidates(pattern) :
                       \A j \in Candidates(pattern) : i <= j][2]

-----------------------------------------------------------------------------
(* parallelizable_groups: the layers not yet taken whose sources are all    *)
(* resolved form the next group; when there is none (a cycle, or a source   *)
(* that is no layer) the rest is one group. Layers are known by their       *)
(* places in the plan, since two of them may have one name.                 *)
Sources(layer) == {layer.imports[i].source : i \in DOMAIN layer.imports}

Names(plan, I) == {plan[i].name : i \in I}

Ready(plan, taken) == {i \in DOMAIN plan \ taken : Sources(plan[i]) \subseteq Names(plan, taken)}

(* The groups that follow when those layers are taken.                      *)
GroupsAfter(plan) ==
  LET after[taken \in SUBSET DOMAIN plan] ==
        IF taken = DOMAIN plan THEN <<>>
        ELSE IF Ready(plan, taken) = {} THEN << DOMAIN plan \ taken >>
        ELSE << Ready(plan, taken) >> \o after[taken \cup Ready(plan, taken)]
  IN  after

(* A mutant: layer after layer, as the plan lists them.                     *)
InPlanOrder(plan) == [i \in DOMAIN plan |-> {i}]

ParallelizableGroups(plan) == GroupsAfter(plan)[{}]
=============================================================================
