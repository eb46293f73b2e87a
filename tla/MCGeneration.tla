----------------------------- MODULE MCGeneration -----------------------------
(* The deployments that the model checker looks at.                         *)
EXTENDS Deployment

Pattern(n, keys, networking) == [name |-> n, overlaps |-> keys, networking |-> networking]
Vpc(role, subnets, azs) == [role |-> role, subnets |-> subnets, azs |-> azs]
Appliance(vpc, ports) == [vpc |-> vpc, ports |-> ports]
File(named, main, readable, t) ==
  [named |-> named, main |-> main, readable |-> readable, template |-> t, parameters |-> {"Size"}]
Design(n, pattern, vpcs, appliances, files) ==
  [name |-> n, pattern |-> pattern, vpcs |-> vpcs, appliances |-> appliances, files |-> files]
Project(tenant, option, bits) == [tenant |-> tenant, designs |-> << <<option>> >>, bits |-> bits]

OneVpc == << Vpc("app", <<"public">>, 1) >>
OneAppliance == << Appliance("app", <<"public">>) >>
Simple(pattern, files) == Design("simple", pattern, OneVpc, OneAppliance, files)

(* Without snippets for networking these patterns are generated.            *)
DevHub == Pattern("dev-hub", {"dev"}, TRUE)
FleetHub == Pattern("asg-fleet-hub", {"fleet", "asg"}, TRUE)
BatchTransit == Pattern("batch-transit", {"batch"}, TRUE)
MultiNodeHub == Pattern("multi-node-hub", {"multi-node"}, TRUE)
Mesh == Pattern("mesh-spoke", {}, TRUE)
Ring == Pattern("ring-spoke", {}, TRUE)
Single == Pattern("single", {"single", "single-instance"}, FALSE)

(* Topologies: two zones and more appliances than zones; a VPC with three   *)
(* roles; two VPCs of one role; a port on two subnets of a small block.     *)
TwoZones ==
  << Vpc("hub", <<"public", "private">>, 2) >>
ThreeAppliances ==
  << Appliance("hub", <<"public", "private">>), Appliance("hub", <<"private">>),
     Appliance("hub", <<"public", "private">>) >>
TwoRoles == << Vpc("hub", <<"public", "private", "mgmt">>, 1), Vpc("spoke", <<"private">>, 2) >>
Mixed ==
  << Appliance("hub", <<"mgmt", "public">>), Appliance("spoke", <<"private">>),
     Appliance("hub", <<"mgmt">>), Appliance("spoke", <<"private">>) >>
SameRole == << Vpc("hub", <<"private", "public">>, 1), Vpc("hub", <<"public">>, 1) >>
Twins == << Appliance("hub", <<"private">>), Appliance("hub", <<"public">>) >>

Json == Template(FALSE, 0)
FaultyJson == Template(FALSE, 2)
TaggedYaml == Template(TRUE, 0)
KbFiles(t) == << File(FALSE, FALSE, TRUE, Json), File(TRUE, TRUE, TRUE, t) >>

(* One project is designed twice: the second time with other options.       *)
Twice ==
  [tenant |-> "t1", bits |-> 8,
   designs |-> << << Design("a", Ring, OneVpc, OneAppliance, <<>>),
                     Design("b", Ring, TwoZones, ThreeAppliances, <<>>) >>,
                  << Design("c", DevHub, OneVpc, OneAppliance, <<>>) >> >>]

MCProposals == { <<>>, <<"instance_size", "vpc_cidr">> }
MCDocumented == {Project("t1", Simple(Single, KbFiles(Json)), 8)}
MCRepeated == {Project(t, Simple(Mesh, <<>>), 8) : t \in {"t1", "t2"}}
MCProjects ==
  MCDocumented \cup MCRepeated \cup {Twice}
  \cup {Project("t1", Simple(p, <<>>), 8) :
          p \in {Single, DevHub, FleetHub, BatchTransit, MultiNodeHub}}
  \cup {Project("t1", Simple(Single, f), 8) :
          f \in {KbFiles(FaultyJson), KbFiles(TaggedYaml), << File(TRUE, FALSE, FALSE, Json) >>}}
  \cup {Project("t1", d, b) :
          d \in {Design("zones", Single, TwoZones, ThreeAppliances, KbFiles(Json)),
                 Design("roles", Single, TwoRoles, Mixed, KbFiles(Json)),
                 Design("twins", Single, SameRole, Twins, KbFiles(Json))},
          b \in {5, 6}}

(* Snippets for every type but networking; two of them make a "Role".       *)
Snippet(type, resources, parameters) ==
  [key |-> type, type |-> type, resources |-> resources, parameters |-> parameters,
   bare |-> {"Topic"}, tagged |-> FALSE]
MCSnippets ==
  << Snippet("vpc", [Net |-> {}], {"Cidr"}),
     Snippet("security", [Role |-> {}, Group |-> {}], {"Cidr"}),
     Snippet("compute", [Server |-> {"Role"}, Role |-> {}], {"Size"}),
     Snippet("outputs", [Topic |-> {}], {}) >>

Wiring(source, target, reachable) == [source |-> source, target |-> target, reachable |-> reachable]
Assembly(renames, wiring) == [renames |-> renames, wiring |-> wiring]
None == [id \in {} |-> ""]
MCAssemblyPlans ==
  {Assembly(None, {}),
   Assembly(None, {Wiring("Net", "Server", TRUE), Wiring("Net", "Absent", FALSE)}),
   Assembly([Role |-> "ServerRole"], {Wiring("Absent", "Topic", TRUE)}),
   Assembly(None, {Wiring("Net", "Group", FALSE)})}

(* What the planner may answer: a plan that is right, one whose layers need *)
(* each other, one that imports what nobody exports, and one in which the   *)
(* parameter of an import is the id that the import before it stands for.   *)
Import(n, source, parameter) == [name |-> n, source |-> source, parameter |-> parameter]
Base == Layer("foundation", <<>>, << ByAtt("VpcId", "Vpc", "VpcId"), ByRef("SubnetId", "Subnet") >>)
Top(imports) == Layer("compute", imports, << ByRef("FleetId", "Fleet") >>)
MCGeneratedPlans ==
  { << Top(<< Import("VpcId", "foundation", "TheVpc"), Import("SubnetId", "foundation", "TheSubnet") >>),
       Base >>,
    << Layer("foundation", << Import("FleetId", "compute", "TheFleet") >>, << ByRef("SubnetId", "Subnet") >>),
       Top(<< Import("SubnetId", "foundation", "TheSubnet") >>) >>,
    << Base, Top(<< Import("Absent", "foundation", "TheVpc") >>) >>,
    << Base, Top(<< Import("SubnetId", "foundation", "TheSubnet"),
                    Import("VpcId", "foundation", "Subnet") >>) >> }
=============================================================================
