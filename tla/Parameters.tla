----------------------------- MODULE Parameters -----------------------------
(***************************************************************************)
(* From an approved design option to the parameters of its template: the   *)
(* fields the user is asked for, and the deterministic resolver that       *)
(* computes zones, subnets and addresses.                                  *)
(*                                                                         *)
(* Every VPC of a design gets the one CIDR block the user gave. Addresses  *)
(* count from its start, so the block is known by its number of host bits. *)
(***************************************************************************)
EXTENDS Naturals, Sequences, SequencesExt, FiniteSetsExt

IsSequence(s) == s \in Seq(ToSet(s))

(* What DesignOption's validators accept: each port connects to a subnet    *)
(* role of some VPC, not necessarily of the appliance's own.                *)
IsDesignOption(design) ==
  LET roles == UNION {ToSet(design.vpcs[v].subnets) : v \in DOMAIN design.vpcs}
  IN  /\ IsSequence(design.vpcs) /\ design.vpcs # <<>>
      /\ IsSequence(design.appliances) /\ design.appliances # <<>>
      /\ \A v \in DOMAIN design.vpcs :
           /\ IsSequence(design.vpcs[v].subnets) /\ design.vpcs[v].subnets # <<>>
           /\ design.vpcs[v].azs \in 1 .. 2
      /\ \A a \in DOMAIN design.appliances :
           /\ design.appliances[a].ports # <<>>
           /\ ToSet(design.appliances[a].ports) \subseteq roles

-----------------------------------------------------------------------------
(* The refinement plan.                                                     *)

BaseFields == << "aws_region", "vpc_cidr", "environment", "project_name" >>

(* _fetch_template_parameters and _parse_template_parameters: of the files  *)
(* at the design's prefix the first with a main template's name, else the   *)
(* first of all. The plain YAML loader fails on a CloudFormation tag.       *)
TemplateParametersFound(files) ==
  LET main == {i \in DOMAIN files : files[i].main}
      file == files[IF main # {} THEN Min(main) ELSE 1]
  IN  IF files # <<>> /\ file.readable /\ ~file.template.tagged THEN file.parameters ELSE {}

(* What the model proposes besides the base fields, in its order.           *)
Added(proposal) ==
  LET kept[n \in 0 .. Len(proposal)] ==
        IF n = 0 THEN <<>>
        ELSE IF proposal[n] \in ToSet(BaseFields) THEN kept[n - 1]
        ELSE Append(kept[n - 1], proposal[n])
  IN  kept[Len(proposal)]

(* generate_refinement_plan: the base fields alone when the call fails or   *)
(* its output is not structured (proposal = <<>>).                          *)
RefinementFields(proposal) == BaseFields \o Added(proposal)

-----------------------------------------------------------------------------
(* ParameterResolver.                                                       *)

(* The powers of two up to 2^bits, the number of addresses in the block.    *)
TwoTo(bits) ==
  LET power[k \in 0 .. bits] == IF k = 0 THEN 1 ELSE 2 * power[k - 1] IN power

(* extra_bits, math.ceil(math.log2(total_subnets)), is the least number of  *)
(* bits that is enough; there is none when the block has too few.           *)
EnoughBits(vpc, bits) == {k \in 0 .. bits : TwoTo(bits)[k] >= Len(vpc.subnets) * vpc.azs}

(* _compute_subnets: role by role, zone by zone, equal parts of the block.  *)
Subnet(vpc, bits, r, z) ==
  LET size == TwoTo(bits)[bits - Min(EnoughBits(vpc, bits))]
  IN  [role |-> vpc.subnets[r], az |-> z, size |-> size,
       first |-> size * ((r - 1) * vpc.azs + z - 1)]

ComputeSubnets(vpc, bits) ==
  {Subnet(vpc, bits, r, z) : r \in DOMAIN vpc.subnets, z \in 1 .. vpc.azs}

WithRole(design, role) == {v \in DOMAIN design.vpcs : design.vpcs[v].role = role}

(* subnet_lookup[(role of a VPC, role of a subnet, zone)] is of one of      *)
(* these VPCs.                                                              *)
Having(design, vpcRole, role, az) ==
  {v \in WithRole(design, vpcRole) :
     role \in ToSet(design.vpcs[v].subnets) /\ az <= design.vpcs[v].azs}

(* The index of an appliance among those of its VPC role, and its zone.     *)
Placed(design, k) ==
  LET bp == design.appliances[k]
      index == Cardinality({j \in 1 .. k - 1 : design.appliances[j].vpc = bp.vpc})
      vpc == design.vpcs[Min(WithRole(design, bp.vpc))]
  IN  [vpc |-> bp.vpc, ports |-> bp.ports, index |-> index, az |-> (index % vpc.azs) + 1,
       roles |-> ToSet(vpc.subnets)]

(* _assign_interfaces: a port is given a subnet of its role in the zone of  *)
(* the appliance. Of two VPCs of one role, as of two subnets of one role,   *)
(* it is in the later.                                                      *)
PortVpcs(design, k, p) ==
  LET a == Placed(design, k) IN Having(design, a.vpc, a.ports[p], a.az)

PortSubnet(design, bits, k, p) ==
  LET a == Placed(design, k)
      vpc == design.vpcs[Max(PortVpcs(design, k, p))]
  IN  Subnet(vpc, bits, Max({r \in DOMAIN vpc.subnets : vpc.subnets[r] = a.ports[p]}), a.az)

(* A mutant: every appliance gets the first address.                        *)
FirstOffset(index) == 10

Offset(index) == 10 + index

(* resolve raises ValueError: the block is too small to split, no VPC of    *)
(* the appliance's role, no subnet for a port, an address past its subnet.  *)
ResolveRaises(design, bits) ==
  \/ \E v \in DOMAIN design.vpcs : EnoughBits(design.vpcs[v], bits) = {}
  \/ \E k \in DOMAIN design.appliances :
       \/ WithRole(design, design.appliances[k].vpc) = {}
       \/ LET a == Placed(design, k)
          IN  \E p \in DOMAIN a.ports :
                \/ a.ports[p] \notin a.roles
                \/ PortVpcs(design, k, p) = {}
                \/ Offset(a.index) >= PortSubnet(design, bits, k, p).size

Interface(design, bits, k, p) ==
  LET subnet == PortSubnet(design, bits, k, p)
  IN  [appliance |-> k, port |-> p, vpc |-> Max(PortVpcs(design, k, p)), subnet |-> subnet,
       address |-> subnet.first + Offset(Placed(design, k).index)]

(* With those of the design's template files that could be downloaded.      *)
Resolve(design, files, bits) ==
  [name |-> design.name, pattern |-> design.pattern, files |-> files,
   zones |-> Max({design.vpcs[v].azs : v \in DOMAIN design.vpcs}),
   subnets |-> [v \in DOMAIN design.vpcs |-> ComputeSubnets(design.vpcs[v], bits)],
   interfaces |-> UNION {{Interface(design, bits, k, p) : p \in DOMAIN design.appliances[k].ports} :
                           k \in DOMAIN design.appliances}]

=============================================================================
