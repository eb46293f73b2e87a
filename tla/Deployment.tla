------------------------------ MODULE Deployment ------------------------------
(***************************************************************************)
(* A project from its approved design to its documentation: the parameters *)
(* are resolved, the IaC worker generates from them, the docs worker and   *)
(* the regenerate endpoint write about what was generated.                 *)
(*                                                                         *)
(* One project is at hand at a time. How a task is submitted, fails and    *)
(* stores its result step by step is TaskPipeline's; here each ends in one *)
(* step.                                                                   *)
(***************************************************************************)
EXTENDS Generation, Documentation, Parameters

CONSTANTS
  Projects,        \* [tenant, designs, bits]: the recommendations the design workers will
                   \* store, each a sequence of options; the CIDR block's host bits
  Proposals,       \* the fields the model may propose to ask for
  Documented,      \* a bound: the projects whose documentation is written
  Repeated,        \* a bound: the projects that a later task than the first may be for
  MaxTasks         \* a bound: IaC tasks in a behaviour

Options(p) == UNION {ToSet(p.designs[m]) : m \in DOMAIN p.designs}
ASSUME MaxTasksAssumption == MaxTasks \in Nat
ASSUME DesignsAssumption ==
  \A p \in Projects :
    /\ p.designs \in Seq(Seq(Options(p))) \ {<<>>}
    /\ p.bits \in Nat
    /\ \A o \in Options(p) : IsDesignOption(o) /\ o.files \in FileList

ASSUME ProposalsAssumption == \A proposal \in Proposals : IsSequence(proposal)

VARIABLES
  project,     \* the project at hand
  design,      \* its design step: which recommendation, and resolved_parameters
  approved,    \* approved_design_index, 0 for None
  asked,       \* the refinement plan that a client was given last
  refining,    \* a request to /design/refine between its load and its save
  iac,         \* its iac step: "none", "files", or "no files"
  tasks        \* how many of MaxTasks have begun

designVars == << project, design, approved, asked, refining >>
vars == << genVars, docsVars, designVars, iac, tasks >>

NoProject == [tenant |-> "none"]
ASSUME NoProjectAssumption == NoProject \notin Projects

NotResolved == [name |-> "none"]
Recommended(m) == [made |-> m, resolved |-> NotResolved]
NotAsked == [fields |-> <<>>, found |-> {}]
NotRefining == [made |-> 0]

Init ==
  /\ GenInit /\ DocsInit
  /\ project = NoProject /\ design = Recommended(0) /\ approved = 0
  /\ asked = NotAsked /\ refining = NotRefining
  /\ iac = "none" /\ tasks = 0

(* The workers read the design step once, when they begin: nothing is lost  *)
(* by letting it change only between two tasks.                             *)
BetweenTasks == phase = "idle" /\ docsTask = "idle" /\ tasks < MaxTasks

OpenProject(p) ==
  /\ BetweenTasks /\ refining = NotRefining
  /\ project # p /\ (tasks > 0 => p \in Repeated)
  /\ project' = p /\ design' = Recommended(1) /\ approved' = 0 /\ asked' = NotAsked
  /\ iac' = "none"
  /\ UNCHANGED << genVars, docsVars, refining, tasks >>

(* process_design_task stores another recommendation; the approved index    *)
(* stays as it was.                                                         *)
Redesign ==
  /\ BetweenTasks
  /\ project # NoProject /\ design.made < Len(project.designs)
  /\ design' = Recommended(design.made + 1)
  /\ UNCHANGED << genVars, docsVars, project, approved, asked, refining, iac, tasks >>

(* select_design: the index is checked against the step as it was read,     *)
(* before the model was asked which fields to add; meanwhile another        *)
(* recommendation may have been stored. A failed call adds none. Selecting  *)
(* again, and parameters that the model itself names, are left out.         *)
SelectDesign ==
  /\ BetweenTasks
  /\ project # NoProject /\ approved = 0
  /\ \E m \in 1 .. design.made, proposal \in Proposals :
     \E i \in DOMAIN project.designs[m] :
       /\ approved' = i
       /\ asked' = [fields |-> RefinementFields(proposal),
                    found |-> TemplateParametersFound(project.designs[m][i].files)]
  /\ UNCHANGED << genVars, docsVars, project, design, refining, iac, tasks >>

(* refine_design up to its save: nothing is stored when the resolver raises,*)
(* or when there is no option of that index. A template file that cannot be *)
(* downloaded is left out. Refining a resolved design again is not modelled.*)
LoadForRefine ==
  /\ BetweenTasks /\ refining = NotRefining
  /\ project # NoProject /\ approved \in DOMAIN project.designs[design.made]
  /\ design.resolved = NotResolved
  /\ LET selected == project.designs[design.made][approved]
     IN  /\ ~ResolveRaises(selected, project.bits)
         /\ \E gone \in SUBSET DOMAIN selected.files :
              LET files == Restrict(selected.files, DOMAIN selected.files \ gone)
              IN  /\ Mishap(Cardinality(gone))
                  /\ refining' = [made |-> design.made,
                                  resolved |-> Resolve(selected, files, project.bits)]
  /\ asked' = NotAsked
  /\ UNCHANGED << phase, taskVars, layerVars, loopVars, cache, docsVars, project, design,
                  approved, iac, tasks >>

(* A mutant: only the resolved parameters are written.                      *)
SaveIntoDesign ==
  /\ refining # NotRefining
  /\ design' = [design EXCEPT !.resolved = refining.resolved]
  /\ refining' = NotRefining
  /\ UNCHANGED << genVars, docsVars, project, approved, asked, iac, tasks >>

(* The whole step is written back, over whatever was stored since.          *)
SaveRefined ==
  /\ refining # NotRefining
  /\ design' = refining
  /\ refining' = NotRefining
  /\ UNCHANGED << genVars, docsVars, project, approved, asked, iac, tasks >>

(* process_iac_task.                                                        *)
StartIac ==
  /\ BetweenTasks /\ refining = NotRefining
  /\ design.resolved # NotResolved
  /\ tasks > 0 => project \in Repeated
  /\ GenBegin([tenant |-> project.tenant, pattern |-> design.resolved.pattern,
               files |-> design.resolved.files])
  /\ tasks' = tasks + 1
  /\ UNCHANGED << docsVars, designVars, iac >>

(* An output without files is stored like any other, over what was there.   *)
FinishIac ==
  /\ iac' = IF output.status = "raised" THEN iac ELSE output.status
  /\ GenEnd
  /\ UNCHANGED << docsVars, designVars, tasks >>

GenerateStep ==
  /\ GenWork \/ ExpirePlan
  /\ UNCHANGED << docsVars, designVars, iac, tasks >>

(* process_docs_task: it asks for a design, not for a template.             *)
StartDocumentation ==
  /\ phase = "idle" /\ project \in Documented /\ design.resolved # NotResolved
  /\ StartDocs(iac # "files")
  /\ UNCHANGED << genVars, designVars, iac, tasks >>

RegenerateSection ==
  /\ docsTask # "idle"
  /\ \E r \in Requests, s \in Sections : Regenerate(r, s, iac # "files")
  /\ UNCHANGED << genVars, designVars, iac, tasks >>

DocumentStep ==
  /\ DocsWork \/ \E r \in Requests : RequestWork(r)
  /\ UNCHANGED << genVars, designVars, iac, tasks >>

Next ==
  \/ \E p \in Projects : OpenProject(p)
  \/ Redesign \/ SelectDesign \/ LoadForRefine \/ SaveRefined
  \/ StartIac \/ GenerateStep \/ FinishIac
  \/ StartDocumentation \/ RegenerateSection \/ DocumentStep

(* A task that was begun goes on: every call in it answers or raises. For   *)
(* the generation this is WF_vars(GenWork) written out, with the condition  *)
(* under which GenWork is enabled in its place: a task is under way.        *)
Generating == phase \notin {"idle", "ended"}

Fairness ==
  /\ []<>~Generating \/ []<><<GenWork /\ UNCHANGED << docsVars, designVars, iac, tasks >> >>_vars
  /\ WF_vars(DocsWork /\ UNCHANGED << genVars, designVars, iac, tasks >>)

Spec == Init /\ [][Next]_vars /\ Fairness

-----------------------------------------------------------------------------
TypeOK ==
  /\ GenTypeOK
  /\ DocsTypeOK
  /\ project \in Projects \cup {NoProject}
  /\ project # NoProject => design.made \in DOMAIN project.designs
  /\ approved # 0 => \E m \in 1 .. design.made : approved \in DOMAIN project.designs[m]
  /\ iac \in {"none", "files", "no files"}
  /\ tasks \in 0 .. MaxTasks

(* The resolved parameters that are stored next to a recommendation bear    *)
(* the name of one of its options, though a design worker may store another *)
(* recommendation between the load and the save of refine_design. (One      *)
(* refinement is under way at a time.)                                      *)
ResolvedWithItsDesign ==
  design.resolved # NotResolved =>
    \E i \in DOMAIN project.designs[design.made] :
      design.resolved.name = project.designs[design.made][i].name

Apart(s, t) == s.first + s.size <= t.first \/ t.first + t.size <= s.first

Distinct(resolved) ==
  /\ \A i, j \in resolved.interfaces :
       i.vpc = j.vpc /\ i.appliance # j.appliance => i.address # j.address
  /\ \A i \in resolved.interfaces :
       i.address >= i.subnet.first /\ i.address < i.subnet.first + i.subnet.size
  /\ \A v \in DOMAIN resolved.subnets : \A s, t \in resolved.subnets[v] : s # t => Apart(s, t)

(* No two appliances are given one address in one VPC, every address is one *)
(* of the subnet that its interface is connected to, and the subnets of a   *)
(* VPC do not overlap. (_compute_subnets, resolve and _assign_interfaces    *)
(* of ParameterResolver together.)                                          *)
AddressesDistinct == design.resolved # NotResolved => Distinct(design.resolved)
=============================================================================
