------------------------------ MODULE Templates ------------------------------
(***************************************************************************)
(* The paths that make a template without layers, and the validators.      *)
(*                                                                         *)
(* A template is known by whether its text is YAML with CloudFormation     *)
(* tags (!Ref and the like) and by the number of errors cfn-lint finds in  *)
(* it. JSON, and YAML in the long form, have no tags.                      *)
(***************************************************************************)
EXTENDS Naturals, Sequences, SequencesExt, FiniteSetsExt

Template(tagged, lint) == [tagged |-> tagged, lint |-> lint]
AnyTemplate == [tagged : BOOLEAN, lint : Nat]

-----------------------------------------------------------------------------
(* What may lie at a design's prefix in the bucket.                         *)
FileList ==
  Seq([named : BOOLEAN, main : BOOLEAN, readable : BOOLEAN, template : AnyTemplate,
       parameters : SUBSET STRING])

(* PARAMETERIZE: the first file with a template's name. It is not readable  *)
(* when it is empty, has an unknown tag or is no mapping.                   *)
TemplateFiles(files) == {i \in DOMAIN files : files[i].named}
ParameterizeRaises(files) == ~files[Min(TemplateFiles(files))].readable

(* cfn_load and cfn_dump keep the tags; defaults change no reference.       *)
Parameterize(files) == files[Min(TemplateFiles(files))].template

-----------------------------------------------------------------------------
(* COMPOSE. A snippet has a key and a type; it gives, for each of its       *)
(* resources, the ids that it refers to, and the parameters it declares; it *)
(* names the resources that have no Properties.                             *)
AlwaysRequired == {"vpc", "security", "compute", "outputs"}
InferResourceTypes(pattern) ==
  AlwaysRequired \cup IF pattern.networking THEN {"networking"} ELSE {}

(* discover_snippets: nothing when the bucket cannot be listed.             *)
Covered(pattern, snippets) ==
  InferResourceTypes(pattern) \subseteq {snippets[i].type : i \in DOMAIN snippets}

Renamed(plan, id) == IF id \in DOMAIN plan.renames THEN plan.renames[id] ELSE id

Giving(plan, snippets, n) ==
  {i \in DOMAIN snippets : \E id \in DOMAIN snippets[i].resources : Renamed(plan, id) = n}

(* Where a resource's definition comes from: a later snippet's over an      *)
(* earlier one's.                                                           *)
Giver(plan, snippets, n) == snippets[Max(Giving(plan, snippets, n))]
OldId(plan, snippets, n) ==
  CHOOSE id \in DOMAIN Giver(plan, snippets, n).resources : Renamed(plan, id) = n

(* The resources under their new ids, with the ids that each refers to.     *)
(* What refers to a renamed resource keeps the old id.                      *)
Merged(plan, snippets) ==
  [n \in {Renamed(plan, id) : id \in UNION {DOMAIN snippets[i].resources : i \in DOMAIN snippets}} |->
     Giver(plan, snippets, n).resources[OldId(plan, snippets, n)]]

(* The wires whose target exists; a path that runs into a list too short or *)
(* into a value raises.                                                     *)
FoundWires(plan, resources) == {w \in plan.wiring : Renamed(plan, w.target) \in DOMAIN resources}

AssemblyRaises(plan, snippets) ==
  \E w \in FoundWires(plan, Merged(plan, snippets)) : ~w.reachable

(* A resource without Properties is bare: a wire into it is set in a        *)
(* dictionary of its own and is lost.                                       *)
AppliedWires(plan, snippets) ==
  {w \in FoundWires(plan, Merged(plan, snippets)) :
     LET n == Renamed(plan, w.target)
     IN  OldId(plan, snippets, n) \notin Giver(plan, snippets, n).bare}

(* _execute_assembly_plan: wires come in as tags. Whose definition of a     *)
(* parameter stays is left out: no parameter gets a default, they are       *)
(* looked for in an empty template.                                         *)
ExecuteAssemblyPlan(plan, snippets) ==
  LET resources == Merged(plan, snippets)
      wires == AppliedWires(plan, snippets)
      sources(n) == {Renamed(plan, w.source) : w \in {w \in wires : Renamed(plan, w.target) = n}}
      known == DOMAIN resources \cup UNION {snippets[i].parameters : i \in DOMAIN snippets}
      missing(n) == (resources[n] \cup sources(n)) \ known
  IN  Template(wires # {} \/ \E i \in DOMAIN snippets : snippets[i].tagged,
               Cardinality(UNION {{n} \X missing(n) : n \in DOMAIN resources}))

-----------------------------------------------------------------------------
(* The validators. Layer 0 parses JSON, then YAML with the plain loader,    *)
(* which fails on a tag (S002): one error, and nothing else runs.           *)
ValidateStructural(template) == IF template.tagged THEN 1 ELSE 0

(* Layer 1 reads tags. Missing or broken, it reports a warning.             *)
ValidateLint(template) == template.lint

(* run_validation_pipeline, given the blocking layers that answer: one      *)
(* that times out counts as clean. Layers 2 and 3 never block.              *)
BlockingLayers == {"structural", "cfn-lint"}
RunValidationPipeline(template, answering) ==
  LET gate == "structural" \in answering /\ ValidateStructural(template) > 0
      blocking == IF gate THEN ValidateStructural(template)
                  ELSE IF "cfn-lint" \in answering THEN ValidateLint(template) ELSE 0
  IN  [passed |-> blocking = 0, blocking |-> blocking,
       executed |-> IF gate THEN {"structural"} ELSE answering]
=============================================================================
