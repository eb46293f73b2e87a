----------------------------- MODULE LayerMerge -----------------------------
(***************************************************************************)
(* What the generator of one layer may produce, the checks made on it      *)
(* before it is used, and the deterministic merger that wires the layers'  *)
(* imports to exports and concatenates them.                               *)
(*                                                                         *)
(* A draft (ResourcePlan) is abstracted to its logical ids, the parameters *)
(* it declares, the places in it that refer to an import, and the number   *)
(* of mistakes only cfn-lint sees. A place is named after the parameter it *)
(* was written for; the id of a layer's resources that nothing else refers *)
(* to is the layer's name.                                                 *)
(***************************************************************************)
EXTENDS LayerPlans, FiniteSetsExt

Ref(id) == [form |-> "ref", to |-> id, attribute |-> NoAttribute]
GetAtt(id, a) == [form |-> "get_att", to |-> id, attribute |-> a]
Sub(id) == [form |-> "sub", to |-> id, attribute |-> NoAttribute]

Exported(layer) == {layer.exports[i].resource : i \in DOMAIN layer.exports}
ImportParameters(layer) == {layer.imports[i].parameter : i \in DOMAIN layer.imports}

(* How a draft departs from what the layer was asked for: cfn-lint errors   *)
(* in one of its resources, or in none (an output); exported resources it   *)
(* lacks, ids of another layer, imports used without declaring a parameter, *)
(* imports written ${Parameter}.                                            *)
Slips == {"none", "flaw", "flaws", "stray", "lacking", "clash", "undeclared", "sub"}

Draft(layer, slip) ==
  [resources |-> {layer.name}
                 \cup (IF slip = "lacking" THEN {} ELSE Exported(layer))
                 \cup (IF slip = "clash" THEN {"foundation", "security"} ELSE {}),
   parameters |-> IF slip = "undeclared" THEN {} ELSE ImportParameters(layer),
   refs |-> [p \in ImportParameters(layer) |-> IF slip = "sub" THEN Sub(p) ELSE Ref(p)],
   lint |-> CASE slip = "flaw" -> 1 [] slip = "flaws" -> 2 [] OTHER -> 0,
   stray |-> IF slip = "stray" THEN 1 ELSE 0]

(* validate_resource_plan on one draft, before the merge: a {"ref"} whose   *)
(* target the layer does not declare (SP004). Strings are not looked into.  *)
Dangling(draft) ==
  {p \in DOMAIN draft.refs :
     draft.refs[p].form # "sub" /\ draft.refs[p].to \notin draft.resources \cup draft.parameters}

-----------------------------------------------------------------------------
(* merge_layers.                                                            *)

ExportsOf(plan, imp) ==
  IF HasLayer(plan, imp.source)
  THEN LET layer == GetLayer(plan, imp.source)
       IN  {i \in DOMAIN layer.exports : layer.exports[i].name = imp.name}
  ELSE {}

(* A mutant: every import is wired by Ref.                                  *)
ResolveByRef(plan, imp) ==
  LET layer == GetLayer(plan, imp.source)
      i == CHOOSE i \in ExportsOf(plan, imp) : \A j \in ExportsOf(plan, imp) : i <= j
  IN  Ref(layer.exports[i].resource)

(* _resolve_import: the first export of that name, whether or not the       *)
(* source layer has made the resource.                                      *)
ResolveImport(plan, imp) ==
  LET layer == GetLayer(plan, imp.source)
      i == CHOOSE i \in ExportsOf(plan, imp) : \A j \in ExportsOf(plan, imp) : i <= j
      exp == layer.exports[i]
  IN  IF exp.attribute = NoAttribute THEN Ref(exp.resource)
                                     ELSE GetAtt(exp.resource, exp.attribute)

(* _replace_refs_recursive: an exact {"ref": parameter} is replaced, the    *)
(* one an earlier import put there too; a ${parameter} stays.               *)
ReplaceRef(ref, parameter, replacement) == IF ref = Ref(parameter) THEN replacement ELSE ref

(* A reference of the layer when its first k imports have been wired.       *)
AfterImports(plan, layer, ref) ==
  LET after[k \in 0 .. Len(layer.imports)] ==
        IF k = 0 THEN ref
        ELSE ReplaceRef(after[k - 1], layer.imports[k].parameter, ResolveImport(plan, layer.imports[k]))
  IN  after

Wire(plan, layer, draft) ==
  LET wired(ref) == AfterImports(plan, layer, ref)[Len(layer.imports)]
  IN  [draft EXCEPT !.refs = [p \in DOMAIN draft.refs |-> wired(draft.refs[p])],
                    !.parameters = @ \ ImportParameters(layer)]

Unresolved(plan) ==
  {imp \in UNION {ToSet(plan[i].imports) : i \in DOMAIN plan} : ExportsOf(plan, imp) = {}}

Duplicates(plan, drafts) ==
  {id \in UNION {drafts[n].resources : n \in DOMAIN drafts} :
     \E i, j \in DOMAIN plan : /\ i < j
                              /\ id \in drafts[plan[i].name].resources
                              /\ id \in drafts[plan[j].name].resources}

(* The two ways it raises ValueError.                                       *)
MergeRaises(plan, drafts) == Unresolved(plan) # {} \/ Duplicates(plan, drafts) # {}

MergeLayers(plan, drafts) ==
  LET wired == [n \in DOMAIN drafts |-> Wire(plan, GetLayer(plan, n), drafts[n])]
  IN  [resources |-> UNION {wired[n].resources : n \in DOMAIN wired},
       parameters |-> UNION {wired[n].parameters : n \in DOMAIN wired},
       layers |-> wired]

(* The cfn-lint errors of the merged template: those in a layer's resources *)
(* are its flaws and the places in it whose target is neither a resource    *)
(* nor a parameter; those that name no resource are strays.                 *)
Flaws(merged) == UNION {{n} \X (1 .. merged.layers[n].lint) : n \in DOMAIN merged.layers}

Unplaced(merged) ==
  LET known == merged.resources \cup merged.parameters
      refs(n) == merged.layers[n].refs
  IN  UNION {{n} \X {p \in DOMAIN refs(n) : refs(n)[p].to \notin known} : n \in DOMAIN merged.layers}

Strays(merged) == {n \in DOMAIN merged.layers : merged.layers[n].stray = 1}

LintErrors(merged) ==
  Cardinality(Flaws(merged)) + Cardinality(Unplaced(merged)) + Cardinality(Strays(merged))

Owners(merged) == {f[1] : f \in Flaws(merged)} \cup {f[1] : f \in Unplaced(merged)}

(* A mutant: findings without a resource go to no layer.                    *)
LayersOwningErrors(merged) == Owners(merged)

(* _map_errors_to_layers: a finding goes to the layer that owns its         *)
(* resource, one without a resource to every layer.                         *)
LayersInError(merged) ==
  IF Strays(merged) = {} THEN Owners(merged) ELSE DOMAIN merged.layers
=============================================================================
