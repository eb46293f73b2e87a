------------------------------ MODULE Generation ------------------------------
(***************************************************************************)
(* generate_iac as one worker process runs it, task after task: the choice *)
(* of a path, the layer plan and its cache, the layers, the merge, and the *)
(* loop that validates and fixes.                                          *)
(*                                                                         *)
(* A task is given resolved parameters (a job). What a language model or a *)
(* validator may do wrong is chosen freely, at most MaxMishaps times in a  *)
(* behaviour. Every template made gets a version: it is no part of the     *)
(* program, and lets a report be told from another.                        *)
(***************************************************************************)
EXTENDS LayerMerge, Templates, Integers

CONSTANTS
  Snippets,            \* the snippets in the bucket, in the order of their types
  AssemblyPlans,       \* what the model may answer on the COMPOSE path
  GeneratedPlans,      \* what it may answer when asked for layers
  MaxCache,            \* _LAYER_PLAN_CACHE_MAX_SIZE
  MaxFixAttempts,      \* _MAX_FIX_ATTEMPTS
  MaxMishaps           \* a bound: mistakes, timeouts and failures together

ASSUME MaxFixAssumption == MaxFixAttempts \in Nat \ {0}
ASSUME MaxCacheAssumption == MaxCache \in Nat \ {0}
ASSUME MaxMishapsAssumption == MaxMishaps \in Nat
ASSUME PlansAssumption == \A p \in GeneratedPlans : IsLayerPlan(p)
ASSUME SnippetsAssumption ==
  /\ Snippets \in Seq(ToSet(Snippets))
  /\ \A s \in ToSet(Snippets) : /\ IsFiniteSet(DOMAIN s.resources)
                                /\ \A id \in DOMAIN s.resources : IsFiniteSet(s.resources[id])
ASSUME AssembliesAssumption == \A p \in AssemblyPlans : IsFiniteSet(p.wiring)

VARIABLES
  phase,       \* what the worker does next; "idle" between two tasks
  job,         \* the parameters of the task
  plan,        \* layer_plan
  drafts,      \* layer_resource_plans
  group,       \* the next group of layers
  template,    \* the current template, with its version
  fixed,       \* what the last fix made of it
  best,        \* best_template
  bestCount,   \* best_blocking
  attempt,
  report,
  output,      \* the IaCOutput of the last task, or how it failed
  cache,       \* the layer plan cache, oldest entry first
  mishaps,     \* how many of MaxMishaps have happened
  reported     \* every <<version, count>> reported on; no part of the program

genVars == << phase, job, plan, drafts, group, template, fixed, best, bestCount, attempt,
              report, output, cache, mishaps, reported >>
taskVars == << job, output >>
layerVars == << plan, drafts, group >>
loopVars == << template, fixed, best, bestCount, attempt, report, reported >>

NoJob == [tenant |-> "none"]
NoPlan == <<>>
NoDrafts == [n \in {} |-> ""]
NoTemplate == [version |-> 0, tagged |-> FALSE, lint |-> 0]
NoReport == [passed |-> FALSE, blocking |-> 0, executed |-> {}]
NoOutput == [status |-> "none", template |-> NoTemplate, report |-> NoReport]
Infinity == -1           \* float("inf"), which no count is

Fewer(n, count) == count = Infinity \/ n < count

Versioned(v, t) == [version |-> v, tagged |-> t.tagged, lint |-> t.lint]
Mishap(n) == /\ mishaps + n <= MaxMishaps
             /\ mishaps' = mishaps + n

GenInit ==
  /\ phase = "idle" /\ job = NoJob /\ output = NoOutput
  /\ plan = NoPlan /\ drafts = NoDrafts /\ group = 1
  /\ template = NoTemplate /\ fixed = NoTemplate /\ best = NoTemplate
  /\ bestCount = Infinity /\ attempt = 0 /\ report = NoReport /\ reported = {}
  /\ cache = <<>> /\ mishaps = 0

(* A task is over: what generate_iac returned, or that it raised.           *)
EndTask(out) ==
  /\ phase' = "ended"
  /\ output' = out
  /\ plan' = NoPlan /\ drafts' = NoDrafts /\ group' = 1
  /\ template' = NoTemplate /\ fixed' = NoTemplate /\ best' = NoTemplate
  /\ bestCount' = Infinity /\ attempt' = 0 /\ report' = NoReport

Raised == [NoOutput EXCEPT !.status = "raised"]

(* The failed output that stands for a ValueError on the GENERATE path.     *)
NoFiles == [NoOutput EXCEPT !.status = "no files"]

Returned(t, r) == [status |-> "files", template |-> t, report |-> r]

-----------------------------------------------------------------------------
(* The three paths.                                                         *)

(* resolve_template_path. Listing the bucket may fail.                      *)
ResolvePath(listed) ==
  IF TemplateFiles(job.files) # {} THEN "parameterize"
  ELSE IF listed /\ Covered(job.pattern, Snippets) THEN "compose" ELSE "plan"

ChoosePath ==
  /\ phase = "choose"
  /\ \E listed \in BOOLEAN :
       /\ Mishap(IF listed THEN 0 ELSE 1)
       /\ phase' = ResolvePath(listed)
  /\ UNCHANGED << taskVars, layerVars, loopVars, cache >>

(* The first template of a task enters the loop.                            *)
EnterLoop(t) ==
  /\ template' = Versioned(1, t)
  /\ best' = Versioned(1, t)
  /\ bestCount' = Infinity
  /\ phase' = "validate"
  /\ UNCHANGED << fixed, attempt, report, reported >>

ParameterizeTemplate ==
  /\ phase = "parameterize"
  /\ \/ /\ ~ParameterizeRaises(job.files)
        /\ EnterLoop(Parameterize(job.files))
        /\ UNCHANGED << taskVars, layerVars >>
     \/ /\ ParameterizeRaises(job.files)
        /\ EndTask(Raised)
        /\ UNCHANGED << job, reported >>
  /\ UNCHANGED << cache, mishaps >>

(* A snippet that cannot be downloaded is left out; with none left, or when *)
(* the call or a wire fails, the exception leaves generate_iac.             *)
ComposeSnippets ==
  /\ phase = "compose"
  /\ \/ \E gone \in SUBSET DOMAIN Snippets, p \in AssemblyPlans :
          /\ Mishap(Cardinality(gone))
          /\ LET parsed == Restrict(Snippets, DOMAIN Snippets \ gone)
             IN  IF DOMAIN parsed = {} \/ AssemblyRaises(p, parsed)
                 THEN EndTask(Raised) /\ UNCHANGED << job, reported >>
                 ELSE /\ EnterLoop(ExecuteAssemblyPlan(p, parsed))
                      /\ UNCHANGED << taskVars, layerVars >>
     \/ /\ Mishap(1)
        /\ EndTask(Raised)
        /\ UNCHANGED << job, reported >>
  /\ UNCHANGED cache

-----------------------------------------------------------------------------
(* The layer plan: predefined, cached, or asked for and then cached.        *)

(* An entry is known by tenant and normalised pattern.                      *)
CacheKey == << job.tenant, job.pattern.name >>
Entries(c, key) == {i \in DOMAIN c : c[i].key = key}
CacheHit(c, key) == \E i \in Entries(c, key) : c[i].fresh

(* What is left of the others when a key gets a new entry.                  *)
Without(c, key) ==
  IF Entries(c, key) = {} THEN c ELSE RemoveAt(c, CHOOSE i \in Entries(c, key) : TRUE)

(* A mutant: one entry too many.                                            *)
CachePutLate(c, key, p) ==
  LET room == IF Len(c) > MaxCache THEN Tail(c) ELSE c
  IN  Append(Without(room, key), [key |-> key, plan |-> p, fresh |-> TRUE])

(* _cache_put: at capacity the oldest goes first, be the key there or not.  *)
CachePut(c, key, p) ==
  LET room == IF Len(c) >= MaxCache THEN Tail(c) ELSE c
  IN  Append(Without(room, key), [key |-> key, plan |-> p, fresh |-> TRUE])

StartLayers(p) ==
  /\ plan' = p
  /\ phase' = "layers"
  /\ UNCHANGED << taskVars, drafts, group, loopVars >>

UsePredefinedPlan ==
  /\ phase = "plan"
  /\ IsPredefined(job.pattern)
  /\ StartLayers(GetPredefinedPlan(job.pattern))
  /\ UNCHANGED << cache, mishaps >>

UseCachedPlan ==
  /\ phase = "plan"
  /\ ~IsPredefined(job.pattern)
  /\ \E i \in Entries(cache, CacheKey) : cache[i].fresh /\ StartLayers(cache[i].plan)
  /\ UNCHANGED << cache, mishaps >>

GenerateLayerPlan ==
  /\ phase = "plan"
  /\ ~IsPredefined(job.pattern)
  /\ ~CacheHit(cache, CacheKey)
  /\ \E p \in GeneratedPlans :
       /\ StartLayers(p)
       /\ cache' = CachePut(cache, CacheKey, p)
  /\ UNCHANGED mishaps

(* A knowledge base or model call of the GENERATE path fails. A ValueError, *)
(* which an answer of the wrong form is, becomes an output without files.   *)
GenerationFails ==
  /\ phase \in {"plan", "layers", "specs"}
  /\ Mishap(1)
  /\ EndTask(NoFiles) \/ EndTask(Raised)
  /\ UNCHANGED << job, cache, reported >>

(* An hour has passed since the oldest fresh entry was stored.              *)
ExpirePlan ==
  /\ phase = "idle"
  /\ \E i \in DOMAIN cache :
       /\ cache[i].fresh
       /\ \A j \in 1 .. i - 1 : ~cache[j].fresh
       /\ cache' = [cache EXCEPT ![i].fresh = FALSE]
  /\ UNCHANGED << phase, taskVars, layerVars, loopVars, mishaps >>

-----------------------------------------------------------------------------
(* The layers.                                                              *)

Groups == ParallelizableGroups(plan)

(* New drafts for the layers of those names, the model slipping in n of     *)
(* them; the other layers keep theirs.                                      *)
Redrafts(names, n) ==
  {[l \in DOMAIN drafts \cup names |->
      IF l \in DOMAIN f THEN Draft(GetLayer(plan, l), f[l])
      ELSE IF l \in names THEN Draft(GetLayer(plan, l), "none") ELSE drafts[l]] :
     f \in UNION {[S -> Slips \ {"none"}] : S \in kSubset(n, names)}}

(* The threads of a group share nothing: gather returns when all are done.  *)
GenerateGroup ==
  /\ phase = "layers"
  /\ \E n \in 0 .. MaxMishaps : /\ Mishap(n)
                              /\ drafts' \in Redrafts(Names(plan, Groups[group]), n)
  /\ group' = group + 1
  /\ phase' = IF group < Len(Groups) THEN "layers" ELSE "specs"
  /\ UNCHANGED << taskVars, plan, loopVars, cache >>

(* The spec check of each layer, and one fix of each that fails it.         *)
FixSpecs ==
  /\ phase = "specs"
  /\ \E n \in 0 .. MaxMishaps :
       /\ Mishap(n)
       /\ drafts' \in Redrafts({l \in DOMAIN drafts : Dangling(drafts[l]) # {}}, n)
  /\ phase' = "merge"
  /\ UNCHANGED << taskVars, plan, group, loopVars, cache >>

(* merge_layers and assemble_json: the template, or none when they raise.   *)
MergedTemplates(d) ==
  IF MergeRaises(plan, d) THEN {}
  ELSE {Template(FALSE, LintErrors(merged)) : merged \in {MergeLayers(plan, d)}}

(* Still inside the try.                                                    *)
Merge ==
  /\ phase = "merge"
  /\ \/ \E t \in MergedTemplates(drafts) : EnterLoop(t) /\ UNCHANGED << taskVars, layerVars >>
     \/ MergedTemplates(drafts) = {} /\ EndTask(NoFiles) /\ UNCHANGED << job, reported >>
  /\ UNCHANGED << cache, mishaps >>

-----------------------------------------------------------------------------
(* The loop that validates and fixes.                                       *)

(* One run of the pipeline. A layer that times out is a mishap.             *)
Validated(t, r) ==
  /\ \E answering \in SUBSET BlockingLayers :
       /\ Mishap(Cardinality(BlockingLayers \ answering))
       /\ r = RunValidationPipeline(t, answering)
  /\ reported' = reported \cup {<< t.version, r.blocking >>}

Reports(t) == {RunValidationPipeline(t, answering) : answering \in SUBSET BlockingLayers}

(* A mutant: the last version, however many errors it has.                  *)
KeepLast(t, r) == best' = t /\ bestCount' = r.blocking

(* The best version is the first with the fewest blocking errors.           *)
KeepBest(t, r) ==
  /\ best' = IF Fewer(r.blocking, bestCount) THEN t ELSE best
  /\ bestCount' = IF Fewer(r.blocking, bestCount) THEN r.blocking ELSE bestCount

(* A mutant: one attempt more.                                              *)
ExhaustedLate(r) == attempt = MaxFixAttempts /\ ~r.passed

Exhausted(r) == attempt + 1 = MaxFixAttempts /\ ~r.passed
WorseThanBest(r) == bestCount # Infinity /\ r.blocking > bestCount

(* A mutant: attempts are not counted.                                      *)
Uncounted == attempt' = attempt

Counted == attempt' = attempt + 1

(* The head of the loop, and its else branch after the last attempt.        *)
Validate ==
  /\ phase = "validate"
  /\ \E r \in Reports(template) :
       /\ Validated(template, r)
       /\ IF r.passed \/ (Exhausted(r) /\ ~WorseThanBest(r))
          THEN EndTask(Returned(template, r)) /\ UNCHANGED job
          ELSE /\ KeepBest(template, r)
               /\ report' = r
               /\ Counted
               /\ phase' = IF Exhausted(r) THEN "revalidate" ELSE "fix"
               /\ UNCHANGED << taskVars, layerVars, template, fixed >>
  /\ UNCHANGED cache

(* The report of the best version, be it worse than the one that made it so.*)
Revalidate ==
  /\ phase = "revalidate"
  /\ \E r \in Reports(best) :
       /\ Validated(best, r)
       /\ EndTask(Returned(best, r))
  /\ UNCHANGED << job, cache >>

NextVersion(t) == fixed' = Versioned(attempt + 1, t)

(* Layer by layer, then the merge. Nothing here is inside a try.            *)
FixLayers ==
  /\ phase = "fix"
  /\ plan # NoPlan
  /\ \E n \in 0 .. MaxMishaps :
       /\ Mishap(n)
       /\ \E new \in Redrafts(LayersInError(MergeLayers(plan, drafts)), n) :
            \/ \E t \in MergedTemplates(new) :
                 /\ drafts' = new
                 /\ NextVersion(t)
                 /\ phase' = "check"
                 /\ UNCHANGED << taskVars, plan, group, template, best, bestCount, attempt,
                                 report, reported >>
            \/ /\ MergedTemplates(new) = {}
               /\ EndTask(Raised)
               /\ UNCHANGED << job, reported >>
  /\ UNCHANGED cache

(* The whole template is written anew as a resource plan and assembled as   *)
(* YAML with tags for its references; without a plan the template stays.    *)
FixTemplateYaml ==
  /\ phase = "fix"
  /\ plan = NoPlan
  /\ \/ \E references \in BOOLEAN, lint \in 0 .. 2 :
          /\ Mishap(lint)
          /\ NextVersion(Template(references, lint))
     \/ Mishap(1) /\ fixed' = template
  /\ phase' = "check"
  /\ UNCHANGED << taskVars, layerVars, template, best, bestCount, attempt, report, reported, cache >>

FixRaises ==
  /\ phase = "fix"
  /\ Mishap(1)
  /\ EndTask(Raised)
  /\ UNCHANGED << job, cache, reported >>

(* A fix that made it worse ends the loop: the best version is returned     *)
(* with the report of the current one.                                      *)
CheckFix ==
  /\ phase = "check"
  /\ \E r \in Reports(fixed) :
       /\ Validated(fixed, r)
       /\ IF r.blocking > report.blocking
          THEN EndTask(Returned(best, report)) /\ UNCHANGED job
          ELSE /\ template' = fixed
               /\ report' = r
               /\ KeepBest(fixed, r)
               /\ phase' = "validate"
               /\ UNCHANGED << taskVars, layerVars, fixed, attempt >>
  /\ UNCHANGED cache

-----------------------------------------------------------------------------
(* A task begins, and what it ended with has been dealt with.               *)
GenBegin(j) ==
  /\ phase = "idle"
  /\ job' = j
  /\ phase' = "choose"
  /\ UNCHANGED << output, layerVars, loopVars, cache, mishaps >>

(* The breaker is open: pre_check raises before anything else.              *)
Refused ==
  /\ phase = "choose"
  /\ Mishap(1)
  /\ EndTask(Raised)
  /\ UNCHANGED << job, cache, reported >>

GenEnd ==
  /\ phase = "ended"
  /\ phase' = "idle"
  /\ job' = NoJob /\ output' = NoOutput /\ reported' = {}
  /\ UNCHANGED << layerVars, template, fixed, best, bestCount, attempt, report, cache, mishaps >>

GenWork ==
  \/ ChoosePath \/ Refused \/ ParameterizeTemplate \/ ComposeSnippets
  \/ UsePredefinedPlan \/ UseCachedPlan \/ GenerateLayerPlan \/ GenerationFails
  \/ GenerateGroup \/ FixSpecs \/ Merge
  \/ Validate \/ Revalidate \/ FixLayers \/ FixTemplateYaml \/ FixRaises \/ CheckFix

-----------------------------------------------------------------------------
GenTypeOK ==
  /\ phase \in {"idle", "choose", "parameterize", "compose", "plan", "layers", "specs", "merge",
                "validate", "fix", "check", "revalidate", "ended"}
  /\ output.status \in {"none", "raised", "no files", "files"}
  /\ attempt \in 0 .. MaxFixAttempts
  /\ bestCount \in Nat \cup {Infinity}
  /\ mishaps \in 0 .. MaxMishaps
  /\ DOMAIN drafts \subseteq Names(plan, DOMAIN plan)

(* The template that is returned has, in some report on it, as few blocking *)
(* errors as any template of the task ever had; and it is said to have      *)
(* passed only when a report on that very template had none. (The fix loop  *)
(* of generate_iac with its best version, its revert and its else branch.)  *)
BestKept ==
  output.status = "files" =>
    /\ \E k \in reported : /\ k[1] = output.template.version
                           /\ \A l \in reported : k[2] <= l[2]
    /\ output.report.passed => << output.template.version, 0 >> \in reported

(* When a layer is generated, the layers it imports from have been, unless  *)
(* the plan has no layer left of which that is true; and the spec check and *)
(* the merge find a draft of every layer. (_generate_all_layers and         *)
(* parallelizable_groups.)                                                  *)
LayerOrder ==
  /\ phase = "layers" =>
       LET done == DOMAIN drafts
           left == DOMAIN plan \ UNION {Groups[k] : k \in 1 .. group - 1}
       IN  \/ \A i \in Groups[group] : Sources(plan[i]) \subseteq done
           \/ /\ \A i \in left : ~(Sources(plan[i]) \subseteq done)
              /\ Groups[group] = left
  /\ phase \in {"specs", "merge"} => DOMAIN drafts = Names(plan, DOMAIN plan)

(* No import's parameter is that of an earlier import of the layer, nor the *)
(* id that an earlier one stands for.                                       *)
Unambiguous(p) ==
  \A i \in DOMAIN p : \A j, k \in DOMAIN p[i].imports :
    j < k => p[i].imports[k].parameter \notin
               {p[i].imports[j].parameter, ResolveImport(p, p[i].imports[j]).to}

(* In the merged template every place written {"ref": parameter} gives the  *)
(* value that the layer it is imported from exports under that name, in the *)
(* form that value needs. (merge_layers; no two imports may meet.)          *)
ImportsWired ==
  (phase \in {"validate", "check"} /\ plan # NoPlan /\ Unambiguous(plan)) =>
    \A merged \in {MergeLayers(plan, drafts)}, i \in DOMAIN plan :
    \A j \in DOMAIN plan[i].imports :
      LET imp == plan[i].imports[j]
          place == merged.layers[plan[i].name].refs[imp.parameter]
          exports == GetLayer(plan, imp.source).exports
      IN  place.form = "sub" \/
            \E e \in ToSet(exports) : /\ e.name = imp.name
                                      /\ e.resource = place.to
                                      /\ e.attribute = place.attribute
                                      /\ (place.form = "ref") <=> (e.attribute = NoAttribute)

(* A predefined plan cannot be what makes the merge fail: every import has  *)
(* its export, no two layers export one resource, and no layer depends on   *)
(* itself through others. (predefined_layers.py against layer_merger.py.)   *)
PredefinedPlansMerge ==
  (phase = "layers" /\ group = 1 /\ IsPredefined(job.pattern)) =>
    /\ Unresolved(plan) = {}
    /\ \A i, j \in DOMAIN plan : i # j => Exported(plan[i]) \cap Exported(plan[j]) = {}
    /\ \A g \in DOMAIN Groups : \A i, j \in Groups[g] : plan[i].name \notin Sources(plan[j])

(* The cache never holds more than its limit, nor two entries of one key,   *)
(* and time leaves the oldest first. (_cache_put.)                          *)
CacheSound ==
  /\ Len(cache) <= MaxCache
  /\ \A i, j \in DOMAIN cache :
       i < j => cache[i].key # cache[j].key /\ (cache[i].fresh => cache[j].fresh)

(* What a fix without a slip makes of the errors found in the template.     *)
Mended(p, found, now) ==
  /\ Flaws(now) = {} /\ Strays(now) = {}
  /\ \A e \in Unplaced(found) :
       \E i \in DOMAIN p : now.layers[e[1]].refs[e[2]].to \in Exported(p[i])

(* A round of fixes in which the model makes no mistake leaves none of the  *)
(* errors that were found, but that of a place for a resource which a layer *)
(* was to export and never made. (_map_errors_to_layers with the per-layer  *)
(* fixes: every error is shown to a layer that can mend it.)                *)
FixesReachTheirLayer ==
  [][(phase = "fix" /\ phase' = "check" /\ plan # NoPlan /\ mishaps' = mishaps)
       => Mended(plan, MergeLayers(plan, drafts), MergeLayers(plan, drafts'))]_genVars

(* Every task of the worker ends. (The loops of generate_iac are bounded;   *)
(* every call in them answers or raises in the end.)                        *)
GenerationEnds == (phase = "choose") ~> (phase = "ended")
=============================================================================
