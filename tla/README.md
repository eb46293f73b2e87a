# Formal models of the multi-agent deployment assistant

The program turns an interview into a design, the design into a CloudFormation
template and that into documentation. Each of the three generations is a *task*:
an API process submits it, a queue carries it, a worker runs an LLM agent for it
and stores the result, and the browser waits for it. These modules model that
protocol, what the workers do between taking a task and storing its result, and
how the browser hears of it: the parts where order, concurrency and failure
decide whether the program is right. All paths below are relative to the repository (`src/` in the map of
`PROJECT.json`).

## Inventory

| component | state | operations | talks to | hard behaviour | what makes it correct |
|---|---|---|---|---|---|
| Task submission (`backend/src/services/{design,iac,docs}.py`) | none of its own; local copies of the project item | submit, select, refine | store, queues | read-modify-write of the whole item, undo after a failed send, self-healing of a stale slot | one task in flight per stage; an accepted task is never lost |
| Task workers (`workers/*_worker.py`, `services/*_processing.py`) | local copies | one handler per stage, `mark_*_failed` | store, agents | deaths at any step, redelivery of finished tasks, exceptions while handling exceptions | accepted tasks settle; stored steps have a result; the status has its pointers |
| Queues (`infra/lib/sqs.ts`, `lambda.ts`) | FIFO groups, receive counts | send, deliver, delete, dead-letter | API, workers | at-least-once delivery, a poisonous head | every queue drains |
| Project store (`storage/dynamo_s3.py`) | project items, task items, S3 objects with pointers | create, update, claim, save_step, load_step, delete | everybody | two-part writes, upserts after deletion | a pointer names an object; a deleted project stays deleted |
| Circuit breaker and limiter (`config/circuit_breaker.py`) | state, two counters, a timestamp, a semaphore | pre_check, call, record_success, record_failure | every agent | late results, checks made twice, waiters that time out | counters fit the state; slots are conserved; calls end |
| Interview (`services/interview.py`, `plan_cache.py`, `models/interview_plan.py`) | plan per session, in memory and in S3 | plan, turn, re-plan | agents, store, browser | two turns on one object, timeouts that leave a thread running, eviction, two servers | an answer goes to the question it was given for; only a re-plan that reworks it may lose it |
| WebSocket notifications (`backend/lambdas/ws`, `infra/lib/eventbridge-pipe.ts`) | connection and subscription items, the batch in flight | connect, subscribe, disconnect, heartbeat, fan-out | stream of the table, browser | subscribe against disconnect, lost callbacks, failed posts, batches given again | nothing is kept of a dead connection; a live subscriber is told |
| Wizard (`frontend/src/hooks`, `components/wizard`) | task ids, loading, polling chains, socket | hydrate, submit, poll, messages, leave | API, WebSocket | polling and socket taking over from each other, two chains for a task | loading ends unless the word was missed; polling ends, also after the page is left |
| Local worker, local notifications (`workers/local_*.py`, `services/ws_manager.py`) | bounded in-memory queue, thread, subscriptions, broadcasts | enqueue, loop, shutdown, subscribe, broadcast | pipeline, sockets | full queue, shutdown behind a long task, sockets that go during a broadcast | what is queued is served; the shutdown ends; all found subscribers are told |
| IaC generation (`agents/iac.py`, `services/layer_merger.py`, `predefined_layers.py`, `validation/`) | one task's plan, drafts, current and best template; the plan cache | choose a path, plan, generate by groups, merge, validate, fix | agents, knowledge base, validators | bounded fix loop, mistakes of models, validators that time out, a cache shared by tasks | layers in order and wired to what they import; the best version is kept; tasks end |
| Documentation generation (`agents/documentation.py`, `main.py`) | two threads, announcements, the docs step | generate, validate and fix the diagram, announce, store, regenerate a section | agents, browser | one thread of two failing | what is announced is stored; "validated" is true |
| Design, refinement, resolver (`services/design.py`, `refinement.py`, `parameter_resolver.py`) | the design step, the approved index | select, refine, resolve | store, agents | a redesign between load and save; integer arithmetic on address blocks | parameters belong to the options beside them; appliances have addresses of their own |
| Catalog, knowledge base, authentication, metrics | per request or read-only | | | | not part of the protocol |

## Modules

```
ActiveSlot   <--- implements (refinement mapping) ---  SlotRefinement
                                                            | EXTENDS
CircuitBreaker                                         TaskPipeline
     | EXTENDS                                              | EXTENDS
BreakerProofs                                     TaskPipelineProofs
                                                     | EXTENDS
                                                SlotProofs
                                                (also EXTENDS SlotRefinement)

QuestionPlan  <-- Interview <-- MCInterview
                     ^-- InterviewProofs --> RecursionTheorems

LayerPlans <-- LayerMerge <--.
                 Templates <--+-- Generation <--.
                              Documentation <---+-- Deployment <-- MCGeneration
                                 Parameters <---'        ^
                                                  DeploymentProofs <-- GenerationProofs
                                                    '--> RecursionTheorems

Connections <-- Wizard <--.
           LocalWorker <---+-- Delivery <-- MCDelivery
                                 ^-- DeliveryProofs
```

(An arrow points to the module that is extended.) `TaskPipeline` sees an agent as
one step with two outcomes and stops when the result is stored. `Deployment`
opens that step, for a project from its approved design to its documentation;
`Delivery` continues behind it, from the settled task to whoever waits.

### TaskPipeline

One project, its three stages (`design`, `iac`, `docs`), any set of submissions
and of select/refine calls. One action is one call another process can observe:
a DynamoDB or S3 or SQS call, the return of an agent.

| variable | code |
|---|---|
| `project` | the item of `models/project.py`: `status`, `approved_design_index`, the three `active_*_task_id` slots |
| `design` | `design_json` in the item: who generated it, which option its `resolved_parameters` are for |
| `object` | the S3 steps: is the `*_s3_key` pointer set, whose data is at the (one) key |
| `task` | the task items: status, and whether `result` was written |
| `queue` | the project's message group in each queue, with receive counts |
| `worker` | the consumer of that group: place in the handler, task, its copy of the project |
| `api`, `edit` | the requests: how far they are, and the copies they hold |
| `crashes` | deaths so far (a bound for model checking) |

`update_project` writes every field of a `Project` object that was read by an
earlier call. The copies are state of the model for this reason: an action such as
`ClearSlot` writes back all of `worker[s].snap`, not one field.

A submission runs `CreateTask`, `ClaimTask`, `SendTask`; a refused claim runs
`RejectTask`; a failed send `SendFails`, `FailUnsent`, `ReadUnsent`,
`ReleaseUnsent`. IaC begins with `CheckResolved`, `ReadPointer`, `CheckPointed`,
`HealPointer`. A worker runs `Receive`, `MarkProcessing`, (`LoadInputs`,
`MarkValidating`,) `RunAgent`, `MarkCompleted`, `SaveDesign` or `PutObject` and
`PointStep`, `ReadProject`, `ClearSlot`, `Ack`; a failure leads to `MarkFailed`,
`ReadProject`, `ClearSlot`, `Ack`. `ProcessFails`, `PointFails`, `MarkSwallowed`
and `AbortSubmit` are store calls that raise, `Crash` a Lambda that dies or times
out, `DeadLetter` the redrive policy.

Abstractions. Lambda timeouts (5, 15, 10 minutes) are shorter than the visibility
timeouts (30, 90, 60), so a message is never delivered while its handler runs: the
group has one consumer. Every submission has a fresh id, so deduplication never
applies and a request and its task are one element of `Tasks`. The seven-day
expiry of task items and messages is not modelled. `Past` is a design made and
refined before the model begins.

### ActiveSlot and SlotRefinement

`ActiveSlot` says what a slot promises in two variables: the holder, and the
tasks that are over. `SlotRefinement` restricts the pipeline to one stage whose
tasks are the only ones running, with no select call, no death and no lost reply
(`Quiet`), and maps `holder` to the stage's slot and `over` to the terminal tasks
that do not hold it. Store and queue calls may raise anywhere, and refinements
may be saved at any time. The restriction is not for convenience: with a second
writer of the project item (another stage's worker, `select_design`, the
self-healing of IaC) an old copy can be written over a newer slot, and the
refinement is false. The run `heal` shows one such behaviour.

### CircuitBreaker

The process-wide breaker, the semaphore, and the threads that use them. One
action is one critical section of the lock, one semaphore operation or the end of
a model call. The clock is abstracted to `elapsed`: has `recovery_timeout` passed
since `_last_failure_time`. Threads in `Guarded` are those of the agents that call
`pre_check` before `call` (`design_agent`, `generate_iac`, `execute_turn`, ...).
`Retry` is the tenacity decorator: a transient error or a semaphore timeout is
tried again up to `MaxAttempts` times, `CircuitOpenError` is not.

### QuestionPlan and Interview

`QuestionPlan` is the plan of an interview as a value and the operators that
change it: `MarkAnswered`, `RevertAnswer`, `EvaluateSkipConditions`, the executor
(`ExecuteTurn` on what the model made of a reply, `Readings`) and the planner
(`GeneratedPlans`, `Replan`). A value is abstracted to *valid*, *invalid* (none of
the catalog's options) or *declined* (no value); a planned question is `guided` (it has
skip conditions, and the catalog's options if the field has any), or comes from the
fallback plan and has neither.

What a planner answers is an arbitrary element of the constant `Outputs`: the fields
it asks for, in order, and what it fills in. Nothing in the code holds it to what is
missing (`get_missing_fields_schema` even lists details of the use case that were
answered, since `_set_nested` stores them under another key), so it may ask for a
field once more, fill in a field that the user has answered, with any value, and
leave out what is missing. A re-plan puts its fills over `populated_fields`, answers
included, and replaces `auto_filled`; what is reported of a detail is the fill of the
last planner, or else the last answer (`Reported`). So a detail that the first planner
filled in is gone after a re-plan that does not mention it. `round`, the re-plan that
posed a question, is history.

`Interview` runs them. What matters there is identity: a plan is an object in a
server's memory, `asyncio.to_thread` hands that object to a thread, and the
thread keeps it after its request has timed out or was aborted. So `heap` holds
plan objects, `cache` and `turn` refer to them, and `s3` holds a value.

| variable | code |
|---|---|
| `heap` | `QuestionPlan` objects alive in the servers |
| `cache` | `PlanCache._cache` of each process, for this session |
| `s3` | `interview_plan.json` |
| `turn` | the requests and the threads: place, plan object, question asked |
| `client` | `InterviewChat`: the question of the last input hint, what it was told is gathered, the request it waits for |
| `requirements` | the fields of the requirements step in the project store |
| `sent` | messages so far (a bound for model checking) |

`Send` includes `plan_cache.get`. A planning turn runs `PlanGenerated`, `SavePlan`,
`Reply`; an executing one `StartTurn`, `RecordReply`, (`StartReplan`, `Replanned`,)
`SavePlan`, `Reply`. `RecordReply` and `Replanned` are the ends of threads,
`SavePlan` and `Reply` code of the event loop without an await. `Timeout` and
`Reload` leave a thread that nobody waits for (`Orphan`); its result is dropped,
what it does to its plan object is not. `ModelFails` is an agent that raises.
`exact` is a history variable: it says that the response the browser shows was
made when all saves had succeeded and no such thread was alive.

Abstractions. One session and one browser tab, which sends one message at a time
(`loading`). A cancelled request is noticed at once (Starlette cancels it on
disconnection). Reads of S3 do not fail. The new plan of a re-plan is a value of its
own, though its list holds the answered question objects of the old one: an answered
question is touched again by a revert only. Option values that differ in
case only, the `user_info` fields and fields that the project brings along are left out.

### LayerPlans, LayerMerge, Templates, Generation

`LayerPlans` has the four predefined plans with the program's own names, the
lookup by deployment pattern, and `ParallelizableGroups`. `LayerMerge` is what a
layer's generator may make (`Draft`), the spec check on it (`Dangling`), the merge
and the routing of errors to layers. `Templates` has the two paths without layers
(PARAMETERIZE, COMPOSE; a wire into a target without `Properties` counts as applied
and is lost) and the validators. `Generation` is `generate_iac`:

| variable | code |
|---|---|
| `phase` | the place in `generate_iac` |
| `job` | the resolved parameters of the task |
| `plan`, `drafts`, `group` | `layer_plan`, `layer_resource_plans`, the group `_generate_all_layers` is at |
| `template`, `fixed`, `report`, `attempt` | the locals of the validation and fix loop |
| `best`, `bestCount` | `best_template`, `best_blocking` |
| `cache` | `_LAYER_PLAN_CACHE`, oldest first |
| `output` | what was returned, or that it raised |
| `reported`, versions of templates | history: which version had which count in a report |

A resource plan is abstracted to logical ids, declared parameters, the places that
refer to an import and the number of errors that only cfn-lint sees; a template to
whether it is YAML with CloudFormation tags, and its errors. Each way a model's
answer may depart from its request is a *slip*; slips, calls that fail, validators
that time out and snippets that cannot be read are *mishaps*, chosen freely and at
most `MaxMishaps` times. The threads of a group share nothing, so a group is one
step. Of the validators only the blocking ones count. `GroupsAfter` (what is left
when some layers are taken) and `AfterImports` (a reference after the first imports
of its layer were wired) are recursive functions; names are looked up as the code
does, the first match by index. `Infinity` stands for `float("inf")`.

### Documentation, Parameters, Deployment

`Documentation` runs the two sections as threads that announce themselves, with the
diagram's loop of validation and fixing, and the endpoint that regenerates a
section (`Regenerate`, `LoadDocs`, `SaveDocs`, on a server of its own each).
`Parameters` is arithmetic: the fields of the refinement plan and the resolver's
subnets, zones and addresses. `Added` (the loop that drops fields proposed twice) and
`TwoTo` (the block sizes) are recursive functions; an interface of an appliance
knows its VPC by its place in the list. `Deployment` puts them together: recommendations that
replace each other (`Redesign`), `SelectDesign`, the two halves of `refine_design`
(`LoadForRefine`, `SaveRefined`), IaC and docs tasks. It looks at one project at a
time; a worker process keeps its cache from one to the next. Selecting or refining a
second time for one recommendation is left out.

### Connections, Wizard, LocalWorker, Delivery

| module | variable | code |
|---|---|---|
| Connections | `tasks`, `slot` | the tasks of the project as *queued* or *over*; its active task |
| | `stream`, `bridge` | the table's stream as filtered by the pipe; the batch the bridge works on, and who is left to post to |
| | `items` | the `CONNECTION` and `SUB` items of each connection |
| | `socket`, `request`, `inbox`, `dropped` | the gateway: connections, the subscribe message, posts on their way, `$disconnect` calls to come |
| Wizard | `page`, `hydration`, `loading`, `waiting`, `call` | `useWizardState`: hydration, `loading`, the task id, the submission |
| | `chains`, `timer` | the chains of `poll()` that `usePollTask` runs, and the one its `timerRef` holds |
| | `conn`, `connected` | `wsRef`, `wsConnectedRef` |
| LocalWorker | `job`, `queue`, `thread`, `server` | the in-memory queue, its worker and the shutdown |
| | `subscribed`, `casts`, `gone`, `told` | `_subscriptions`, broadcasts under way, clients that left |
| Delivery | `mode` | settings: deployed, or a developer's machine |

The index that the bridge queries is eventually consistent: `lagging` holds the
connections whose stored subscription it need not show yet, until `CatchUp`. The same
query precedes the deletion of a connection's items, which may therefore miss one.

`announced` (tasks whose subscribers have been looked up) and `missed` are history.
`missed` says that what the page waits for was said when it could not hear: before
the index showed its subscription, in a post that failed, without its result, or
while its socket was lost. A bridge that overlooks a subscriber which the index shows
does not set it. It is reset with each new wait, and it is what `LoadingEnds`
excepts: for such a page nothing in the code ends the wait. The run `dropped` shows
the last of these cases against what the documents say.

`Leave` is what the unmounted hooks do: the one timeout that `timerRef` holds is
cleared, the socket closed without its handlers. The other chain, a fetch under way
and a submission on its way go on; an accepted one starts a chain of its own.

Abstractions. The query for a connection's items and the batch that deletes them
are one step (an item stored in between is kept as if it came after); a batch
delete that fails halfway is not modelled, nor the two-hour expiry of the items,
which removes what remains. The pipe halves a batch that
raised (`BridgeRaises`), and gives up after three retries;
`MaxTrouble` is below that. Fetching the design after a bare message, and dropping the
error when that fails, is one step. A behaviour is one visit of the page, in the design or
the docs stage, and where they differ it may do as either; `Stale` connections are
those of earlier pages. Hydration may find no task although one is active (the step
has a result, or the read fails).

## Runs

| run | module, cfg | checks | states |
|---|---|---|---|
| slot | SlotRefinement, MC_slot | `TypeOK`, `SlotInv`, `SlotNamesOutstanding`, `StatusBacked`, `StepHasResult`, `ImplementsActiveSlot` | 129 thousand |
| redelivery | TaskPipeline, MC_redelivery | `NoOrphanTask`, `AcceptedSettles`, `QueuesDrain` | 1.1 million |
| breaker | CircuitBreaker, MC_breaker | `TypeOK`, `CountersFit`, `SlotsConserved`, `Moves`, `OperationsEnd` | 4.7 thousand |
| retry | TaskPipeline, MC_retry | `FailureRecordedOrRetried` is violated | |
| heal | TaskPipeline, MC_heal | `ClaimsAlone` is violated | |
| probe | CircuitBreaker, MC_probe | `HalfOpenResolves` is violated | |
| interview | MCInterview, MC_interview | `TypeOK`, `AnswersFit`, `Resumable`, `RequirementsCurrent`, `AnswersKept` | 959 thousand |
| servers | MCInterview, MC_servers | `AnswersKept` is violated | |
| asking | MCInterview, MC_asking | `AsksUntilGathered` is violated | |
| generation | MCGeneration, MC_generation | `TypeOK`, `AddressesDistinct`, `ResolvedWithItsDesign`, `LayerOrder`, `ImportsWired`, `PredefinedPlansMerge`, `BestKept`, `CacheSound`, `FixesReachTheirLayer`, `SectionsAnnounced`, `DiagramFlag`, `GenerationEnds`, `DocsEnd` | 247 thousand |
| delivery | MCDelivery, MC_delivery | `TypeOK`, `LoadingEnds`, `PollsEnd`, `DeadForgotten`, `QueueServed`, `ShutdownEnds`, `AllTold` | 379 thousand |
| dropped | MCDelivery, MC_dropped | `FallbackPolls` is violated | |

Bounds, and why they are enough.

* slot: three docs submissions give a holder, a contender that is refused, and one
  that claims after the release; every call of each may raise, and a refinement
  writes the project back meanwhile. It is a stage alone; `StatusBacked` and
  `StepHasResult` are proved with all three stages, edits, deaths and lost replies
  (`StatusStaysBacked`, `StepsHaveResults`). `LostReplies` is off in the runs: it
  multiplies the states by ten.
* redelivery: a redesign and two IaC submissions, which meet the self-healing path,
  after a selection (`EditsFirst`: submissions begin when the edits are over);
  `MaxReceive` and `MaxCrashes` are both 2, so that a message can and need not reach
  the dead-letter queue. Smaller receive counts than the deployed 3 only shorten
  the behaviours. One option is enough: the properties do not tell options apart.
* breaker: three threads, one of them checking first, one slot, so that one runs,
  one waits and one fails late; threshold, test calls and attempts are 2, so that
  each counter is seen below, at and after its limit. Deadlock is checked: some
  thread can always begin or end a call.

* interview: a blocking field with options and an optional detail that it can make
  moot are the kinds that interact; two request slots, so that one thread can
  be left behind while another turn runs; four messages are the opening, the one
  that is abandoned, a curveball and an answer to its re-plan; one re-plan. The seven
  answers of planners (`MCOutputs`) ask for both fields in either order, for one with
  the other filled in well, badly or without a value, for none, and for a field that
  they fill in as well. The two slots are interchangeable (`Symmetry`; the run checks
  no liveness). `servers` and `asking` need only planners that ask for everything
  and fill in nothing (`MCThorough`): what they show is not a planner's fault.

* generation: projects for each predefined plan, for patterns the model must plan
  (two tenants, a cache of two, a third key that evicts), for templates that pass,
  fail or are tagged, and for topologies with more appliances than zones, a number
  of roles that is no power of two and blocks almost too small. The planner may
  answer with a right plan, a cycle, a dangling import or a chain of two imports.
  Two mishaps and three attempts, as deployed, reach a fix that makes it worse, a
  tie, the last attempt and a validator that is silent at either. Three tasks fill
  the cache and come back to it.
* delivery: two connections, the second of an earlier page that is gone, one
  task, two polls (a first and a last), one piece of trouble of any kind. Locally
  two jobs at a queue of one, so that a job, and the sentinel, meet a full queue;
  three sockets for a limit of two. That a wait meets messages and chains of the
  task before it takes two tasks, and is covered by the proof of `TypeOK` only.
* dropped: one connection, one task, and no call that fails.

Only `breaker` checks deadlock. The pipeline stops when every request is answered and
every queue is empty, and the others when no user does anything more.

### Fairness

`FairSpec` of the pipeline: each stage's worker goes on (SQS keeps delivering,
Lambda keeps running, agents have read timeouts and return or raise), and a
request the API has begun goes on. New requests, faults and deaths are never
forced. `FairSpec` of the breaker: time passes, threads run, model calls end, and
users ask again; the semaphore is not fair, since weak fairness of `Acquire` or
`TimeOut` is fairness of `Step`, which a caller that waits can always leave by its
own timeout.

`Deployment`: a task that has begun goes on, since each call of an agent, of the
store and of a validator returns or raises (read timeouts, `asyncio.wait_for`).
`Delivery`: the browser's own steps and each polling chain, each Lambda that was
invoked, the pipe and its bridge, the schedule of the heartbeat, the worker that
clears a slot after settling its task, the local worker thread, the steps of the
shutdown and the event loop. The page connects again (`OpenSocket`), and
the index catches up with what was stored (`CatchUp`). Nothing makes a user act, a
task settle (that is the premise of `LoadingEnds`) or trouble happen; a connection may
be refused.

## Properties

* `SlotNamesOutstanding`: a task in flight is the one in the slot, so there is
  one at most, and a free slot means none.
* `ImplementsActiveSlot`: the slot is claimed only when free, given back only
  when its task is terminal, and no finished task takes it again.
* `NoOrphanTask`: an accepted task is terminal or its message is still queued,
  unless `MaxReceive` deaths have happened.
* `AcceptedSettles`: it becomes terminal for good, though redelivery sets it back, with
  the same exception.
* `QueuesDrain`: no message blocks its group for ever.
* `StatusBacked`: COMPLETE only with a documentation pointer, IAC or an approved
  option only with a design, although handlers write old copies of the status. The
  object that the pointer names may have been deleted (`PointFails`).
* `StepHasResult`: what is stored as a step was made by a task whose result is on its
  item. Whether polling hands it out is another matter: FAILED may be stored over it.
* `AnswersFit`: a message is taken as the answer to the question shown when it
  was written. The protocol does not carry the question, so this rests on every
  path that could move the plan in between; messages that repeat a failed one are
  the exception the code cannot avoid.
* `Resumable`: what the browser was told and is asked is what a server without
  memory would load from S3.
* `AnswersKept`: no write of the plan to S3 loses a valid answer, unless its field is
  being asked again, or the planner of a re-plan reworked it (`Reworked`: filled it
  in, asked it anew, or did not repeat what the planner before had filled in for a
  detail). Saved plans more than one re-plan apart are not compared.
* `RequirementsCurrent`: the requirements step follows the optional answers.
* `BestKept`: what `generate_iac` returns has as few blocking errors, in some
  report on it, as any version of the task had, and is called passed only when a
  report on that version had none.
* `LayerOrder`, `ImportsWired`, `PredefinedPlansMerge`: layers are generated after
  those they import from; each import is wired to the export of that name in the
  form it needs; the predefined plans never make the merge raise. `ImportsWired`
  looks at plans in which the parameter of an import is neither that of an earlier
  one of the layer nor the id an earlier one stands for (`Unambiguous`): otherwise
  the code replaces a place twice.
* `FixesReachTheirLayer`: a round of fixes without a slip mends every error that was
  found, but a place for a resource that a layer was to export and never made. It
  speaks of the errors found: a fix may take away an id which a `${Parameter}` in
  another layer happened to name.
* `CacheSound`: the plan cache keeps its limit, one entry per key, oldest first.
* `AddressesDistinct`: in one VPC, subnets do not overlap, addresses lie in theirs, and
  no two appliances share one. Two ports of one appliance on one role may.
* `ResolvedWithItsDesign`: the resolved parameters in the design step are of one of
  the options in it, by name, whatever `refine_design` overwrites. One refinement is
  under way at a time.
* `SectionsAnnounced`, `DiagramFlag`: a section is announced once with the text
  that is stored; the diagram is called validated only if that very text was accepted. (A
  validator that is not installed accepts everything.)
* `GenerationEnds`, `DocsEnd`: tasks end, whatever raises.
* `LoadingEnds`: the page stops waiting for a settled task, or it missed the word.
* `PollsEnd`: polling stops, with two chains for a task and one timer reference, also
  that of chains which go on when the page has been left.
* `FallbackPolls`: a page that waits and has lost its WebSocket polls, or has another.
* `DeadForgotten`: nothing is kept of a closed connection, though `$disconnect` or
  a delete is lost, except a subscription stored too late.
* `QueueServed`, `ShutdownEnds`: the local queue is served, during a shutdown too,
  and the shutdown ends although its sentinel may have to wait for room.
* `AllTold`: a socket that fails during a broadcast is nobody else's loss.
* `CountersFit`, `SlotsConserved`, `Moves`, `OperationsEnd`: see the comments in
  `CircuitBreaker.tla`.

## What the violations show

* retry: the workers' comment says a failure that could not be recorded is
  retried; `mark_*_failed` swallows the exception, so the message is deleted, the
  task stays PROCESSING and the slot taken.
* heal: `submit_iac_task` clears a stale slot by writing back the project it read
  two calls earlier. Another submission may have claimed the slot in between;
  both are then in flight.
* probe: `pre_check` counts a test call, the agent's own check uses the only one,
  and `call` is rejected without recording a result: the circuit stays HALF_OPEN.
* servers: the plan cache never looks at S3 again once a plan is in memory, and
  two servers are deployed without stickiness: a turn works on the older copy it
  finds and overwrites the answers given through the other server.
* asking: a reply without a value closes a blocking question. Nothing is left to
  ask, the user is told that the requirements are complete, and they never are.
* dropped: `docs/design-agent-design.md:730` says "On WS disconnect, polling resumes
  automatically", and `frontend/README.md:68` the same; `useWebSocket.ts:153` only
  reconnects. Polling was stopped when the socket opened, and no effect starts it
  again: a page whose socket drops for good waits until it is opened anew.

## What was met on the way

Behaviour that differs from what a comment or a document says, or that nobody
seems to have decided, found while translating the code. None has a run of its own.

* A re-plan puts what its planner fills in over the user's answers, and forgets the
  details that the planner before had filled in (`interview_planner.py:198-203`,
  325-328), though its docstring says "Preserves answered entries" and
  `docs/interview-agent-design.md:120` only "New questions are appended to the plan".
  The entries are preserved; what they say is not what is used. An invalid value
  filled in this way is not
  reverted by `revert_answer` when its field was never asked. `AnswersKept` excepts
  these fields.
* The planner is not told of answered details of the use case: `_set_nested` stores
  them under a key that `get_missing_fields_schema` does not read, so they count as
  missing at a re-plan.
* Messages and polling chains are not matched by task id: those of an earlier task
  end the wait for a newer one. `stopPolling` clears one of two timers.
* The bridge's query for subscribers is not paginated.
* `services/design.py:183`: a full local queue raises after the task and the slot
  were written, and neither is undone. `shutdown` forgets a thread that is still
  running after 30 seconds.
* `validation/structural.py:57` calls YAML the fallback for paths 1 and 2, but
  `yaml.safe_load` rejects CloudFormation tags, so such a template never passes
  (S002). `refinement._parse_template_parameters` has the same loader, and picks
  `main.yaml` where PARAMETERIZE wants "template" in the name.
* `_execute_assembly_plan` looks for parameter defaults in an empty template and
  finds none; resource renames apply to every snippet and to no reference.
* The fix loop's revert returns the best template with the report of the current
  one. A blocking validator that is missing or times out counts as clean. An
  exception in the loop loses the best version with everything else.
* A failed GENERATE path returns an output without files, which is stored as
  COMPLETED over an earlier template. A plan that cannot merge stays cached, and
  fails its pattern, for an hour.
* `_replace_refs_recursive` may replace what an earlier import put in place, and
  does not look into `${Parameter}`.
* Two ports of an appliance on one role get the same address; every VPC gets the
  same block; `DesignOption` accepts options that the resolver refuses.
* The approved index survives a new recommendation. `regenerate_docs_section` loads
  and saves in two calls, and leaves `diagram_validation_passed` as it was.
* `local_notification_worker.py:152` asks for LATEST iterators again and loses what
  was written in between.

## Proofs

`tlapm` checks eight proof modules, for every value of the constants allowed by the
named assumptions next to the constants: switches are Booleans, sets of threads and
slots finite (`CallersFinite`), `None` is no element (`NoneIsNew`, `NoProject`),
kinds of requests disjoint (`Disjoint`, `Requests`), limits are natural numbers,
positive where the code needs one (`LimitsPositive`, `MaxFix`, `MaxCache`,
`MaxDiagram`, ...). Some say what the outside may answer, no more than its types:
`OutputsKnown` (a planner asks for fields, and fills in nothing that its field cannot
hold), `PlansAssumption` (a layer plan is a non-empty list of layers with lists of imports
and exports), `ProposalsAssumption`, `DesignsAssumption`; `SnippetsAssumption` and
`AssembliesAssumption` that files are finite. `Quiet` restricts the refinement only.

The pipeline.

* `TypeCorrect` (TaskPipelineProofs): `TypeOK` is not inductive alone, since
  `ClearSlot` writes back a copy that could be `None`. `HandlerInv` adds that a
  handler about to write has made its copy, and that a busy worker's message is
  still in the queue, which `Ack` needs for `Tail`.
* `StatusStaysBacked`, `StepsHaveResults` (TaskPipelineProofs): handlers write whole old
  copies of the project back, so what the item claims must hold of every copy
  somebody holds (`CopiesBacked`). It does because what a copy claims is never
  undone (`Grows`): a documentation pointer, a design and a result, once written,
  stay; an object does not. `DesignLoaded` and `ResultsFirst` place the handlers that are past the load
  or about to save. With any fault, death, lost reply and edit.
* `NoneOrphanedIfRecorded`, `FailuresRecorded`, `NoneOrphaned` (also there): `RedeliveryInv` says that messages stand in the queue of their stage, only the head
  has been received, each receive is the worker's or cost a death, and a busy worker
  works on the head. A message then leaves in two ways: by the redrive policy after
  `MaxReceive` deaths, or by a handler that returns. So no task is orphaned as long
  as `FailureRecordedOrRetried` holds, the promise of the workers' comment, which is
  a hypothesis of the first theorem: the run `retry` shows how faults break it. With
  no faults of store and queue (`Settled`) it always holds; the deaths that reach
  `MaxReceive` are the exception that `NoOrphanTask` itself makes.
* `SlotAgrees`, `SlotNames`, `SlotIsActiveSlot`, `SlotIsClaimedAlone` (SlotProofs):
  the inductive invariant `SlotInv` places every request, message and worker. Its
  core is `MessagePlace`: a message belongs to the holder of the slot, or stands at
  the head while its terminal task's handler is about to return. Therefore a worker
  between `Receive` and `ClearSlot` works for the holder, nobody else can claim
  in between, and the old copy it writes back differs from the item only in
  fields its stage does not share. Each step then maps to `Claim`, `Refuse`,
  `Release` or a stutter. The last two theorems assume `Quiet`; without it
  `SlotIsClaimedAlone` is false, which is what the run `heal` shows.

The breaker.

* `BreakerTypeCorrect`, `CountersAlwaysFit`, `SlotsAlwaysConserved`,
  `MovesAlongEdges` (BreakerProofs): the conjunction `BreakerInv` is inductive.
  The range of `free` needs `SlotsConserved`, and the range of the failure count
  needs `CountersFit`, so none of the three is inductive alone. Conservation is
  argued by cardinality: a step adds one caller to the holders, removes one, or
  leaves the set as it is.

What the workers do (DeploymentProofs and GenerationProofs).

* `SectionsAlwaysAnnounced`, `DiagramFlagHonest`: `DocsInv` follows each thread's
  record from start to announcement: attempts are left while it works, a verdict
  belongs to the text that was returned, and who has announced is over and has
  announced what it holds.
* `CacheAlwaysSound`: `CacheInv` is `CacheSound` with the type of an entry. At
  capacity the oldest goes before the key's own old entry does; both removals keep
  the order (`Ordered`).
* `ResolvedAlwaysWithItsDesign`: `DesignInv` says of the stored step, and of the copy
  that `refine_design` is about to store, that its parameters are of one of its
  options (`StepSound`), and that the approved index is one of the recommendation it
  was approved in, which may be an earlier one.
* `AddressesAlwaysDistinct`: `AddressInv`, from `ResolvedDistinct`: the subnets of a
  block are parts of one size, a power of two (`TwoTo`, by induction), and so do not
  overlap; an address is its subnet's first plus an offset below that size; two
  appliances of one role in one subnet differ in their index, since the index is
  counted among those before. It speaks of one VPC, and of different appliances.
* `LayersInOrder`: `LayersInv` describes `_generate_all_layers` between two groups
  (`Between`): the layers taken are those of the groups before, the rest is what the
  recursion of `GroupsAfter` gives from there. It ends since each call takes a layer
  more; a group either has all its sources behind it, or is a cycle's rest.
* `BestAlwaysKept`: `LoopInv` says that the counts reported so far are never below
  `bestCount`, that the best version has that count in a report, and that the
  current report is of the current version (`Tracked`); it also needs the error
  counts to be numbers, and so the finiteness of all that is counted.
* `ImportsAlwaysWired`: `WiredInv`: what is in the loop was merged without raising.
  By induction over the imports of a layer a place is replaced once, if no two of
  them meet, and keeps the export's form; a `${Parameter}` stays.
* `PredefinedAlwaysMerge`: `Contract` says what the merge needs of a plan; the tables of
  the four plans have it (`PredefinedInv` carries it past the choice of a plan). The
  merge of drafts that clash may still raise. Layers that wait for each other are kept out of one
  group by `GroupsIndependent`, for every plan without cycles in its order.
* `FixesAlwaysReach`: a round without a mistake gives every layer in error a draft
  without a slip (`RoundMends`); whatever its imports are, each of its places ends as
  what one of them stands for (`ReplacedByExport`), which some layer exports. An
  error without a resource goes to all layers, the others to their owners.
* `TypeCorrect` (GenerationProofs): the ranges follow from the invariants above and
  `BoundsInv`.

The interview (InterviewProofs). A plan object is shared by a cache, a request and
the threads of requests given up, so the proofs rest on what an operator may do to
a plan that others hold. `Follows(p, q)` says that q keeps the number of p's questions
and of its re-plans, and that what p has for good (`Firm`: gathered and not asked
again) q has for good. Each operator that works in place is shown to
follow (`TurnFollows`, `RevertInvalidFollows`; the latter is a fold, turned into
induction over the fields still to do). What a planner fills in and asks for is
arbitrary, so `ReplanKeeps` says only that a new plan has for good what the old one
had, but for the fields of `Reworked`. `Onward` then says of a step that each object
in use before and after it is followed by itself.

* `TypeCorrect`: `Typed` places every turn (`Sound`): past its lookup it has a plan
  object in use, a question asked is one of that plan, a request is awaited by the
  browser or has only a thread. The step `RecordReply` needs `Onward`: its question
  was read from the plan before other threads changed it.
* `AlwaysResumable`, `RequirementsAlwaysCurrent`: `Settled` and `Shown`. A response
  made when all saves had succeeded and nothing else was at work tells what is saved,
  and as long as the browser shows it exactly nothing is at work and nothing changes
  it. For any number of servers.
* `AnswersAlwaysFit`: `Cached` adds that the plan in memory is the saved one while
  the browser shows it exactly, and `Fitting` that the message written then is alone
  with its plan until its question is asked. Both, and the next theorem, need
  `OneServer`, which is a hypothesis of these theorems and not of the model: with two
  servers the cache of the other may be older. The run `servers` violates
  `AnswersKept`, and on its instance with one message more TLC finds a behaviour that
  violates `AnswersFit` too.
* `AnswersAlwaysKept`: `Held` says that the plan in memory, and the plan of the one
  request that the browser waits for, has kept what was saved for good (`SavedIn`): all
  of it as long as neither is a re-plan ahead, and what that re-plan did not rework
  when one is (`Keeps`). Following a plan and replanning it once both preserve this
  (`SavedInFollows`, `SavedInReplan`); a detail that no open
  question asks keeps its last answer. Only the request that the browser waits for saves. A
  thread left behind may go on changing its plan, since what it does follows; it may
  not save. That a request still at its first plan finds nothing saved is part of it:
  nobody else can have saved in between.

How the browser hears of it.

* `LocalTypeCorrect`, `NothingLeftBehind`, `CastsTell` (DeliveryProofs): the
  invariant `LocalInv` says that the shutdown's sentinel is the last entry of the
  queue, that what is queued stands in it once and nothing else does, and that a
  broadcast runs for settled jobs only. `Take` needs all of it: a job found at the
  head is one that waits. The limits on subscriptions follow by cardinality, since
  a server accepts one only while its count is below the limit. `TellsOrDrops` is
  the step half of `AllTold`; that a broadcast goes on stays with TLC.
* `DeliveryTypeCorrect` (DeliveryProofs) for the deployed service: `CloudInv`
  adds the place of the bridge in the batch it was given, without which the
  announced change need not be a task, and types for the inboxes and the stream,
  which `TypeOK` does not mention but `Tail` and the next batch depend on. A page
  step that also submits extends the range of task numbers; every other step
  leaves it alone.

Recursion and induction. The library's theorems on both take an operator as a
parameter, which the provers cannot instantiate. RecursionTheorems therefore states
them about sets and functions: `NumberInduction` and `RankInduction` for a set that
holds what is to be shown, `RecursionExists` for a function given by its values at
the base, a function to the next argument, a step and a rank. Each recursive
function of the model is shown to be of that form once (`GroupsEquation`,
`ImportsReplace`, `CountedRecursion`, `AnsweredQuestions`; `RevertedInTurn` for the fold of
the community modules), and the rest is argued from its equation.

The strengthened invariants were checked with TLC on the instances of the runs as well.

What the proofs changed in the models. `Reload` chose between two cases whose guards
overlapped, which in TLA+ leaves the result open although TLC takes the first; it is
an order of conditions now. `QuestionPlan` filters the questions with a recursive
function, since `SelectSeq` is recursive in its library, and says that no plan is
`NoPlan` (`NoPlanIsNone`). The wiring theorem needed the condition `Unambiguous`, and
that condition is where the code replaces a place twice.

Only model-checked: the liveness properties, since fairness and ENABLED are out of the
prover's reach (`AcceptedSettles`, `QueuesDrain`, `OperationsEnd`, `GenerationEnds`,
`DocsEnd`, `LoadingEnds`, `PollsEnd`, `DeadForgotten`, `QueueServed`, `ShutdownEnds`,
`AllTold`). Every safety property of a passing run is the statement of a theorem.

## Not modelled

Statuses `requirements` and `documentation` of the project (set outside the task
pipeline or never), creation and deletion of projects, two tabs in one interview,
the wording of its questions, the IaC view's own polling, moving between stages
and logging out, the local process that tails the table's stream, local mode with
SQS, the advisory validators, the text of templates, documents and prompts, the
mapper's rules by parameter name, authentication, metrics and the catalog. See the
components in `PROJECT.json` for the reason of each.

## Plan

1. `ProjectStore`: several projects, S3 object and pointer as two writes, upserts
   after deletion; abstract specification: a step is absent or the value last saved.
2. `Interview`, continued: an abstract specification, a plan with atomic turns,
   that it implements on one server without timeouts; two tabs.
3. `Wizard`, continued: the IaC view, several visits, tasks of two stages at once.
