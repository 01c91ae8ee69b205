# TLA+ specifications of KubeEye

KubeEye inspects Kubernetes clusters. Users write **InspectRules** (what to look
at) and **InspectPlans** (which rules, when); the manager creates an
**InspectTask** for every inspection, runs Kubernetes Jobs for it, collects what
they find into a report file, and publishes an **InspectResult**; an API server
answers a console's requests. This directory models these processes, checks them
with TLC on small instances and proves most of their safety properties with TLAPS.

## The system

| Part | State | Operations | Interacts with |
|---|---|---|---|
| InspectPlan controller, `pkg/controllers/inspectplan_controller.go` | a plan's labels, annotations, status (`LastTaskName`, `LastScheduleTime`, `TaskNames`), the count `join-plan-num` at each rule | `Reconcile`, `createInspectTask`, `cleanTask`, `updateAddRuleReferNum`, `updateSubRuleReferNum` | creates and deletes InspectTasks; writes InspectRules; its status is also written by the task controller, the API server and users |
| InspectTask controller, `inspecttask_controller.go` | a task's status and `JobPhase`, the rule and result ConfigMaps, the report file | `Reconcile`, `createInspect` (one goroutine per cluster), `GenerateResult`, `updatePlanStatus` | runs the job pool, creates the InspectResult, writes the plan's status |
| Job pool, `createJobsInspect` in the same file | a semaphore channel, a WaitGroup, a mutex, the shared `jobNames` and `resultData`, the report file | one goroutine per rule: create a Job, poll it, merge its ConfigMap into the report | Kubernetes Jobs and their pods |
| InspectResult controller, `inspectresult_controller.go` | a result's finalizer, `Complete`, `Level`, end time; the files | `Reconcile`, `CountLevelNum`, `SendMessage` (a goroutine) | reads the report the task controller writes; mail |
| InspectRules controller, `inspectrules_controller.go` | a rule's finalizer, import state, level counts | `Reconcile`, `ComputeLevel` | rules are also written by the API server, the plan controller and users |
| Rules, `pkg/rules/rules.go` | none | merging, deduplication, allocation to nodes | called by `createInspect` |
| Inspection job, `cmd/ke/ctl/create/job.go` | a pod, its result ConfigMap | `jobInspect`: find the rule, run the inspector, store the data | started by a Job of the pool, merged by the pool |
| Inspectors, `pkg/inspect` | a baseline ConfigMap per `fileChange` rule | one inspector per rule type: `RunInspect` in the pod, `GetResult` in the manager | the node, Prometheus, services, OPA |
| OPA collector, `pkg/collectors/opa` | channels of tasks and results, a resources manager | list resources, check them by a pool of workers | run by the opa inspector |
| API server, `pkg/server`, `cmd/apiserver` | informer caches (listers) | one handler per route; query, filters, order and pages in `pkg/server/query` | reads listers, writes to Kubernetes, reads report files |
| Start-up, `cmd/ke-manager/main.go`, `cmd/apiserver/main.go`, `pkg/informers` | informer factories | make clients, register, start and wait for informers | everything above |
| Output, `pkg/output` | none | a page, a workbook and a JSON answer from a report | called by the API server and the result controller |
| Messages, configuration, clients | - | mail, construction of clients | - |

The manager runs as one replica with one worker per controller
(`cmd/ke-manager/main.go`); the four controllers run concurrently with each
other, and every one of them reads from informer caches that lag behind the API
server of Kubernetes and writes with optimistic concurrency (`Update`) or without
(`Patch`). A failed `Reconcile` is retried with back-off. The handlers of
KubeEye's own API server run in a goroutine each.

What is hard in it:

* goroutines that share slices, maps and a file under a mutex that not every one
  of them takes; workers and a collector that wait on each other's channels;
* every controller and handler acts on an outdated read, and on objects others
  write at the same time; a whole inspection lies between the read of a task
  and the update of its status;
* retries after a crash, a conflict or a lost reply repeat steps that are not
  idempotent (create the InspectResult, count a plan at a rule, create a task
  named after the minute, remove the report, create a result ConfigMap);
* pods of different nodes that share one baseline and race to create it;
* errors that are logged and forgotten, on paths that decide a verdict;
* deletion with finalizers while work is in progress;
* lists that every request sorts anew, and page numbers that are multiplied and
  added in `int`;
* things that must eventually happen: a task and every job must end, a schedule
  must be served, a slot of the pool must be freed, a rule must be imported, a
  deleted object must go.

`PROJECT.json` lists these hazards line by line, with the properties that cover
them.

## Modules

| Module | Models | Runs / proofs |
|---|---|---|
| `JobPool` | `createJobsInspect` and all it calls, the Jobs and their pods | `pool`; `JobPoolProofs` |
| `InspectTask` | the InspectTask controller for one task, one or several clusters; the pool by its outcomes; removal of results by the InspectResult controller | `task_default`, `task_multi`, `task_restart`; `InspectTaskProofs` |
| `TaskPromise` | what the task controller promises of a task: the abstract specification `InspectTask` implements | `task_default` (`KeepsPromise`); `InspectTaskProofs` |
| `InspectPlan` | the InspectPlan controller for one plan; the task controller by its reports | `plan_single`, `plan_periodic`, `plan_once`, `plan_removed`; `InspectPlanProofs` |
| `InspectResult` | the InspectResult controller for one result, with the SendMessage goroutine; the task controller by what it does to the report | `result`; `InspectResultProofs` |
| `RuleAllocation` | `pkg/rules`: from the rules a task names to the jobs of a cluster and the ConfigMap they read | `allocation`; `RuleAllocationProofs` |
| `RuleImport` | the InspectRules controller for one rule | `api`; `ApiServerProofs` |
| `Query` | `pkg/server/query` and the comparisons and filters of the four kinds of objects | `api`; `QueryProofs` |
| `Startup` | both main functions, the informer factories, the death of a process | `api`; `ApiServerProofs` |
| `ApiServer` | every route's handler, composed of `RuleImport`, `Query` and `Startup` | `api`; `ApiServerProofs` |
| `Inspectors` | what `RunInspect` of each inspector returns, and `GetResult` of each | `inspection`; `InspectionProofs` |
| `Report` | the page, the workbook, the counts and the JSON answer made from a report | `inspection`; `InspectionProofs` |
| `OpaChecker` | the OPA inspection: lists, sender, workers, collector, channels | `inspection`; `InspectionProofs` |
| `Inspection` | the pods of an inspection and the baseline they share, composed of `Inspectors`, `Report` and `OpaChecker` | `inspection`; `InspectionProofs` |
| `...Proofs` | theorems about the module of that name | |
| `MC...` | values of constants a `.cfg` cannot write | |

Operators commented "Faulty variant" (`DispatchNoSlot`, `KeptOneShort`,
`WaitForCacheSyncNot`...) are mutations of the definition that follows them. No
specification uses them; a property is only kept if putting one of them in place
of the original makes TLC report it.

### JobPool

One goroutine per rule with the program counter `pc[r]`; `sem`, `wg` and `mutex`
are the channel's length, the WaitGroup's counter and the mutex' owner. Each step
between two blocking or interleaving points is one action: `Dispatch` (the `for`
loop with `wg.Add` and the send into the semaphore), `StartExpired`,
`StartUnknown`, `StartUndeployable`, `StartDeployable` (the branches at the head
of the goroutine), `CreateJob`/`CreateJobFails`, the polls of
`waitForJobCompletionGetResult`, `Lock`, `RecordResult`, the steps of
`getInspectResultData` (`Fetch...`, `Marshal`, `Write`, `DeleteConfigMap...`),
`RecordError`, `Unlock`, and the deferred `Done` and `Release` in the order in
which Go runs them.

* `jobNames` is appended to with and without the mutex. An append is two steps
  (read the slice header, store it); appends that overlap are a data race, and
  the model then lets any subset of the records involved survive. `racy` is a
  history variable that says that this has happened.
* `resultData` and the report are sets of rules: which jobs' data they hold.
  A write puts the marshalled snapshot `buf[r]` in place of the file, or fails
  (only logged, `fileOK`).
* `Unreadable` is the set of rules whose ConfigMap `GetResult` cannot read
  (logged, and the ConfigMap deleted). It is empty in the run; the theorems hold
  for any.
* Jobs complete, fail, hang or are removed by the TTL controller at any time; the
  two timeouts may expire at any time.

### InspectTask and TaskPromise

One task in Kubernetes (`task`, with a version) and its copy in the cache
(`cache`); `my` is Reconcile's local copy. `Branch` is the decision at the head of
Reconcile, one action per branch, and the inspection is split at its goroutines:
`cpc[c]` is where the goroutine of cluster `c` is, from the client of the cluster
(`GetMultiClusterClient`) to the removal of its ConfigMap (`CleanConfig`). The job
pool is `PoolSaves`/`PoolReturns` with any outcome `JobPool` allows. `result[c]`
is the InspectResult with or without its finalizer, `file[c]` the report. The
environment delivers events late, edits (`Touch`) and deletes the task, expires
its timeout, crashes the manager and fails calls, with or without effect
(`LostReply`).

`TaskPromise` says what a user of a task may rely on: it starts once, gets at most
one verdict, none once its deletion has begun, and its plan hears nothing but that
it runs and its verdict. `KeepsPromise` is `TaskPromise!Spec` with the status,
the deletion mark and the existence of the task in Kubernetes, and the phase in
the plan, in place of its variables: every conflict, retry and crash of the
controller is a stutter of the promise or one of its steps.

### InspectPlan

One plan, its cached copy, the work queue with its delay (`queued`, `timer`), the
tasks by the minute they are named after, and the count at each rule in Kubernetes
(`count`) and in the lister's copy (`lister`), which the code changes in
place; `fresh` is the set of rules whose copy in the lister has the current
version, so that an `Update` from an outdated copy is refused. `Upkeep` is the
decision at the head of Reconcile. `Dropped` and `Joined` are
`GetUpdatePlanRule` with its loop over labels. A schedule is a period: `NextTime`
is `schedule.Next`. A status is stored by `Update` (single inspections) or by a
merge patch without a version (`Patched`, periodic ones). The task controller's
reports change the plan in between (`Reported`). `off` is a history variable: the
rules users have ever taken off the plan.

### InspectResult

One result with its cached copy, the report file (`Gone`, `Broken` or a number of
issues), the goroutines of `SendMessage`, and the second inspection of the task
controller, which removes the report and writes it again job by job. The counts
of the three levels are abstracted to their sum, which is what the message and
its condition use. `ended` counts how often `TaskEndTime` was set.

### RuleAllocation

One attempt of `createInspect` at a time, up to the pool, and the attempts that
follow it after an error or a crash (`Retry`). An item is its name and its target,
a node's name, which may be absent (`NoNode`) or the empty string (`Blank`, what
`SetRuleSchedule` writes when the task has a selector only), and a selector. One
list stands for all the lists inspected on nodes and one, the opas, for those of
the cluster, since the code treats each list by itself. `SitesOf` gives the sets
of nodes an item may end up on: `mergeNodeRule` decides a selector by the last
label of a walk through a Go map, so for a node with some of the labels both
answers are possible. The properties compare the jobs with a reference that knows
nothing of merging: `Firsts` and `Target` are read off the rules as they are.
A loop that keeps some elements of a list, `ArrayFilter` or the deduplication, is
`Select` of their indices; the loop over the rules is the function in `Merged`.

### ApiServer, RuleImport, Query, Startup

`Startup` walks both main functions call by call (`ManagerMain`, `ApiServerMain`).
An informer asked for after `Start` is registered but never runs, and
`WaitForCacheSync` waits only for the ones that run, so the order of the calls is
what makes a lister complete; a process may die at any point and starts over.

`RuleImport` is the InspectRules controller: `RuleBranch` is the decision at the
head of Reconcile, and each branch ends in one update that carries the version
Reconcile read. A level left out counts as a warning; components are not counted.

`Query` has the arithmetic of a page (`ParsePagination`, `computeIndex`, with
`Wrap` for the width of `int`), the comparisons and the filters. Listers hand
objects out in the order of a Go map, `sort.Slice` is not stable, and descending
order negates the comparison; `Sorted` is therefore the set of lists the sort may
answer with, and a filter on a map of keys has a set of outcomes (`filterWalk`). The
orders and filters are those of the source, the ones that fall through included. A
handler whose type assertion panics answers "panic".

In `ApiServer` one rule and one plan are followed among others that only fill the
lists; `plist` and `rlist` are the lister's copies. A handler is one action,
except the one that starts a plan again, which looks in the lister
(`PatchInspectPlanStatus`) and patches later (`PatchStatus`), two of them at once.
Tasks and results, which the handlers only read or hand on, appear by the
answers; `dirty` says that a request with details has written the report into the
lister's own object.

### Inspection, Inspectors, OpaChecker, Report

A Job's pod goes through `pod[j]`: run the inspector, store the data; a pod that
exits with an error or panics is replaced, `BackLimit` times. A custom command and a
query of Prometheus have no timeout, and the Job has no deadline, so their pod may
hang (`Hangs`). `merged` is the set of jobs the pool is done with: it merges the
ConfigMap of a Job that has ended (`JobEnds`), and at its timeout, at any time, it
gives a Job up (`GiveUp`), whose pod goes on. The inspectors that keep no state are operators of `Inspectors` from what
they meet (is the rule found, is the service up, what does the rule say of the
value) to items, and `RunInspect` is the set of their outcomes over all of it. The
two that do keep state are step by step: `fileChange` (`ReadFile`, `GetBase`,
`CreateBase`, with the baseline `base` shared by all nodes and all inspections)
and OPA (`OpaChecker`: the unbuffered channels, whose send and receive are one
step; batches; workers; the collector; both closings). What Rego says of a
resource is a constant, `Denied`.

A file is a sequence of lines. `diffString` colours what differs, scans the text by
lines and lists the ones with a colour. The scanner stops at a line of 64 KiB
(`Long`), its error is never looked at, and the bytes of a colour may be the file's
own (`Escaped`); so what it lists is a set of outcomes. How many lines it lists is
left out: one or more are one issue. Files are taken to be text in UTF-8, and two
lines that are not `Long` to fit the scanner's buffer side by side.
`NextInspection` begins when no pod of the last inspection works any more.

An item keeps whether it asserts a problem and how many issues it lists, since
this is what the report's tables and counts depend on. `Report` gives the page and
the workbook by their numbers of rows, the status by its counts, and the JSON
answer by its groups, maxima and totals.

## Runs

Every bound is a constant named `Max...`, or the size of a set.

| Run | Instance | Checks |
|---|---|---|
| `pool` | 3 rules (one unknown to the operator map, which is also the opa rule), 1 node, 2 slots: two goroutines at work and one waiting, the least with which slots, races and the order of the report can go wrong | `TypeOK`, `PoolBound`, `CollectedIsReported`, `VerdictSound`, `LeftoverIsFailed`, `FinalWhenReturned`, `ReportGrows`, `PoolDrains` |
| `task_default` | the default cluster, 1 edit, 1 crash, 1 failed call, deletion at any time | `KeepsPromise`, `DeletionCleansUp`, `PlanLearnsVerdict` |
| `task_multi` | 2 clusters, 1 crash, 1 failed call | `ReportBehindSuccess`, `TaskFinishes` |
| `task_restart` | the default cluster, 1 crash | `TaskFinishes` is **violated** |
| `plan_single` | a plan for one inspection at minute 2, one rule, 1 edit (rule taken off, pause, delete), 1 crash, 1 failed call | `TypeOK`, `LabelledIsCounted`, `SingleRuns`, `DeletedPlanGoes` |
| `plan_periodic` | a schedule of every minute over 2 minutes, one task kept, 1 Reconcile by timer from an outdated cache | `RecordsFollowTasks`, `PeriodicRuns`, `NewestAreKept` |
| `plan_once` | a plan for one inspection, 2 minutes | `SingleInspection` is **violated** |
| `plan_removed` | a periodic plan with two rules, one taken off | `PeriodicRuns` is **violated** |
| `result` | issues 0 or 1, 1 second inspection, 2 edits, 1 crash, 1 failed call | `TypeOK`, `MessageAgrees`, `StatusIsFinal`, `ResultCompletes` |
| `allocation` | 3 nodes (both labels, one, none), 2 rules of up to 2 items with every kind of target, 3 lists of rule names (with targets, a rule twice, a rule in vain), 1 failed call | `TypeOK`, `InspectedWhereAsked`, `EachOnce`, `StoredIsRun` |
| `api` | both processes from their start, 1 death or failed call, 2 requests of any route, among them two at once that start the plan; 3 rules and 3 plans, 2 on a page, `int` up to 5, so that offsets overflow | `TypeOK`, `ServedFromSynced`, `ListsInBounds`, `WalkMeetsAll`, `CountsMatchSpec`, `RuleSettles`, `RepeatNeedsStaleLook` |
| `inspection` | 2 jobs of every kind on 2 nodes, 1 replacement of a pod, 2 inspections; commands and queries that hang; files with and without a line of 64 KiB and bytes of a colour, different on the two nodes at first, 2 edits; 1 failed call; OPA with 4 resources of 2 kinds, 2 workers, batches of 2 | `TypeOK`, `OpaFindsAll`, `ReportComplete`, `FileChangesTold`, `JobsEnd` |

Two issues of an object tell apart whatever one edit, one crash and one failed
call can; two minutes tell a retry in the same minute from one in the next, and
two slots of a schedule show that the second is served. Two requests are a look and
a write in between; three objects on pages of two make a walk of two pages with a
tie; two inspections are the least in which a baseline outlives its pod. In
`allocation` deadlock is checked; in the other runs it is not: each of those
systems may stop (a task that has ended, a plan that has inspected, a bounded
clock, no more requests), and that it does not stop early is what the liveness
properties say.

**Fairness.** Weak fairness on the controllers' steps (controller-runtime calls
Reconcile as long as the queue holds a key; goroutines are scheduled; calls to
Kubernetes return), on the delivery of watch events and timers, on time, and,
where a deletion is followed to its end (a task's results, a plan's tasks), on the
garbage collector, which deletes what an owner that is gone has left. In `api`
it is on the manager's controller, its watch and the start of each process. In
`inspection` it is on the steps of the jobs (the kubelet runs their containers, the
manager merges), but not on a pod that hangs, and on the pool's timeout for such a
pod. Where nothing hangs no timeout is assumed to come, so `JobsEnd` says that
nothing else needs it. Nothing is assumed of Jobs in `JobPool`, which may hang for ever,
of clients, or of failures. In `InspectTask` the return of the pool is assumed
fair, which is what `JobPool!PoolDrains` shows.

### What does not hold

* `task_restart`: when the manager dies after `r.Create(ctx, &result)` and before
  the task's status is stored, every later attempt inspects again and fails with
  AlreadyExists; the task stays Running, past its timeout. In multi-cluster mode
  the error is only logged, and the task ends (`task_multi`).
* `plan_once`: a task is named after the minute, so a retry in the next minute
  creates a second task. The conflict that makes a retry necessary is caused by
  the first task itself, whose Running report changes the plan.
* `plan_removed`: a rule taken off a plan keeps its label on the plan; from then
  on Reconcile returns before it comes to the schedule.

Met on the way, and part of the models as the code has it:

* A plan for a single inspection can be paused (line 130 of the plan controller
  returns before `Once` and `Schedule` are looked at).
* The pod that loses the race for a `fileChange` baseline logs an error that is nil
  and panics (`CreateBase`); its replacement finds the baseline.
* `PatchInspectPlanStatus` answers that there is no such plan and goes on, into a
  nil pointer; the route of `DeleteInspectRule` has no `:name`.
* A level left out is a warning in the counts of an import (`ComputeLevel`) and a
  danger in a result.
* `GetServices` compares a service's rule name with the namespaces;
  `GetNodesStatus` takes the last condition of a node for its readiness;
  `isAllContainersReady` is content with one.
* A change in a line of 64 KiB, or after one, is not noticed; a file with the bytes
  of a colour (`\x1b[3`) is asserted, changed or not (`diffString`).
* A command or a query that never returns holds a slot of the pool until the timeout
  of the pool, and its pod is never ended (`Hangs`, `GiveUp`).
* A request for a result with details writes the report into the lister's object.

Properties are stated up to what the code gives:

* `ReportBehindSuccess` speaks of behaviours without a failed call and without
  edits by others, and says so in its formula (`errors`, `touches`). In
  multi-cluster mode a failed creation of the InspectResult is only logged; and a
  second inspection started from an outdated read removes the report behind a
  verdict before its own status update is refused.
* `VerdictSound` and `LeftoverIsFailed` hold as long as no appends have raced.
* `PlanLearnsVerdict` holds without edits, crashes and failures: the last report to
  the plan is not repeated. `DeletionCleansUp` takes a report along only with an
  InspectResult that has its finalizer.
* `SingleRuns` excepts plans whose rules are not settled. Besides the label that
  stays, a failed `Update` of a rule can leave the plan without a further event:
  the plan's own `Update` then changes nothing.
* `LabelledIsCounted` is about rules that were never taken off the plan (`off`). A
  rule taken off and put back keeps its label and is not counted again: the proof
  for any number of edits needs this exception, which a run with one edit does not
  show. That a rule is counted at most once does not hold either.
* `InspectedWhereAsked` is about the nodes `GetNodes` returned, which after a failed
  call are none; it leaves open the nodes that have some labels of a selector and
  not others; and it excepts an item whose `nodeName` is written as the empty
  string, which the code gives to no node. A task's target for a rule with a
  `componentExclude` list makes `SetRuleSchedule` panic (`Panics`).
* `ResultCompletes` is about readable reports. Without a report (no job saved any
  data) Reconcile fails for ever.
* `ListsInBounds` excepts an offset and a limit whose sum overflows: the slice
  expression then panics. `WalkMeetsAll` excepts plans created in the same second,
  which nothing tells apart, and walks with the default limit: the offset of a page
  is computed before the limit of the request is read.
* `CountsMatchSpec` is about the spec at the time of the import. An edit after it
  is never counted.
* `RepeatNeedsStaleLook` leaves a plan under way to be started again by a request
  with an outdated look: the patch has no version.
* `FileChangesTold` holds without failed calls: a `Get` of the baseline that fails
  otherwise than with NotFound compares with an empty one. It asserts that a change
  is told if no line up to the first that differs is `Long`, and that a file which is
  the baseline is no problem if it has no line that is `Escaped` (`Truthful`). The
  baseline is the file of the pod that was the first to create it, on whatever node.
* `DeletedPlanGoes` ends with the deletion of the plan's tasks by the garbage
  collector. That a task then goes, behind its own finalizer, is
  `DeletionCleansUp`.

## Proofs

The theorems hold for every value of the constants: any number of rules, tasks,
clusters, nodes, workers, requests, edits, crashes and failed calls. They assume
only the named assumptions of the modules, which TLC evaluates in the runs. Every
proof about behaviours is by one inductive invariant `IInv` per module (`OpaInv` for
the workers of OPA), a conjunction of type correctness
and of named parts; it is needed because none of the properties is inductive by itself.

`InspectTask!TypeOK` is in no run: `TaskTypeCorrect` proves it for every value of the
constants.

| Property | Theorem | Rests on |
|---|---|---|
| `JobPool!TypeOK`, `PoolBound`, `CollectedIsReported`, `VerdictSound`, `LeftoverIsFailed` | `PoolTypeCorrect`, `PoolIsBounded`, `PoolReportsWhatItCollects`, `PoolVerdictSound`, `PoolLeftoverIsFailed` | `PoolInvariant` |
| `JobPool!ReportGrows`, `FinalWhenReturned` (actions) | `PoolReportGrows`, `PoolFinalWhenReturned` | `PoolInvariant` |
| `InspectTask!TypeOK`, `ReportBehindSuccess` | `TaskTypeCorrect`, `TaskReportBehindSuccess` | `TaskInvariant` |
| `InspectTask!KeepsPromise` (refinement of `TaskPromise`) | `TaskKeepsPromise` | `TaskInvariant` |
| `InspectPlan!TypeOK`, `LabelledIsCounted` | `PlanTypeCorrect`, `PlanLabelledIsCounted` | `PlanInvariant` |
| `InspectPlan!NewestAreKept` (action) | `PlanNewestAreKept` | `PlanInvariant` |
| `InspectPlan!RecordsFollowTasks` | `PlanRecordsFollowTasks` | `RecordsInv`, with `PlanInvariant` |
| `InspectResult!TypeOK`, `MessageAgrees`, `StatusIsFinal` | `ResultTypeCorrect`, `ResultMessageAgrees`, `ResultStatusIsFinal` | the `IInv` of `InspectResultProofs` |
| `RuleAllocation!TypeOK`, `InspectedWhereAsked`, `EachOnce`, `StoredIsRun` | `AllocationTypeCorrect`, `AllocationInspectedWhereAsked`, `AllocationEachOnce`, `AllocationStoredIsRun` | `AllocationInvariant` |
| `ApiServer!TypeOK`, `ServedFromSynced`, `ListsInBounds`, `WalkMeetsAll` | `ApiTypeCorrect`, `ApiServedFromSynced`, `ApiListsInBounds`, `ApiWalkMeetsAll` | `ApiInvariant`; `PagesInBounds`; `WalkTiles` |
| `RuleImport!CountsMatchSpec`, `ApiServer!RepeatNeedsStaleLook` (actions) | `ApiCountsMatchSpec`, `ApiRepeatNeedsStaleLook` | `ApiInvariant` |
| `Inspection!TypeOK`, `FileChangesTold`, `ReportComplete` | `InspectionTypeCorrect`, `InspectionFileChangesTold`, `InspectionReportComplete` | `InspectionInvariant`; `InspectionMerged` |
| `OpaChecker!OpaFindsAll` | `OpaCheckerFindsAll` (the workers), `InspectionOpaFindsAll` (the job) | `OpaInvariant`; `InspectionRunsOpa` (refinement of `OpaSpec`) |

`JobPoolProofs` proves, from the assumptions on the constants alone (the sets
of rules and nodes are finite, the targets are nodes, `None` and `AnyNode` are
neither rules nor nodes, the minimum of slots is positive), five invariants and two
action properties. Its `IInv` is a conjunction of `TypeOK` and

* `CountInv`: the semaphore counts the goroutines between their dispatch and their
  exit, the WaitGroup those before `Done`; without it the bound and the return say
  nothing about the goroutines;
* `MutexInv`: the owner of the mutex is the one goroutine between `Lock` and
  `Unlock`, hence the snapshot to be written is the current data;
* `ReportInv`: the report is part of `resultData`, a snapshot about to be written
  equals it, and what was collected is in it. `CollectedIsReported` and
  `ReportGrows` follow only with the snapshot's conjunct;
* `JobInv`: which Jobs exist at which point, and what a returned phase says of
  them;
* `RecordInv`: without a race every goroutine leaves its record behind.

Each conjunct has a step lemma with one case per action that can disturb it
(`CountStep`, `TypeStep`, `MutexStep`, `ReportStep`, `JobStep`, `RecordStep`);
`CountStep` rests on `BusyIsCounted` and the library's theorems on cardinality.

`InspectTaskProofs`. Three things make a verdict and its report agree.

* `CopyInv`: a copy of the task, in the cache or in Reconcile's hands, is older than
  the task or equal to it; so an `Update` that is not refused changes the task
  Reconcile read.
* `BranchInv`: which tasks a branch of Reconcile is for. With the two,
  `TaskKeepsPromise` maps every step of the controller to a step or a stutter of
  `TaskPromise`, `PlanFinal` included, which tells the plan the verdict that was
  stored.
* `FreshInv` and `ReportInv`: without failures and edits whatever wakes the
  controller comes with the last version of the task, so that no second inspection
  starts behind a verdict; and a record that says Succeeded has its report and its
  InspectResult behind it.

`InspectPlanProofs`. The counts at the rules are changed in the lister's copies
first, then in Kubernetes, then the labels are stored in one `Update` of the plan,
and any of these may fail or be refused.

* `CopyInv` also says of each copy that it bears no label of a rule it does not
  name, unless the rule was once taken off the plan.
* `MyInv`: the labels Reconcile has added to its copy are of rules whose count is
  stored. `PlanMay` is the summary of what a step may do to the plan, from which
  `CountInv` follows, which speaks of every label and not only of those of the rules
  the plan names at the moment.
* `TaskInv`: the lister shows only tasks that were created; `PlanNewestAreKept` needs
  it, since cleanTask counts the newer tasks in the lister.
* `RecordsInv`: `RecordsFollowTasks` holds of the plan, of the cache's copy and of
  the one Reconcile works on, and the lister shows a success only of a task that has
  succeeded. It is inductive because a task is never forgotten and a success never
  undone (`RecordsStay`), so that a status made from an old copy and an old list may
  say too little of a task but nothing false. This is all the patch without a version
  leaves: a phase that the task controller has reported may be overwritten by
  `Pending`, which `RecordsFollowTasks` allows because the code does it.

Type correctness of the plan's status rests on the order in which `Kept` is listed
(`InOrder`): that a finite set of minutes can be listed by rank is a lemma.

`InspectResultProofs`. `MessageAgrees` needs to know that a copy of the result with
the current version, in the cache or in Reconcile's hands, *is* the result
(`CopyInv`), and that Reconcile's changed copy differs from the one it read only in
the field its branch sets (`LocalInv`).

`RuleAllocationProofs` compares what the code does list by list and node by node
with what the rules say.

* `IsMerged`: the merged lists are what `Merged` makes of the lists of the rules.
  `MergedIs` says what that is: of all the elements of one name the first, in the
  order of the task, and each once. The induction over the number of lists is by
  the least number for which it would fail (`Least`, `Induct`), since the library's
  theorems of induction and recursion cannot be cited; `Recursion` shows that the
  function in `Merged` exists, and `InOrderIs` that `Select` lists what it is to.
* `IsAllotted`: there is a set of jobs that gives each merged item to a set of nodes
  `SitesOf` allows, or to all of them, and no node the same name twice; the list of
  jobs has these, the OPA job if there is one, and one for the components
  (`AllocationIs`, `ListsJobs`; `SortLists` for the reordering). It is needed since
  nothing in the list itself tells what an item's target was.

`GoesWhereAsked` relates the two to the targets in the rules, and `RunsAre` counts.

`QueryProofs` proves two things of a page, for every width of `int`, every default
limit and a list of any length.

* `PagesInBounds`: its bounds are bounds of the list unless offset and limit
  overflow. It rests on `WrapFits` (a number that fits is not changed by the
  arithmetic of Go) and on `IndexInBounds`.
* `WalkTiles`: a client that asks for one page after the other meets every object
  once, although each request sorts anew what the lister hands out in any order. It
  needs a comparison that tells the objects apart. Then the place of an object is
  one more than the number of those ahead of it, whatever the order (`SortedIs`,
  `PlaceIs`); page `n` is the `n`-th slice of the list, as long as the list is far
  from the largest `int` (`PageIs`); and a place is on one page (`OnePage`,
  `PageOfPlace`). `RulesToldApart` and `TimesTellApart` show what each kind's
  comparison tells apart, although it is not a strict order when descending.

`ApiServerProofs`. `RuleInv` (versions of copies of the rule, and the state each
branch is for) gives `CountsMatchSpec`; `StartInv` (how far a main function is
determines which informers are registered, run and have synced) gives
`ServedFromSynced`; `PlanInv` (a request that has looked at the current version
has seen a plan that is not under way) gives `RepeatNeedsStaleLook`.
`ListsInBounds` and `WalkMeetsAll` are `PagesInBounds` and `WalkTiles` for the lists
of the API server. `ListsAssumption` says of the other rules and plans that they are
finitely many, that a lister keeps one rule under a name, and that a list and one
page beside it are below the largest `int`; the run has the least `int` for which
this is so, 5, where the end of a third page already overflows.

`InspectionProofs` has two layers. For `OpaChecker` alone, `PlaceInv` says that a
resource is with the sender or in the batch of one worker, `FoundInv` that a denied
one waits, is in the collector's hand or has been found once, and `CloseInv` in
which order the channels are closed; when the collector has ended every denied
resource has been found. For `Inspection`, `OneInv` says that only the job of OPA
runs the workers, so every step is one of `OpaStep`, a new start of the workers,
or a stutter (`InspectionRunsOpa`), and the result carries over. `JobInv` follows
an item from the pod through the ConfigMap to the report. `FileChangesTold` is that
the items of a file's job are at every one of these places `Truthful` by the
baseline there is: `diffString` makes them so (`DiffTruthful`, `FileItem`), and the
baseline, once created, is never another one.

`ReportComplete` rests on a second invariant, `CompleteInv`: at any time the report
has as many items of each kind as the jobs merged so far found, and every item of
each of them (`InspectionMerged`). A merge adds the items of its job to those of
other nodes, and replaces the list of a kind of the cluster, of which there is
therefore to be one job (`InspectionAssumption`): `GenerateJob` calls `Allocation`
once for each of OPA, Prometheus and services and adds one job for the components
(of OPA and the components `AllocationEachOnce` proves it). That the outputs agree is
then a matter of what the items of each kind are (`Sound`, part of `ReportInv`): a
page shows a row for each item or issue where the status counts one since an item
of a file asserts exactly when it lists an issue, and the other kinds list none
(`RowsCounted`, `PagesOfSound`). For the answer in JSON, samples with raw data are
matched one to one with the places in the groups (`KeysCounted`), and that
`ParseResourcesTop` keeps the greatest value is an induction over the samples by the
least number for which it would fail (`TopIs`), as in `RuleAllocationProofs`.

Only model-checked:

* liveness (`PoolDrains`, `TaskFinishes`, `DeletionCleansUp`, `PlanLearnsVerdict`,
  `SingleRuns`, `PeriodicRuns`, `DeletedPlanGoes`, `ResultCompletes`, `RuleSettles`,
  `JobsEnd`), which rests on fairness and is out of the prover's reach;
* the three violated properties of `task_restart`, `plan_once` and `plan_removed`,
  of which TLC shows a behaviour.

Every invariant and every action property of a passing run has a theorem. What is
summed over a list is written as the number of elements of a set (`IssuesOf`,
`totalResultLevel`) and what goes through a list as a recursive function
(`Merged`, `ParseResourcesTop`), since a fold of the community modules has an
operator as a parameter, which no lemma can be instantiated with.

## Not modelled

* Generated code: clients, deep copies, apply configurations, the documentation of
  the API (`clients/`, `zz_generated.deepcopy.go`, `swaggerDocs`). The informers and
  listers appear as the caches of the other modules.
* What an inspector reads on a node and what Rego computes: system calls and
  third-party evaluation, chosen freely by the models. Values, texts and layout of
  the report; the SMTP dialogue, which is one outcome.
* Templates, which are data, and generic helpers over slices and maps, which the
  modules use by their meaning.
* Code that nothing calls: `pkg/inspect/resources.go`,
  `pkg/collectors/opa/resources.go` from `CollectMultipleResources` on,
  `GetK8SResources`, `pkg/output/csv.go` (commented out), the alarm handler.
* Several plans at once. One worker serves them, so they do not interleave inside
  Reconcile, but they share the counts at the rules.

## Plan

Done: the core with its first proofs (`JobPool`, `InspectTask`, `InspectPlan`,
`InspectResult`, `RuleAllocation`); the API server with rule import, lists and
start-up, the inspection inside its pods, and the promise of a task with its
refinement; the proofs of `InspectTask`, `InspectPlan`, `ApiServer`,
`Inspection` and `RuleAllocation`, those of the pages of a list and of the report
included. What is left: several plans that count at the same rules.
