# Camel Dashboard operator: a verification development

TLA+ models of the operator in `src/`, the TLC runs that check them on small
instances, and proofs by TLAPS. Line numbers refer to the files under `src/`;
`PROJECT.json` maps every definition to the lines it stands for.

## The system

The operator watches workloads that run Apache Camel applications (Deployments,
CronJobs, Knative Services labelled `camel.apache.org/app`), creates a `CamelApp`
object for each, and keeps the status of every `CamelApp` up to date by polling
the pods over HTTP.

| Component | State | Operations | Talks to |
|---|---|---|---|
| **CamelApp controller** (`pkg/controller/app/app_controller.go`, `predicate.go`) | informer cache, work queue, requeue timers, one worker | `Reconcile`, `update`, `getPollingInterval`, event filter | API server (reads from a cache, patches the status), monitor action, event recorder |
| **Monitor action** (`pkg/controller/app/monitor.go`, `synthetic_deployment.go`) | the target status of one pass | look up the workload, phase, list and scrape pods, success rate, conditions | pods (health and metrics), API server |
| **Importer** (`pkg/controller/synthetic/*.go`) | one informer per kind of workload; the handlers keep nothing | `onAdd`, `onDelete`, `getInformers` | API server (reads CamelApps from a cache, creates, deletes) |
| **Startup and settings** (`pkg/cmd`, `pkg/platform`) | environment, lease | fallbacks of settings, probes of the API, selectors, permissions, leader election, log level | starts importer and manager |
| **Server or client side apply** (`pkg/client/apply.go`, `pkg/util/patch`) | whether server side apply works (`sync.Once`) | `Apply`, merge patch without nil values | API server; no caller in the operator |
| **Cluster access helpers** (`pkg/client/client.go`, `fastmapper.go`, `pkg/util/kubernetes`) | a mutex and the scheme of the process, a REST mapper for each client | clients, discovery | Kubernetes libraries |
| **API types and generated clients** (`pkg/apis`, `pkg/client/camel`) | the maps of the shared informer factory | deep copies, informers, listers, builders of apply configurations | informers of client-go |
| **Controller metrics** (`pkg/util/monitoring`) | a histogram | wraps `Reconcile`, measures it and hands on what it returns | the controller |
| **Logging, versions** | none | | |

Interactions:

* Importer and controller share only the `CamelApp` objects in the API server.
  The importer runs in *every* replica, since it is called before the manager
  starts (`operator.go:203`); the controller runs in the leader.
* The controller reaches pods, caches and API server through calls that each
  see a different moment: the cache lags behind the API server, pods change
  between two scrapes, the object changes while a pass scrapes.
* A `CamelApp` update never enters the work queue (`UpdateFalsePredicate`): each
  pass has to schedule the next one, through `RequeueAfter` or an error.

### What makes each component correct

* **Controller.** No application drops out of polling. A status patch, which is
  the difference with a possibly stale copy, still lets the status converge to
  the state of the Deployment. A pass never writes to another application and
  never revives a deleted one. Deleted names leave the queue. Changes of phase
  are announced. One bad endpoint does not stop the monitoring of the others.
* **Monitor action.** When the operator reports two monitored passes in a row
  and the metrics gave both counters of each pod as they were, the success rate it
  stores is the one of the exchanges really processed between the two readings, and
  its severity follows the thresholds.
* **Importer.** Every labelled workload ends with its `CamelApp` and every label
  removed ends without it, or the loss has one of the known causes.
* **Startup.** Processes of one operator have one reconciler. What the importer's
  handlers get carries the label they read. No setting ends the polling by being
  malformed. A process that starts comes to reconcile, or waits or ends for a
  reason the code states.
* **Apply.** Every field of an object whose `Apply` returned nil was on the server,
  whoever else applied it; nil values never delete what others have set; callers
  neither block nor kill the process.
* **Cluster access.** The global scheme is not written while it is used; a mapper
  is complete before it is handed out.
* **Generated code.** A cache is read after it was filled, informers end with their
  factory, copies share nothing with the cache, builders send what was asked for.

`PROJECT.json` lists the hazards one by one, each at its line, with the properties
that would catch it.

## The modules

| Module | Role |
|---|---|
| `Polling` | what the controller promises, without caches, queue and timers |
| `AppController` | the controller: informer, predicate, queue, timers, worker, patch |
| `AppControllerRefinement` | the mapping under which it implements `Polling` |
| `MCAppController` | its Deployment snapshots for TLC |
| `AppControllerProofs`, `PollingProofs` | theorems about them, the refinement among them |
| `MonitorPass` | what one pass measures, at the level of pods and counters, and what it reports |
| `MCMonitorPass` | its model values |
| `Sums` | lemmas on sums over finite sets, by induction |
| `MonitorPassProofs` | theorems about a pass |
| `SyntheticImport` | the importer on several replicas |
| `MCSyntheticImport` | its model values and kinds |
| `SyntheticImportProofs` | theorems about it |
| `Startup` | processes of the operator from their settings to the reconciler |
| `MCStartup` | its settings and clusters |
| `StartupProofs` | theorems about it |
| `CamelAppMemory` | the structs of a `CamelApp`, their references and deep copies |
| `ClientCalls` | what the parts of the client library share: its callers and their object |
| `Clients`, `InformerFactory`, `Applier` | creation of clients, the shared informers, `Apply` |
| `ApplyConfigurations` | the builders of apply configurations, with a reference definition |
| `ApplyConfigurationsProofs` | the builders keep their promises for every series of calls |
| `ClientLibrary` | these five composed: its callers do one thing after the other |
| `MCClientLibrary` | their model values |
| `ClientLibraryProofs` | theorems about them |

The models look at different abstractions of the same system. `Startup` says
with which namespaces, selectors and settings the other two parts of the operator run.
`AppController` takes what a pass scrapes as one value (the exchange counter of a
Deployment snapshot); `MonitorPass` opens that value up and takes the queue as
given (passes of one application follow each other); `SyntheticImport` produces
the `CamelApp`s that `AppController` lets appear and disappear at will.
`ClientLibrary` models the code that other programs, and in part the operator, call
from several goroutines.

Operators called *mutant* in a comment are plausible wrong versions of a
definition. No specification uses them: `PROJECT.json` names, for each property,
one whose substitution must make TLC refute that property.

### AppController

State. `store` is the API server's `CamelApp`s, `cached` the informer's copies;
`gen` stands for the UID. `deploy` is the Deployment behind each of them.
`notices` are Create and Delete events that passed the predicate, `queue` the
work queue (deduplicating, like client-go's), `waiting` the delayed adds, both of
`RequeueAfter` and of the back-off after an error. `worker` is the pass of the
single worker (`MaxConcurrentReconciles` is not set): `base` is the instance that
was read, `target` the copy that `Handle` fills, `phase` and `poll` the values the
rest of the pass uses. `lastPoll` and `told` are history variables.

Actions and code:

| Action | Code |
|---|---|
| `CacheSync`, `CacheRelist`, `Enqueue` | informer, `predicate.go:28-38`; a relist may report a replaced object as an update, which is filtered |
| `SkipMissing` | `Get` says NotFound: no error, no requeue (82-85) |
| `RejectReadError` | any other error of a read (86, and the lookup in `monitor.go:60-66`) |
| `RejectMissingDeployment` | `Handle` returns no target and an error: no patch, retried |
| `BeginPass` | the reads, the phase, the imported annotations |
| `ScrapePods` | pods listed and scraped, sampling computed, target filled |
| `ListPodsFails` | `Handle` returns the target *and* an error: patched, then retried |
| `PatchStatus`, `PatchMissing`, `PatchFails` | `update` (127-131) |
| `ReturnError`, `ReturnRequeue` | the two returns; the second announces the phase and sets the timer |
| `Restart` | the process ends, or the lease moves: queue, timers and pass are lost |
| `CreateApp`, `DeleteApp`, `ChangeDeployment` | users and the importer |

`PatchStatus` is a JSON merge patch: fields in which the target equals the base
are not sent, the others replace what the server holds *now*, a null removes. The
response is decoded into the target, so the stored phase and annotation replace
the computed ones before `getPollingInterval` reads them.

### Polling and its refinement

`Polling` has six variables: the published report of each application, the
applications the operator knows, those it owes a poll, the one it polls, whether
that poll has published, and the ones at rest. `AppControllerRefinement` maps the
controller to it: `known` is what the cache holds, `due` the union of notices, queue
and timers, `polled` the worker's name, `resting` the applications whose last
interval was not positive, and `report` the stored status, where another object of
the same name is a report that vanished and appeared. So `CacheSync` and `CacheRelist`
are `Learn`, `Enqueue` and `TimerFires` are stutters, the three ways out of the
start of `Reconcile` are `Drop` and `Postpone`, and `PatchStatus` is `Publish`. A controller
that announced a change of phase and then forgot to ask for its next call would
finish a poll in a way `Polling` does not know.

### MonitorPass

`pods` are real pods with counters that start from zero with each run of the pod;
`stored` is the status (per pod readings, success rate `sli`, replicas, the list of
conditions *Monitored* and *Healthy*). One pass is `ListPods` (or `ListPodsFails`),
then for each pod of the list one of `SkipPod`, `ScrapePod`, `HealthFails`,
`MetricsFail`, `PodUnreachable`, then `Store`, or `PassLost` at any point.
`since`, `mark`, `after` and `truth` are history: the exchanges really processed
between two readings of each pod, and whether the pod was the same run and its answers
were whole. They give the reference that the stored rate is compared with; the code has
no such knowledge.

A good answer of the metrics (200, and a body that is parsed) does not say that the
counters were read. `setMetrics` takes a family that is missing for nothing wrong
(`synthetic_deployment.go:186-191`), the functions it calls only log one that is no counter
(238-241, 251-254), and of several series they read the first (243, 256): the pod stays
ready with zeros, or with part of its exchanges. So `ScrapePod` and `HealthFails` choose any
answer of `Exposed`, each counter anything from zero to what the pod really counted and by
itself, `app_info` there or missing. `Whole` says of an answer that both counters were as
they are, and history keeps it (`intact`). An answer that is not `Everything` is bounded like
a fault. Since nothing in the status tells such an answer from a whole one, *Monitored* alone does
not make the rate exact: `ExactWhenMonitored`, `SeverityHonest` and `PercentageKept`
have whole answers as an explicit condition, and show that an answer that was not whole does
no harm beyond the two rates it is part of. A float comparison is modelled by its exact value, except when the
rate equals the threshold, where rounding may go either way.

What the pass reports besides: the replicas of the Deployment, which users may
`Scale` at any time, against the pods that were listed (`AllReady`, `AllUp`); the list
of conditions, which `AddCondition` only ever appends to and `ResetConditions` empties at
the beginning of a pass; and the message of the first of them.

### SyntheticImport

`wl` are the workloads, `app` the `CamelApp`s by name with the import (workload,
UID, label) they come from, which is their owner reference. Every replica has, per
kind, an informer store (`seen`), a queue of events for its handler (`notes`), a
handler that may be between its lookup and its create (`pc`), and a lagging cache
of `CamelApp`s (`view`). `Write` is any change of a workload: informers with a
working watch take it in, `Passed` says which event they hand on, and updates
within the selector are dropped, as no `UpdateFunc` is registered. `Relist` turns
removals into tombstones (`DeletedFinalStateUnknown`), which the handler's type
assertion rejects (`synthetic.go:64-68`). `OnDelete` deletes by name, whatever the
owner. `CollectGarbage` is Kubernetes'. `missed` and `leaked` are history: the
imports and removals a handler gave up, and why is said at the action that adds to
them. They make the silent failures of the handlers observable: what is
*not* in them must come to a good end.

### Startup

`pc` is how far a process has come in `Run` and what it calls; `given` are its flags
and environment (`None` of it survives the process), `zapLevel` the level it sets,
`filtered` the kinds its cache has a selector for and `watched` the kinds with a handler.
`leases` are the locks in the API server, `cluster` what it serves and permits.

| Action | Code |
|---|---|
| `Spawn` | flags, `LOG_LEVEL`, `WATCH_NAMESPACE` (`operator.go:83-123`); what `Rejected` names ends `Run` there |
| `NewClientWithConfig`, `InvalidLabel` | configuration, bootstrap client, label selector |
| `ProbeForSelector`, `ProbeForSelectorFails` | is the kind installed? An error counts as no (170-175) |
| `NewManager` | the manager with its lock, selectors and namespaces |
| `GetCronJobInformer`, `GetServiceInformer`, `ProbeForInformerFails` | the same question again (`synthetic.go:120,128`) |
| `CheckPermission` | asked for Knative Services only, in the watched namespace (129) |
| `CachesSync`, `Elect` | start of the manager; caches that may not be listed never sync |
| `ExitOnError`, `Stop`, `Crash`, `Expire` | an error at any stage; a released, or abandoned, lease |
| `ChangeAPI` | a custom resource definition is installed or removed |

A text that is not a number is one value (`Junk`). The names of log levels are the
numbers they stand for. A second and the first duration that overflows are
constants, so that a small instance overflows as the 64 bits of the code do; the eight
bits of a log level are their own size. `misled` is history: the kinds about which the
answer to the first probe was wrong or has become so.

### The client library

Two modules without variables come first. `CamelAppMemory` follows
`zz_generated.deepcopy.go` type by type: a reference names the owner of the memory
it points to, a field the generated code does not mention keeps its reference,
so what a copy shares with the informer's cache can be computed. `ApplyConfigurations`
follows the `With` functions: one configuration of each type, pointers between them,
lists that copy what they are given; `Asked` restates the comments of these functions,
from the calls alone.

Each caller is a program counter (`at`). After `NewClientWithConfig` (mutex, look
at the scheme, registration, connection) it does one of three things.

* *Watch*: `InformerFor`, `Start`, `WaitForCacheSync`, then `ListAndCopy`; at last it
  closes its stop channel and calls `Shutdown`. (In the example at `factory.go:209-212` the
  deferred calls run the other way round: that is the mutant of `CallersFinish`.) `routine` is
  the goroutine of an informer, on the stop channel of whoever started it.
* *Apply*: with fast discovery it loads its mapper first, one goroutine for each
  group. Then `Apply`: the `sync.Once` is `done`, `locked` and `waiters`. `ResetOnce` is the
  assignment of line 67, by a goroutine that no longer holds the mutex. It may fall
  before, between or after the steps of the others, and what they read is one
  of the outcomes the memory model leaves open: a caller may sleep on a mutex nobody
  will unlock for it, or unlock one that is not locked, which ends the process. `server`
  is the object, which other managers may have written, with the fields the operator owns.
* *Configure*: any series of calls, whose configuration the typed client encodes.

JSON objects are functions from paths to values; null, absent and empty are one value,
for `removeNilValues` (`patch.go:58`) and the decoding treat them alike. `wanted` and `met` are
history: what a call was given, and what of it the server has had since.

## The runs

| Run | Instance | Question |
|---|---|---|
| `ac_safety` | 2 applications (symmetric), 4 snapshots, 3 user steps, 1 fault | types; `NoAppForgotten`; `TransitionsAnnounced`; `FreshPassExact`; `PassesOnlyPatch`; `ImplementsPolling` |
| `ac_liveness` | 1 application, 3 snapshots, 4 user steps, 2 faults | `Converges`, `ForgetsDeleted` |
| `ac_events` | 1 application, 2 user steps, 1 fault | refutes `PhaseAnnounced` |
| `ac_hung` | 2 applications, 2 snapshots, one of which hangs, no fault | refutes `AnsweringAppsMonitored` |
| `import` | 2 replicas, 2 workloads of 2 kinds, 2 label values, one no object name, 3 user steps, 1 gap, 1 fault | types; `ImportTracked`; `RemovalTracked` |
| `import_settles` | 1 replica, 2 workloads of 2 kinds, 2 names, same bounds | `ImportsSettle`, `RemovalsSettle` |
| `import_relabel` | 1 replica, 1 workload, 1 name, 3 user steps, nothing fails | refutes `LabelImports` |
| `sli` | 2 pods (symmetric), 3 exchanges, 1 upset, 1 fault (2 exchanges with both), thresholds 50 and 75 | types; `ExactWhenMonitored`; `SeverityHonest`; `ConditionsDistinct`; `PercentageKept` |
| `sli_percentage` | 2 pods, 3 exchanges, 1 upset, nothing fails | refutes `PercentageInRange` |
| `sli_threshold` | 2 pods, 3 exchanges, nothing fails | refutes `ErrorThresholdHonoured` |
| `startup` | 2 processes, 7 settings, 2 clusters, 1 API change, 1 fault | types; `OneReconciler`; `HandlersSeeApps`; `PollsAgain`; `ComesUp` |
| `client` | 2 callers (one with fast discovery), 2 kinds, 3 groups, objects of 2 fields, 1 fault, up to 4 calls of 13 builders | types; `SchemeStable`; `MapperComplete`; `ListsSynced`; `ShutdownFinal`; `CacheUntouched`; `BuiltAsAsked`; `EveryFieldApplied`; `OrderlyWithoutErrors`; `CallersFinish`; `ClientSideKeepsFields` |

Why the bounds are enough to be interesting. Three user steps give create, change
or delete, and create again; the two faults of `ac_liveness` give a failure during
the recovery from another, and the theorems hold for any number. Two applications compete for the worker and show cross-talk; one is
enough for convergence, where each application is on its own as long as
endpoints answer. The snapshots are one of each outcome the code
tells apart: the phases, with and without runtime data, an interval that is unset,
malformed or zero, a Deployment that is not listed. With two replicas and two
workloads of different kinds, handlers race in all the ways they can: same kind on
two replicas, two kinds on one. Three exchanges over two pods reach every
comparison of a difference with both thresholds, equality included (1 of 2 at 50
percent), and one upset is enough for counters to restart within, before or after
a pass; the one fault is an endpoint or a pass that fails, or an answer of the metrics that is not
whole. An upset and a fault together leave two exchanges (`Budget`, a state constraint of
`MCMonitorPass`), which keeps the run small; the theorems have no bounds. The settings of `startup` use each fallback, alone and with others, and two
processes are what an election is about; one API change or failed probe makes the two
probes of a kind disagree. Two callers of the client library race for the mutex, the
`sync.Once`, the scheme and the informers, and the one fault is the failed first attempt that
makes `ResetOnce` possible. Two fields tell a patch from an overwrite. Four calls are what
it takes to see, through the CamelApp, its status and a pod, what a pointer leads to
after it was set.

`CHECK_DEADLOCK FALSE` is set for the controller, the importer and the client library,
for they may really come to rest: no application is left, or an application's interval is
not positive, the worker hangs in a scrape, or every event is handled and the bounded
users have nothing left to do; callers of the library finish, or their process has ended.
`MonitorPass` and `Startup` never stop, and their deadlock check is on.

### What the refuted properties show

1. `ac_events`: when the pods cannot be listed, the new phase is patched but
   `NotifyAppUpdated` is not called (`app_controller.go:106-113`); the next pass sees
   no transition any more. The announcement is lost. Such a failure is what it takes:
   `TransitionsAnnounced` (run `ac_safety`, and a theorem) says that until a call fails or
   the process ends every stored phase was announced, stale copies and deleted and
   recreated objects notwithstanding.
2. `ac_hung`: neither HTTP client has a timeout (`synthetic_deployment.go:159,306`)
   and there is one worker: an endpoint that accepts and never answers stops the
   monitoring of every application.
3. `import_relabel`: `onAdd` trusts a cache that may still hold the `CamelApp` that was
   just deleted, and nothing looks again: the workload stays without one.
4. `sli_percentage`: differences are taken of sums over whatever pods answered;
   after a restart or a failed scrape of one pod the stored percentage can be
   below 0 or above 100. The trace is a restart alone. `PercentageKept` (run `sli`, and a
   theorem) says what it takes: the percentage keeps its range while every pod that had
   exchanges is counted again in the same run with both counters as they are, and neither
   status shows more failures than exchanges of a pod, as one may whose two counters are not
   of the same series of one reading. Pods that are added, come into view late or have a
   health endpoint that fails do no harm.
5. `sli_threshold`: with the error threshold below the warning threshold, as in the
   defaults (5 and 10), failures between the two are a Warning, not an Error
   (`monitor.go:255-263`).

### Fairness

* Watches deliver (`CacheSync`), events reach the queue (`Enqueue`), timers fire
  (`TimerFires`), the worker goes on with its pass (`ContinuePass`): weak fairness,
  since each is carried out by a goroutine that nothing else disables.
* `StartPass` of each application is strongly fair: the queue is first in first out,
  so a name in it is taken although other passes make it wait again and again.
  Fairness of the pass as a whole is weak, and says nothing when the scrape hangs.
* Importer: informers connect again (`Relist`), caches follow (`ViewSync`), handlers
  are called (`Handle`), Kubernetes collects orphans (`CollectGarbage`); all weak.
  A failed call is a possible outcome of `Handle`, bounded by `MaxFaults`.
* Startup: a process goes on with its own code (`Proceed`, in which the manager syncs the
  caches it may list and takes a lease that is free), and a lease nobody renews expires
  (`Expire`); both weak. Permissions and what other processes hold are never fair.
* Client library: every goroutine runs, those of the callers (`Proceed`) and those the
  library starts (`Background`); weak. A caller that sleeps on the mutex of the `sync.Once` has no
  step until somebody wakes it, so that a wake-up that is lost counts.
* Users, failures, gaps and restarts are never fair. They are bounded
  (`MaxChanges`, `MaxFaults`, `MaxGaps`), so that "in the end" means "once they
  stop", which is what the properties of the form `<>[]` ask about.

## The proofs

`AppControllerProofs` proves for every set of applications, every set of Deployment
states and all bounds, from the assumptions in `AppController` (the special
values are distinct from numbers and names, snapshots have their type, the
default interval is an integer, the bounds are naturals):

| Theorem | Says |
|---|---|
| `TypeCorrect` | `Spec => []TypeOK` |
| `NothingForgotten` | `Spec => []NoAppForgotten` |
| `NoTransitionLost` | `Spec => []TransitionsAnnounced` |
| `FreshPassesExact` | `Spec => FreshPassExact` |
| `PassesPatchOnly` | `Spec => PassesOnlyPatch` |

`TypeOK` is inductive: it carries the tie between the stage of the worker and the
name it holds, without which the patch could index the store with no name.
`NoAppForgotten` is inductive relative to `TypeOK`: a step that takes a name from
`notices`, `queue`, `waiting` or the worker either puts it into another of them or
records in `lastPoll` why it does not; when a pass begins `lastPoll` is reset, and
the worker holds the name. The subtle cases are `SkipMissing`, where the cache must lack
the object, and a later `CacheSync`, which must then raise a notice: it does,
since the object it brings has another `gen` than the absent one. `CacheRelist`
raises none, and needs none, for the object was cached before.

`TransitionsAnnounced` is claimed of an object whose pass is not about to return. While it is,
`AboutToTell` takes over: the stored phase is the one the pass will compare (the response of
the patch has replaced the computed one), and if that is the phase of its base, there is
nothing to announce because it was announced before. This last step rests on
`TransitionsAnnounced` itself: a phase that the patch did not change was stored by an earlier pass. A base may be
older than that. A target that equals it leaves the stored phase alone, and one that
differs is what is stored and announced. `FailsWithFault` says that a pass does not end in
an error as long as no call has failed. The two action properties follow from `TypeOK` alone: only the patch writes a status, to
`worker.app`, and with a base equal to the stored object the merge patch yields
the target, field by field.

Lemmas state what the computations return (`PhaseType`, `IntervalType`,
`MonitoredType`, `PatchType` and others) and are cited by name.

`PollingProofs` proves `NothingOwedIsLost`, `Spec => []PollsOwed` of `Polling`: what is
owed leaves `due` only into `polled`, `resting` or out of `known`. `AppControllerProofs` ends with
`Implementation`, `Spec => ImplementsPolling`, for all constants (with the further
assumption that `Unset` is no status). Besides `TypeOK` the step simulation needs `PolledAfresh`:
during a pass the interval of the application is unset, so that it is not at
rest while it is polled. There is one lemma for each group of actions (`UserSteps`,
`FeedSteps`, `StartSteps`, `PassSteps`, `RestartStep`), each with one step per action that names
the step of `Polling`. Together the two theorems say of the controller what `NothingForgotten`
says, by another argument.

`SyntheticImportProofs` proves for every number of replicas, kinds, workloads and names
and all bounds, from the assumptions in `SyntheticImport` (finitely many workloads,
since a list puts them in some order; at least one replica; each workload has a kind;
`None` is neither a name nor an import):

| Theorem | Says |
|---|---|
| `TypeCorrect` | `Spec => []TypeOK` |
| `NoImportLost` | `Spec => []ImportTracked` |
| `NoRemovalLost` | `Spec => []RemovalTracked` |

`ImportTracked` is not inductive: once the last replica is told of a label, the
import must already be in a queue. `ImportInv` adds that an informer whose watch
works has seen the present state (`UpToDate`), that UIDs are handed out one after
the other and a state without one has no label (`KnownStates`), and that whatever
*all* replicas have seen of a workload that still exists is tracked, even if it is
no longer its present state (`Brought`). The last part is what survives a gap of all
watches at once: the label that comes back, unseen by any replica, needs no new event.

`RemovalTracked` concerns pairs of events. `RemovalInv` adds to `ImportInv` that
every import in the system has a UID that was handed out and sits with the handlers
of its kind (`Familiar`), so that a workload that is gone cannot come back under
it; that an add which is queued, or which a handler has taken and not carried out
yet, is followed by its removal in the same queue unless the replica still sees the label,
the workload is gone or the removal is known to be lost (`Followed`); and
the same for a `CamelApp` that was created, where the removal may be with any
handler (`Ended`). `Followed` is where the order of the queue counts: a removal
that stood before its add would be handled first and end nothing.
`GrowRemovalInv` proves the steps that append to queues (users and
lists), `TakeRemovalInv` those that take the head, `CalmRemovalInv` those that do neither.
The lemmas `RelistNotes` and `RestartNotes` state which events a list gives, whatever
order it comes in.

`StartupProofs` proves for every set of processes, settings, clusters and annotations, for
every second and every width of a duration and all bounds, from the assumptions in `Startup`:

| Theorem | Says |
|---|---|
| `TypeCorrect` | `Spec => []TypeOK` |
| `ReconcilerUnique` | `Spec => []OneReconciler` |
| `HandlersGetApps` | `Spec => []HandlersSeeApps` |
| `PollingGoesOn` | `Spec => []PollsAgain` |

The invariant has three parts. `Shape` is the types. `Leases` adds to `OneReconciler` that a
lock is held once and that a leader holds the lock of its settings, whatever they are.
`Excused` follows the probes: once `Run` has asked for a kind, an installed kind
has a selector or the process is misled about it; so do the kinds it watches. It must hold at
every stage, since `ChangeAPI` may install a kind right after the first probe. The lemmas
`LevelType` and those on durations are arithmetic: the negation of a number that
fits eight bits fits again after the wrap, and `Wrapped` is the identity below the limit.

`MonitorPassProofs` proves for every finite set of pods, every pair of thresholds (in any
order) and all bounds, from the assumptions in `MonitorPass` (finitely many pods, since the
code adds up their counters; an endpoint answers `UP` or `DOWN`; the thresholds are integers;
a Deployment asks for no more replicas than there are pods):

| Theorem | Says |
|---|---|
| `TypeCorrect` | `Spec => []TypeOK` |
| `ConditionsOnce` | `Spec => []ConditionsDistinct` |
| `RateExact` | `Spec => []ExactWhenMonitored` |
| `SeverityTrue` | `Spec => []SeverityHonest` |
| `PercentageInBounds` | `Spec => PercentageKept` |

`TypeOK` is not inductive: a pass that began with a reading left over from the one before
would have read a pod it has yet to look at. `Idle` says that nothing is left between two passes.
`ConditionsPaired` says which lists of conditions a status can have at all (none, or
*Monitored* and *Healthy* in this order, with the message of the first), from which their being
distinct follows. `Tracked` is what the rate rests on: the counters of each pod that was read,
in the stored status (`StoredTracked`), in the pass under way (`FreshTracked`) and between the
two (`MarkTracked`), are apart by what the pod processed since, as long as it is the same run and
the answer was whole. From there to the sums
over all pods it takes `SumsDiffer`: sums of counters that are apart by some amount each are apart by
the sum of the amounts. The code's loops are folds, and what a fold computes is an induction,
for which the library's theorems cannot be used here; `Sums` takes a least counterexample
instead, a subset of the pods on which the claim fails while it holds on all smaller ones,
whose existence is a theorem about well-founded relations (`LeastSubset`). With it, `SumExists`, `SumType`
and `SumsAdd` are proved for every finite set. `SeverityTrue` then compares the
rate with the thresholds in integers (`ExceedsMeans`). It is an equivalence but for a rate that equals
a threshold and is neither 0 nor 100 percent, where the float may go either way; an interval without
exchanges has a severity only if a threshold is negative.

`PercentageInBounds` compares sums over *different* sets of pods. `Tracked` claims something of every
pod that was `Counted`: ready, or with exchanges although its health is unknown (`HealthFails`
reads the counters all the same, `MetricsFail` leaves none). `AllOrdered` says that nowhere more
exchanges failed than there were, neither in a pod nor in what happened since; of the two statuses
`Paired` says the same, as a condition of the property, for an answer may lack one counter only. So each pod, if
zero is taken for the ones that were not listed (`Padded`), adds between nothing and its exchanges
to the failures of the interval: one with exchanges before by the history, one without by
`Paired`. `SumsBetween` carries this to the sums, with the difference and what is left
of it as sums of naturals. That the padded sums are those the code computes is `SumOfSome`: terms that
are zero do not count, which needs that elements may be taken off a sum in any order (`SumRemove`).

`ApplyConfigurationsProofs` proves `CallsKeepPromises`: for every series of calls, of any length, what
the typed client sends (`Built`) is what the comments of the `With` functions promise (`Asked`). It
assumes that calls are well typed (`CallsAssumption`: a pointer is given nil or a configuration of
its type; `WithPods` never nil, on which it panics). `Built` is a left fold over the calls, a recursive
function of the community modules; `FoldExists` and `CallsFold` turn it into a run, the configurations
after each call, and `CountUp` is the induction along the run (again by a least counterexample, among
the intervals from 0). A field changes in one of three ways, and each has its lemma. It is set
(`LastValueKept`: it holds the value of its last call), it is a map (`EntriesKept`: for each key the last
entry), or a list (`ProvisionsKept`: what the calls provided, in their order). `BecomesWhat` says
which of them a field is. The encoding then follows the pointers. What a pointer leads to is
taken as it is in the end, but a pod was copied into its list when it was added, so its own fields
are those after the call that added it (`PodBuilt`).

`ClientLibraryProofs` proves for every number of callers, kinds of objects, API groups, fields
and objects, and any number of failed calls, from the assumptions in its modules (finitely many callers and
kinds, since a wait group and a mutex count them; `Nil` is neither a Boolean, a caller nor a
reference that points somewhere; no caller is called `"cache"`; objects have the fields there are):

| Theorem | Says |
|---|---|
| `TypeCorrect` | `Spec => []TypeOK` |
| `SchemeSafe` | `Spec => []SchemeStable` |
| `MapperFilled` | `Spec => []MapperComplete` |
| `ListsFilledCaches` | `Spec => []ListsSynced` |
| `ShutdownEndsAll` | `Spec => []ShutdownFinal` |
| `CacheSafe` | `Spec => []CacheUntouched` |
| `ApplyKeepsItsPromise` | `Spec => []EveryFieldApplied` |
| `OrderlyOnce` | `Spec => []OrderlyWithoutErrors` |
| `FieldsStay` | `Spec => ClientSideKeepsFields` |
| `ConfigurationsAsAsked` | `Spec => []BuiltAsAsked` |

The invariant (`IInv`, theorem `Invariant`) has a part for each thing the callers share.

* `SchemeInv`: whoever is between `Lock` and its release holds the mutex, whoever writes the scheme
  is registering, and nobody gets past the registration before it is done.
* `MapperInv`: while a caller waits for its mapper, the groups that are known and those still
  being read make up the allowed ones.
* `RoutineInv`, `WaitInv`: `wg` counts the informers that have a goroutine, not one less; a caller
  past `Start` has its informer among the started ones, past `BeginWait` among those it
  waits for, past `WaitForCacheSync` among the synced ones, as long as nobody shuts the factory down.
* `OnceInv`: the mutex of the `Once` never counts more sleepers than there are, and excludes, until
  the `Once` is overwritten. That may happen at any time after a failed probe, and the invariant
  claims nothing of the mutex from then on; what follows does not need it.
* `FaultlessInv`: before the first failure there was no overwriting, no error is pending, and a
  capable server is known to be capable wherever the function of the `Once` has been left.
* `ApplyInv`, `CallInv`: by where a call is, what is known of it. Up to its request, its object is
  the one it was given. A probe that succeeded has covered its fields, which a caller may learn much
  later, when it wakes up. Between `Get` and `Patch` a field that is not going to be sent
  was on the server when it was read, which is enough, although the object may have changed since.

Steps come in four groups (`ClientSteps`, `FactorySteps`, `ApplierSteps`, `OwnSteps`). For each, one
lemma (`ClientMoves` and so on) says which places of the program a caller is moved between;
it and lemmas such as `MapperElsewhere` dispose of all parts of the invariant the group does not
touch. The remaining parts have one lemma per group, with one step per action. `CacheSafe` is an
invariant by itself: `AppCopied` proves that the deep copy of a `CamelApp` of the cache *is*
a `CamelApp` in the memory of its caller, struct by struct.

Two things turned up in the proofs that the runs had not shown. `FastDiscovery` was any set, where
the fast mapper is an option of a caller: it is assumed to be a set of callers now. And the
place of a caller was any string; `TypeOK` now names the places there are (`Places`).

Two definitions were changed so that they could be reasoned about, with the same meaning:
`WithLabels` puts its entries into the map explicitly (`PutAll`), where the operator of the library
cannot be expanded by the provers, and the cases of `With` have a name (`Becomes`).

Only model-checked: the liveness properties (`Converges`, `ForgetsDeleted`, `ImportsSettle`,
`RemovalsSettle`, `ComesUp`, `CallersFinish`), for fairness and `ENABLED` are out of the prover's
reach. Every safety property of a passing run is a theorem. The refuted properties
have counterexamples and nothing to prove.

## What is abstracted

* One namespace. Names are model values; a label value is one the API server takes
  as an object name, or not.
* A lagging cache jumps to the present state when it follows; intermediate states
  that coalesce are equivalent to a longer lag. In `AppController` the Deployment is
  read when the pass begins and when it scrapes, at its present state: the lag of
  that cache is the lag of `ChangeDeployment` itself.
* Time: the interval matters only by its sign and its source.
* A status is phase, exchanges and the sampling in `AppController`; pods, success
  rate and conditions in `MonitorPass`. Images, provider names, pod reasons and
  uptimes are left out.
* `DOWN` stands for every health status other than `UP`.
* In `MonitorPass` the base of a pass is the status stored last; what a stale base
  does is the business of `AppController`.
* In `SyntheticImport` only the importer and the garbage collector touch `CamelApp`s;
  in `AppController` anyone may.
* In `Startup` a manager, its caches and its election are what the code relies on: caches
  sync when they may list, a lease has one holder.
* In `Applier` a request that fails may have taken effect on the server. Resources are typed; an unstructured one is sent as it is, nulls
  included. A resource version is not sent, so no patch conflicts.
* In `CamelAppMemory` and `ApplyConfigurations` plain values are left out, or one of several
  fields of the same nature is kept.

## Not modelled

* Controller metrics, logging, versions and the generator of JSON schemas: they keep
  counters and texts no decision depends on. The instrumented reconciler around the controller
  (`app_controller.go:47`) returns what the inner one returns.
* `scale.go`, `loader.go`, `GetCurrentNamespace` (`client.go`): they read files or build a client,
  once and without state.
* Typed clients, fakes and interfaces: each forwards one call. The apply configurations
  of the kind `App` (`app.go`, `appstatus.go`) are a leftover that nothing refers to.
* In a pass: the reasons, uptimes and images of pods, the annotation with another port, the
  exchanges that succeeded or are pending.

## Plan

Done: the controller with its abstract specification, the refinement and their proofs; the
importer and the startup of processes with the proofs of their invariants; the
measurements and the report of a pass, and the client library, with theirs. Every safety
property of a passing run is a theorem. Next:

**`Operator`**: importer and controller composed, with `INSTANCE` of both over one
store, replacing the users of `AppController` by the importer. Properties: an imported
application is monitored in the end; CronJobs and Knative Services never are, since
the lookup only knows Deployments (`monitor.go:152`).
