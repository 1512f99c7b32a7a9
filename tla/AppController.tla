---------------------------- MODULE AppController ----------------------------
(***************************************************************************)
(* The CamelApp controller: the informer that feeds the work queue through *)
(* UpdateFalsePredicate, the single worker that runs Reconcile, the        *)
(* monitor action it runs, and the merge patch of the status.              *)
(*                                                                         *)
(* Reconcile reads the CamelApp and its Deployment from caches that lag    *)
(* behind the API server, scrapes the pods over HTTP, patches the status   *)
(* with the difference between what it computed and what it had read, and  *)
(* asks to be called again after the polling interval.  Updates of a       *)
(* CamelApp never enter the queue, so nothing but that request, a retry    *)
(* after an error, or the creation of the object brings a pass back.       *)
(***************************************************************************)
EXTENDS Integers

CONSTANTS
    Apps,             \* names of CamelApp objects: the keys of the work queue
    Snapshots,        \* the states of a backing Deployment a pass can meet
    DefaultInterval,  \* platform.GetPollingInterval()
    Unset,            \* an omitted status field, annotation or name
    Malformed,        \* an annotation strconv.Atoi rejects
    MaxChanges,       \* bound on the steps of users and of the importer
    MaxFaults         \* bound on failed calls, relists and restarts

Annotations == Int \union {Unset, Malformed}

(* listed: the label filtered cache holds the Deployment (it exists, is a  *)
(*    Deployment and carries the label);                                   *)
(* available, replicas: the two counters of its status;                    *)
(* exchanges: the exchanges its pods report, Unset without runtime data;   *)
(* poll: its polling interval annotation;                                  *)
(* answers: every endpoint a scrape contacts sooner or later responds.     *)
Deployments == [listed: BOOLEAN, available: Nat, replicas: Nat,
                exchanges: Nat \union {Unset}, poll: Annotations,
                answers: BOOLEAN]

ASSUME UnsetAssumption == Unset \notin Int /\ Unset \notin Apps /\ Malformed \notin Int
ASSUME SnapshotsAssumption == Snapshots \subseteq Deployments
ASSUME IntervalAssumption == DefaultInterval \in Int
ASSUME BoundsAssumption == MaxChanges \in Nat /\ MaxFaults \in Nat

VARIABLES
    store,     \* the CamelApp objects of the API server
    cached,    \* the operator's copy of them
    deploy,    \* the backing Deployment of each of them
    notices,   \* names with a Create or Delete event not yet handled
    queue,     \* names in the work queue
    waiting,   \* names whose requeue timer is running
    worker,    \* the pass the single worker is in
    lastPoll,  \* history: RequeueAfter of the last completed pass
    told,      \* history: the last phase an AppUpdated event announced
    changes,   \* steps users and the importer have taken
    faults     \* failures that have happened

vars == <<store, cached, deploy, notices, queue, waiting, worker, lastPoll,
          told, changes, faults>>

Phases == {"Running", "Error", "Paused"}

Status == [phase: Phases \union {Unset}, exchanges: Nat \union {Unset},
           samplingInterval: Int \union {Unset},
           samplingTotal: Nat \union {Unset}]

(* A gen of 0 is an object that does not exist; a re-created object has    *)
(* another gen, as it has another UID.                                     *)
CamelApp == [gen: Nat, poll: Annotations, status: Status]

EmptyStatus == [phase |-> Unset, exchanges |-> Unset,
                samplingInterval |-> Unset, samplingTotal |-> Unset]

NoApp == [gen |-> 0, poll |-> Unset, status |-> EmptyStatus]

Exists(app) == app.gen # 0

Idle == [stage |-> "idle", app |-> Unset, base |-> NoApp, phase |-> Unset,
         poll |-> Unset, target |-> EmptyStatus, failed |-> FALSE]

-----------------------------------------------------------------------------
(* What a pass computes.                                                   *)

GetAppPhase(d) ==
    CASE d.available # d.replicas -> "Error"
      [] d.available = d.replicas /\ d.replicas = 0 -> "Paused"
      [] OTHER -> "Running"

getPollingInterval(annotation) ==
    IF annotation \in Int THEN annotation ELSE DefaultInterval

ImportCamelAnnotations(own, imported) ==
    IF imported = Unset THEN own ELSE imported

(* An interval can be sampled when both readings carry runtime data; a     *)
(* total that is zero or has gone backwards is an omitted JSON field.      *)
Sampled(before, after) == before # Unset /\ after # Unset

(* Mutant: a total that has gone backwards is kept.                        *)
SamplingTotalUnclamped(before, after) ==
    IF Sampled(before, after) THEN after - before ELSE Unset

SamplingTotal(before, after) ==
    IF Sampled(before, after) /\ after > before THEN after - before ELSE Unset

Monitored(before, phase, exchanges, poll) ==
    [phase |-> phase,
     exchanges |-> exchanges,
     samplingInterval |->
        IF Sampled(before, exchanges) THEN getPollingInterval(poll) ELSE Unset,
     samplingTotal |-> SamplingTotal(before, exchanges)]

(* When the pods cannot be listed the target holds what was set before.    *)
Unmonitored(phase) == [EmptyStatus EXCEPT !.phase = phase]

(* Mutant: fields the target lacks are left out of the patch.              *)
MergePatchWithoutNulls(current, base, target) ==
    [f \in DOMAIN current |->
        IF target[f] \in {base[f], Unset} THEN current[f] ELSE target[f]]

(* ctrl.MergeFrom(base): the patch names the fields in which the target    *)
(* differs from the base, with null for those the target lacks, and the    *)
(* API server applies it to whatever it holds by then.                     *)
MergePatch(current, base, target) ==
    [f \in DOMAIN current |->
        IF target[f] = base[f] THEN current[f] ELSE target[f]]

-----------------------------------------------------------------------------
Init ==
    /\ store = [a \in Apps |-> NoApp]
    /\ cached = [a \in Apps |-> NoApp]
    /\ deploy \in [Apps -> Snapshots]
    /\ notices = {}
    /\ queue = {}
    /\ waiting = {}
    /\ worker = Idle
    /\ lastPoll = [a \in Apps |-> Unset]
    /\ told = [a \in Apps |-> Unset]
    /\ changes = 0
    /\ faults = 0

-----------------------------------------------------------------------------
(* Users and the importer.                                                 *)

Change ==
    /\ changes < MaxChanges
    /\ changes' = changes + 1

(* A CamelApp is created with its Deployment's annotations.                *)
CreateApp(a) ==
    /\ Change
    /\ ~Exists(store[a])
    /\ store' = [store EXCEPT ![a] =
            [gen |-> changes + 1, poll |-> deploy[a].poll, status |-> EmptyStatus]]
    /\ told' = [told EXCEPT ![a] = Unset]
    /\ UNCHANGED <<cached, deploy, notices, queue, waiting, worker, lastPoll, faults>>

DeleteApp(a) ==
    /\ Change
    /\ Exists(store[a])
    /\ store' = [store EXCEPT ![a] = NoApp]
    /\ UNCHANGED <<cached, deploy, notices, queue, waiting, worker, lastPoll, told, faults>>

ChangeDeployment(a) ==
    /\ Change
    /\ \E d \in Snapshots \ {deploy[a]} : deploy' = [deploy EXCEPT ![a] = d]
    /\ UNCHANGED <<store, cached, notices, queue, waiting, worker, lastPoll, told, faults>>

-----------------------------------------------------------------------------
(* The informer, the predicate and the queue.                              *)

Fault ==
    /\ faults < MaxFaults
    /\ faults' = faults + 1

(* Create and Delete events pass the predicate, updates do not.            *)
CacheSync(a) ==
    /\ cached[a] # store[a]
    /\ cached' = [cached EXCEPT ![a] = store[a]]
    /\ notices' = IF cached[a].gen = store[a].gen THEN notices ELSE notices \union {a}
    /\ UNCHANGED <<store, deploy, queue, waiting, worker, lastPoll, told, changes, faults>>

(* After a broken watch the object is listed again: one that was deleted   *)
(* and created again in between is reported as an update.                  *)
CacheRelist(a) ==
    /\ Fault
    /\ Exists(cached[a])
    /\ Exists(store[a])
    /\ cached[a].gen # store[a].gen
    /\ cached' = [cached EXCEPT ![a] = store[a]]
    /\ UNCHANGED <<store, deploy, notices, queue, waiting, worker, lastPoll, told, changes>>

Enqueue(a) ==
    /\ a \in notices
    /\ notices' = notices \ {a}
    /\ queue' = queue \union {a}
    /\ UNCHANGED <<store, cached, deploy, waiting, worker, lastPoll, told, changes, faults>>

TimerFires(a) ==
    /\ a \in waiting
    /\ waiting' = waiting \ {a}
    /\ queue' = queue \union {a}
    /\ UNCHANGED <<store, cached, deploy, notices, worker, lastPoll, told, changes, faults>>

-----------------------------------------------------------------------------
(* The worker.                                                             *)

Dequeue(a) ==
    /\ worker.stage = "idle"
    /\ a \in queue
    /\ queue' = queue \ {a}
    /\ lastPoll' = [lastPoll EXCEPT ![a] = Unset]

(* Mutant: the NotFound of the cache is returned as an error.              *)
RetryMissing(a) ==
    /\ Dequeue(a)
    /\ ~Exists(cached[a])
    /\ waiting' = waiting \union {a}
    /\ UNCHANGED <<store, cached, deploy, notices, worker, told, changes, faults>>

(* The object is gone from the cache: no error and no requeue.             *)
SkipMissing(a) ==
    /\ Dequeue(a)
    /\ ~Exists(cached[a])
    /\ UNCHANGED <<store, cached, deploy, notices, waiting, worker, told, changes, faults>>

(* The Deployment cannot be found, or is not a Deployment: Handle returns  *)
(* an error and no target, and the name is retried after a back-off.       *)
RejectMissingDeployment(a) ==
    /\ Dequeue(a)
    /\ Exists(cached[a])
    /\ ~deploy[a].listed
    /\ waiting' = waiting \union {a}
    /\ UNCHANGED <<store, cached, deploy, notices, worker, told, changes, faults>>

(* Reading the CamelApp or the Deployment failed.                          *)
RejectReadError(a) ==
    /\ Dequeue(a)
    /\ Fault
    /\ waiting' = waiting \union {a}
    /\ UNCHANGED <<store, cached, deploy, notices, worker, told, changes>>

BeginPass(a) ==
    /\ Dequeue(a)
    /\ Exists(cached[a])
    /\ deploy[a].listed
    /\ worker' = [Idle EXCEPT
            !.stage = "scraping",
            !.app = a,
            !.base = cached[a],
            !.phase = GetAppPhase(deploy[a]),
            !.poll = ImportCamelAnnotations(cached[a].poll, deploy[a].poll)]
    /\ UNCHANGED <<store, cached, deploy, notices, waiting, told, changes, faults>>

(* The HTTP clients have no timeout: a pod that accepts the connection and *)
(* never answers keeps the worker here.                                    *)
ScrapePods ==
    /\ worker.stage = "scraping"
    /\ deploy[worker.app].answers
    /\ worker' = [worker EXCEPT
            !.stage = "patching",
            !.target = Monitored(worker.base.status.exchanges, worker.phase,
                                 deploy[worker.app].exchanges, worker.poll)]
    /\ UNCHANGED <<store, cached, deploy, notices, queue, waiting, lastPoll, told, changes, faults>>

ListPodsFails ==
    /\ worker.stage = "scraping"
    /\ Fault
    /\ worker' = [worker EXCEPT
            !.stage = "patching",
            !.target = Unmonitored(worker.phase),
            !.failed = TRUE]
    /\ UNCHANGED <<store, cached, deploy, notices, queue, waiting, lastPoll, told, changes>>

(* Mutant: the patch creates an object that is not there.                  *)
UpsertStatus ==
    /\ worker.stage = "patching"
    /\ store' = [store EXCEPT ![worker.app].status = worker.target]
    /\ worker' = [worker EXCEPT !.stage = "returning"]
    /\ UNCHANGED <<cached, deploy, notices, queue, waiting, lastPoll, told, changes, faults>>

(* The response of the API server is decoded into the target: its values   *)
(* replace the target's, among them the stored annotation, which the       *)
(* status subresource never changes.                                       *)
PatchStatus ==
    LET a == worker.app
        stored == MergePatch(store[a].status, worker.base.status, worker.target)
    IN  /\ worker.stage = "patching"
        /\ Exists(store[a])
        /\ store' = [store EXCEPT ![a].status = stored]
        /\ worker' = [worker EXCEPT
                !.stage = "returning",
                !.phase = stored.phase,
                !.poll = ImportCamelAnnotations(worker.poll, store[a].poll)]
        /\ UNCHANGED <<cached, deploy, notices, queue, waiting, lastPoll, told, changes, faults>>

(* Mutant: the error is logged and not returned.                           *)
SwallowError == worker' = Idle /\ UNCHANGED waiting

(* Whether the pass had failed already or not, the name is retried.        *)
EndInError ==
    /\ worker' = Idle
    /\ waiting' = waiting \union {worker.app}

PatchMissing ==
    /\ worker.stage = "patching"
    /\ ~Exists(store[worker.app])
    /\ EndInError
    /\ UNCHANGED <<store, cached, deploy, notices, queue, lastPoll, told, changes, faults>>

PatchFails ==
    /\ worker.stage = "patching"
    /\ Fault
    /\ EndInError
    /\ UNCHANGED <<store, cached, deploy, notices, queue, lastPoll, told, changes>>

ReturnError ==
    /\ worker.stage = "returning"
    /\ worker.failed
    /\ EndInError
    /\ UNCHANGED <<store, cached, deploy, notices, queue, lastPoll, told, changes, faults>>

(* Mutant: the first phase of an application is no transition.             *)
NotifyLater(a, old, new) ==
    told' = IF old \in {new, Unset} THEN told ELSE [told EXCEPT ![a] = new]

(* The AppUpdated event is emitted when the phase read and the phase       *)
(* stored differ.                                                          *)
NotifyAppUpdated(a, old, new) ==
    told' = IF old = new THEN told ELSE [told EXCEPT ![a] = new]

(* Mutant: a pass that found no transition asks for no other one.          *)
RequeueAfterTransition ==
    LET a == worker.app
        interval == getPollingInterval(worker.poll)
        moved == worker.base.status.phase # worker.phase
    IN  /\ worker.stage = "returning"
        /\ ~worker.failed
        /\ NotifyAppUpdated(a, worker.base.status.phase, worker.phase)
        /\ lastPoll' = [lastPoll EXCEPT ![a] = interval]
        /\ waiting' = IF interval > 0 /\ moved THEN waiting \union {a} ELSE waiting
        /\ worker' = Idle
        /\ UNCHANGED <<store, cached, deploy, notices, queue, changes, faults>>

(* A RequeueAfter that is not positive asks for nothing.                   *)
ReturnRequeue ==
    LET a == worker.app
        interval == getPollingInterval(worker.poll)
    IN  /\ worker.stage = "returning"
        /\ ~worker.failed
        /\ NotifyAppUpdated(a, worker.base.status.phase, worker.phase)
        /\ lastPoll' = [lastPoll EXCEPT ![a] = interval]
        /\ waiting' = IF interval > 0 THEN waiting \union {a} ELSE waiting
        /\ worker' = Idle
        /\ UNCHANGED <<store, cached, deploy, notices, queue, changes, faults>>

(* The process ends and starts again, or another replica takes the lease:  *)
(* queue, timers and pass are lost, and the first list reports every       *)
(* object as created.                                                      *)
Restart ==
    /\ Fault
    /\ cached' = store
    /\ notices' = {a \in Apps : Exists(store[a])}
    /\ queue' = {}
    /\ waiting' = {}
    /\ worker' = Idle
    /\ lastPoll' = [a \in Apps |-> Unset]
    /\ UNCHANGED <<store, deploy, told, changes>>

-----------------------------------------------------------------------------
Environment(a) == CreateApp(a) \/ DeleteApp(a) \/ ChangeDeployment(a)

Feed(a) == CacheSync(a) \/ Enqueue(a) \/ TimerFires(a)

StartPass(a) ==
    SkipMissing(a) \/ RejectMissingDeployment(a) \/ RejectReadError(a) \/ BeginPass(a)

ContinuePass ==
    \/ ScrapePods \/ ListPodsFails
    \/ PatchStatus \/ PatchMissing \/ PatchFails
    \/ ReturnError \/ ReturnRequeue

Next ==
    \/ \E a \in Apps : Environment(a) \/ Feed(a) \/ CacheRelist(a) \/ StartPass(a)
    \/ ContinuePass
    \/ Restart

Spec == Init /\ [][Next]_vars

(* Watches deliver, timers fire, the worker runs.  The queue is first in   *)
(* first out, so a name in it is taken even if others keep coming: strong  *)
(* fairness of StartPass, which other passes disable again and again.      *)
Fairness ==
    /\ \A a \in Apps : WF_vars(CacheSync(a)) /\ WF_vars(Enqueue(a)) /\ WF_vars(TimerFires(a))
    /\ \A a \in Apps : SF_vars(StartPass(a))
    /\ WF_vars(ContinuePass)

FairSpec == Spec /\ Fairness
-----------------------------------------------------------------------------
(* Properties.                                                             *)

WorkerState == [stage: {"idle", "scraping", "patching", "returning"},
                app: Apps \union {Unset}, base: CamelApp,
                phase: Phases \union {Unset}, poll: Annotations,
                target: Status, failed: BOOLEAN]

(* The state has its types, and the worker is idle exactly when it holds   *)
(* no name.                                                                *)
TypeOK ==
    /\ store \in [Apps -> CamelApp]
    /\ cached \in [Apps -> CamelApp]
    /\ deploy \in [Apps -> Snapshots]
    /\ notices \subseteq Apps
    /\ queue \subseteq Apps
    /\ waiting \subseteq Apps
    /\ worker \in WorkerState
    /\ worker.stage = "idle" <=> worker.app = Unset
    /\ lastPoll \in [Apps -> Int \union {Unset}]
    /\ told \in [Apps -> Phases \union {Unset}]
    /\ changes \in Nat
    /\ faults \in Nat

Scheduled(a) == a \in notices \union queue \union waiting \union {worker.app}

(* The last pass over a asked for no other one: its interval was not       *)
(* positive.                                                               *)
GaveUp(a) == lastPoll[a] \in Int /\ lastPoll[a] <= 0

(* No CamelApp is forgotten: whatever is lost, delayed, retried or failed, *)
(* an application the operator knows of has an event, a queue entry, a     *)
(* timer or the worker that will bring its next pass, unless its last      *)
(* pass ended with an interval that is not positive.  Updates are filtered *)
(* out of the queue, so one pass that ends without rescheduling itself     *)
(* ends the monitoring of the application (Reconcile,                      *)
(* UpdateFalsePredicate).                                                  *)
NoAppForgotten == \A a \in Apps : Exists(cached[a]) => Scheduled(a) \/ GaveUp(a)

(* A pass that read what the API server still holds when it patches leaves *)
(* there exactly what it computed: nothing of the previous pass survives,  *)
(* such as the sampling of a SLI that can no longer be computed (update,   *)
(* and the status reset in Handle).                                        *)
FreshPassExact ==
    [][\A a \in Apps :
        (/\ worker.app = a
         /\ worker.base = store[a]
         /\ store'[a].gen = store[a].gen
         /\ store'[a].status # store[a].status)
            => store'[a].status = worker.target]_vars

(* A pass never brings a deleted application back, nor writes to an        *)
(* application other than the one it was dequeued for: a stored object     *)
(* changes hands only by steps of users (the patch of update is            *)
(* refused when the object is gone).                                       *)
PassesOnlyPatch ==
    [][changes' = changes =>
        \A a \in Apps :
            /\ store'[a].gen = store[a].gen
            /\ store'[a] # store[a] => Exists(store[a]) /\ worker.app = a]_vars

(* Where no call has failed and the process has not ended, every phase     *)
(* that is stored was announced for the object that has it, and is the     *)
(* last one that was, however stale the copies were that passes began with *)
(* and compared it to (update, NotifyAppUpdated).                          *)
TransitionsAnnounced ==
    faults = 0 =>
        \A a \in Apps :
            /\ Exists(store[a]) /\ store[a].status.phase # Unset
            /\ ~(worker.stage = "returning" /\ worker.app = a)
            => told[a] = store[a].status.phase

(* The stored status catches up: once users are quiet, every application   *)
(* whose Deployment the operator can see ends with the phase and the       *)
(* exchanges of that Deployment for good, in spite of lagging caches,      *)
(* stale bases, failed calls and restarts (Reconcile, Handle).             *)
Converges ==
    \A a \in Apps : <>[](Exists(store[a]) /\ deploy[a].listed
                            => /\ store[a].status.phase = GetAppPhase(deploy[a])
                               /\ store[a].status.exchanges = deploy[a].exchanges)

(* The name of a deleted application leaves the queue, the timers and the  *)
(* worker for good: the pass that finds nothing returns no error and asks  *)
(* for no requeue (app_controller.go:83).                                  *)
ForgetsDeleted ==
    \A a \in Apps : <>[](~Exists(store[a]) => ~Scheduled(a))

(* "NotifyAppUpdated automatically generates events when the app changes"  *)
(* (manager.go:43): when a pass that patched the status ends, the phase    *)
(* stored was announced.  The branch of Reconcile for a failed Handle      *)
(* patches the status and returns without that call.                       *)
PhaseAnnounced ==
    [][worker.stage = "returning" /\ worker' = Idle /\ faults' = faults
        => told'[worker.app] = worker.phase]_vars

(* "The tool is in charge to monitor any Camel application" (README.md:13):*)
(* an application whose own pods answer ends with the phase of its         *)
(* Deployment, whatever the pods of the others do.                         *)
AnsweringAppsMonitored ==
    \A a \in Apps : <>[](Exists(store[a]) /\ deploy[a].listed /\ deploy[a].answers
                            => store[a].status.phase = GetAppPhase(deploy[a]))
=============================================================================
