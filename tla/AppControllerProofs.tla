------------------------- MODULE AppControllerProofs -------------------------
(***************************************************************************)
(* The controller of AppController keeps its types, forgets no application *)
(* and implements Polling, for every set of applications, every set of     *)
(* Deployment states and every bound.  TypeOK is inductive, NoAppForgotten *)
(* and what the refinement needs are inductive relative to it.             *)
(***************************************************************************)
EXTENDS AppControllerRefinement, TLAPS

USE DEF Exists

-----------------------------------------------------------------------------
(* What the computations return.                                           *)

(* A phase is one of the three the controller reports.                     *)
LEMMA PhaseType == ASSUME NEW d \in Deployments PROVE GetAppPhase(d) \in Phases
BY DEF GetAppPhase, Phases

(* An interval is a number whatever the annotation is.                     *)
LEMMA IntervalType ==
    ASSUME NEW annotation \in Annotations
    PROVE  getPollingInterval(annotation) \in Int
BY IntervalAssumption DEF getPollingInterval

(* Importing keeps annotations annotations.                                *)
LEMMA ImportType ==
    ASSUME NEW own \in Annotations, NEW imported \in Annotations
    PROVE  ImportCamelAnnotations(own, imported) \in Annotations
BY DEF ImportCamelAnnotations

(* The empty status and the object that does not exist have their types.   *)
LEMMA EmptyType == EmptyStatus \in Status /\ NoApp \in CamelApp
BY DEF EmptyStatus, Status, NoApp, CamelApp, Annotations

(* The sampled total is a count or left out.                               *)
LEMMA SamplingTotalType ==
    ASSUME NEW before \in Nat \union {Unset}, NEW now \in Nat \union {Unset}
    PROVE  SamplingTotal(before, now) \in Nat \union {Unset}
<1>1. CASE Sampled(before, now) /\ now > before
    <2>1. before \in Nat /\ now \in Nat
        BY <1>1 DEF Sampled
    <2> QED
        BY <1>1, <2>1 DEF SamplingTotal
<1>2. CASE ~(Sampled(before, now) /\ now > before)
    BY <1>2 DEF SamplingTotal
<1> QED
    BY <1>1, <1>2

(* The status a pass computes is a status.                                 *)
LEMMA MonitoredType ==
    ASSUME NEW before \in Nat \union {Unset}, NEW phase \in Phases \union {Unset},
           NEW now \in Nat \union {Unset}, NEW poll \in Annotations
    PROVE  /\ Monitored(before, phase, now, poll) \in Status
           /\ Unmonitored(phase) \in Status
BY SamplingTotalType, IntervalType
DEF Monitored, Unmonitored, EmptyStatus, Status

(* The result of the patch is a status.                                    *)
LEMMA PatchType ==
    ASSUME NEW current \in Status, NEW base \in Status, NEW target \in Status
    PROVE  MergePatch(current, base, target) \in Status
BY DEF MergePatch, Status

-----------------------------------------------------------------------------
(* Type correctness.                                                       *)

LEMMA InitTypeOK == Init => TypeOK
<1> SUFFICES ASSUME Init PROVE TypeOK
    OBVIOUS
<1>1. Idle \in WorkerState /\ Idle.stage = "idle" /\ Idle.app = Unset
    BY EmptyType DEF Idle, WorkerState, Annotations
<1> QED
    BY <1>1, EmptyType DEF Init, TypeOK

LEMMA NextTypeOK == TypeOK /\ [Next]_vars => TypeOK'
<1> SUFFICES ASSUME TypeOK, [Next]_vars PROVE TypeOK'
    OBVIOUS
<1>idle. Idle \in WorkerState /\ Idle.stage = "idle" /\ Idle.app = Unset
    BY EmptyType DEF Idle, WorkerState, Annotations
<1>deploy. \A a \in Apps : deploy[a] \in Deployments
    BY SnapshotsAssumption DEF TypeOK
<1>1. ASSUME NEW a \in Apps, CreateApp(a) PROVE TypeOK'
    <2>1. [gen |-> changes + 1, poll |-> deploy[a].poll, status |-> EmptyStatus] \in CamelApp
        BY EmptyType, <1>deploy DEF TypeOK, CamelApp, Deployments
    <2> QED
        BY <1>1, <2>1 DEF CreateApp, Change, TypeOK
<1>2. ASSUME NEW a \in Apps, DeleteApp(a) PROVE TypeOK'
    BY <1>2, EmptyType DEF DeleteApp, Change, TypeOK
<1>3. ASSUME NEW a \in Apps, ChangeDeployment(a) PROVE TypeOK'
    BY <1>3 DEF ChangeDeployment, Change, TypeOK
<1>4. ASSUME NEW a \in Apps, CacheSync(a) PROVE TypeOK'
    BY <1>4 DEF CacheSync, TypeOK
<1>5. ASSUME NEW a \in Apps, CacheRelist(a) PROVE TypeOK'
    BY <1>5 DEF CacheRelist, Fault, TypeOK
<1>6. ASSUME NEW a \in Apps, Enqueue(a) PROVE TypeOK'
    BY <1>6 DEF Enqueue, TypeOK
<1>7. ASSUME NEW a \in Apps, TimerFires(a) PROVE TypeOK'
    BY <1>7 DEF TimerFires, TypeOK
<1>8. ASSUME NEW a \in Apps, SkipMissing(a) PROVE TypeOK'
    BY <1>8 DEF SkipMissing, Dequeue, TypeOK
<1>9. ASSUME NEW a \in Apps, RejectMissingDeployment(a) PROVE TypeOK'
    BY <1>9 DEF RejectMissingDeployment, Dequeue, TypeOK
<1>10. ASSUME NEW a \in Apps, RejectReadError(a) PROVE TypeOK'
    BY <1>10 DEF RejectReadError, Dequeue, Fault, TypeOK
<1>11. ASSUME NEW a \in Apps, BeginPass(a) PROVE TypeOK'
    <2>1. GetAppPhase(deploy[a]) \in Phases
        BY PhaseType, <1>deploy
    <2>2. ImportCamelAnnotations(cached[a].poll, deploy[a].poll) \in Annotations
        BY ImportType, <1>deploy DEF TypeOK, CamelApp, Deployments
    <2>3. worker' \in WorkerState /\ worker'.stage = "scraping" /\ worker'.app = a
        BY <1>11, <1>idle, <2>1, <2>2 DEF BeginPass, WorkerState, Idle, TypeOK
    <2> QED
        BY <1>11, <2>3, UnsetAssumption DEF BeginPass, Dequeue, TypeOK
<1>12. CASE ScrapePods
    <2>1. worker.app \in Apps /\ deploy[worker.app].exchanges \in Nat \union {Unset}
        BY <1>12, <1>deploy DEF ScrapePods, TypeOK, WorkerState, Deployments
    <2>2. /\ worker.phase \in Phases \union {Unset}
          /\ worker.poll \in Annotations
          /\ worker.base.status.exchanges \in Nat \union {Unset}
        BY DEF TypeOK, WorkerState, CamelApp, Status
    <2>3. worker'.target \in Status
        BY <1>12, <2>1, <2>2, MonitoredType DEF ScrapePods, TypeOK, WorkerState
    <2>4. worker' \in WorkerState /\ worker'.stage = "patching" /\ worker'.app = worker.app
        BY <1>12, <2>3 DEF ScrapePods, TypeOK, WorkerState
    <2> QED
        BY <1>12, <2>1, <2>4, UnsetAssumption DEF ScrapePods, TypeOK
<1>13. CASE ListPodsFails
    <2>1. worker.app \in Apps /\ worker.phase \in Phases \union {Unset}
        BY <1>13 DEF ListPodsFails, TypeOK, WorkerState
    <2>2. Unmonitored(worker.phase) \in Status
        BY <2>1, MonitoredType DEF Annotations
    <2>3. worker' \in WorkerState /\ worker'.stage = "patching" /\ worker'.app = worker.app
        BY <1>13, <2>2 DEF ListPodsFails, TypeOK, WorkerState
    <2> QED
        BY <1>13, <2>1, <2>3, UnsetAssumption DEF ListPodsFails, Fault, TypeOK
<1>14. CASE PatchStatus
    <2> DEFINE a == worker.app
               patched == MergePatch(store[a].status, worker.base.status, worker.target)
    <2>1. a \in Apps
        BY <1>14 DEF PatchStatus, TypeOK, WorkerState
    <2>2. /\ store[a].status \in Status /\ worker.base.status \in Status
          /\ worker.target \in Status /\ worker.poll \in Annotations
          /\ store[a].poll \in Annotations
        BY <2>1 DEF TypeOK, WorkerState, CamelApp
    <2>3. patched \in Status /\ patched.phase \in Phases \union {Unset}
        BY <2>2, PatchType DEF Status
    <2>4. ImportCamelAnnotations(worker.poll, store[a].poll) \in Annotations
        BY <2>2, ImportType
    <2>5. store' \in [Apps -> CamelApp]
        BY <1>14, <2>1, <2>3 DEF PatchStatus, TypeOK, CamelApp
    <2>6. worker' \in WorkerState /\ worker'.stage = "returning" /\ worker'.app = a
        BY <1>14, <2>3, <2>4 DEF PatchStatus, TypeOK, WorkerState
    <2> QED
        BY <1>14, <2>1, <2>5, <2>6, UnsetAssumption DEF PatchStatus, TypeOK
<1>15. ASSUME EndInError, worker.stage # "idle"
       PROVE  /\ worker' \in WorkerState
              /\ worker'.stage = "idle" /\ worker'.app = Unset
              /\ waiting' \subseteq Apps
    BY <1>15, <1>idle DEF EndInError, TypeOK, WorkerState
<1>16. CASE PatchMissing
    BY <1>16, <1>15 DEF PatchMissing, TypeOK
<1>17. CASE PatchFails
    BY <1>17, <1>15 DEF PatchFails, Fault, TypeOK
<1>18. CASE ReturnError
    BY <1>18, <1>15 DEF ReturnError, TypeOK
<1>19. CASE ReturnRequeue
    <2>1. /\ worker.app \in Apps /\ worker.phase \in Phases \union {Unset}
          /\ worker.poll \in Annotations
        BY <1>19 DEF ReturnRequeue, TypeOK, WorkerState
    <2>2. getPollingInterval(worker.poll) \in Int
        BY <2>1, IntervalType
    <2> QED
        BY <1>19, <1>idle, <2>1, <2>2 DEF ReturnRequeue, NotifyAppUpdated, TypeOK
<1>20. CASE Restart
    BY <1>20, <1>idle DEF Restart, Fault, TypeOK
<1>21. CASE UNCHANGED vars
    BY <1>21 DEF vars, TypeOK
<1> QED
    BY <1>1, <1>2, <1>3, <1>4, <1>5, <1>6, <1>7, <1>8, <1>9, <1>10, <1>11, <1>12,
       <1>13, <1>14, <1>16, <1>17, <1>18, <1>19, <1>20, <1>21
    DEF Next, Environment, Feed, StartPass, ContinuePass

(* The controller keeps its types, whatever the applications, the states   *)
(* of the Deployments and the bounds are.                                  *)
THEOREM TypeCorrect == Spec => []TypeOK
BY InitTypeOK, NextTypeOK, PTL DEF Spec

-----------------------------------------------------------------------------
(* No application is forgotten.                                            *)

(* An application stays known, scheduled and not given up through a step   *)
(* that touches none of what decides it.                                   *)
LEMMA StaysScheduled ==
    ASSUME NoAppForgotten, cached' = cached, lastPoll' = lastPoll,
           \A a \in Apps : Scheduled(a) => Scheduled(a)'
    PROVE  NoAppForgotten'
BY DEF NoAppForgotten, GaveUp, Scheduled

LEMMA NextNoAppForgotten ==
    TypeOK /\ NoAppForgotten /\ [Next]_vars => NoAppForgotten'
<1> SUFFICES ASSUME TypeOK, NoAppForgotten, [Next]_vars PROVE NoAppForgotten'
    OBVIOUS
<1>1. ASSUME NEW a \in Apps, Environment(a) PROVE NoAppForgotten'
    BY <1>1 DEF Environment, CreateApp, DeleteApp, ChangeDeployment,
                NoAppForgotten, Scheduled, GaveUp
<1>2. ASSUME NEW a \in Apps, CacheSync(a) PROVE NoAppForgotten'
    <2> SUFFICES ASSUME NEW b \in Apps, Exists(cached'[b])
                 PROVE  Scheduled(b)' \/ GaveUp(b)'
        BY DEF NoAppForgotten
    <2>1. CASE Exists(cached[b])
        BY <1>2, <2>1 DEF CacheSync, NoAppForgotten, Scheduled, GaveUp
    <2>2. CASE ~Exists(cached[b])
        <3>1. b = a /\ cached[a].gen # store[a].gen
            BY <1>2, <2>2 DEF CacheSync, TypeOK
        <3> QED
            BY <1>2, <3>1 DEF CacheSync, Scheduled
    <2> QED
        BY <2>1, <2>2
<1>3. ASSUME NEW a \in Apps, CacheRelist(a) PROVE NoAppForgotten'
    BY <1>3 DEF CacheRelist, NoAppForgotten, Scheduled, GaveUp, TypeOK
<1>4. ASSUME NEW a \in Apps, Enqueue(a) \/ TimerFires(a) PROVE NoAppForgotten'
    BY <1>4 DEF Enqueue, TimerFires, NoAppForgotten, Scheduled, GaveUp
<1>5. ASSUME NEW a \in Apps, Dequeue(a), ~Exists(cached[a]) \/ a \in waiting' \/ worker'.app = a,
             UNCHANGED <<cached, notices>>, waiting \subseteq waiting'
      PROVE  NoAppForgotten'
    <2> SUFFICES ASSUME NEW b \in Apps, Exists(cached'[b])
                 PROVE  Scheduled(b)' \/ GaveUp(b)'
        BY DEF NoAppForgotten
    <2>1. CASE b = a
        BY <1>5, <2>1 DEF Scheduled
    <2>2. CASE b # a
        <3>1. worker.app # b
            BY <1>5, UnsetAssumption DEF Dequeue, TypeOK
        <3>2. lastPoll'[b] = lastPoll[b] /\ (b \in queue => b \in queue')
            BY <1>5, <2>2 DEF Dequeue, TypeOK
        <3> QED
            BY <1>5, <3>1, <3>2 DEF NoAppForgotten, Scheduled, GaveUp
    <2> QED
        BY <2>1, <2>2
<1>6. ASSUME NEW a \in Apps, StartPass(a) PROVE NoAppForgotten'
    <2>1. CASE SkipMissing(a)
        BY <1>5, <2>1 DEF SkipMissing
    <2>2. CASE RejectMissingDeployment(a)
        BY <1>5, <2>2 DEF RejectMissingDeployment
    <2>3. CASE RejectReadError(a)
        BY <1>5, <2>3 DEF RejectReadError
    <2>4. CASE BeginPass(a)
        <3>1. worker'.app = a
            BY <2>4 DEF BeginPass, Idle
        <3> QED
            BY <1>5, <2>4, <3>1 DEF BeginPass
    <2> QED
        BY <1>6, <2>1, <2>2, <2>3, <2>4 DEF StartPass
<1>7. CASE ScrapePods \/ ListPodsFails \/ PatchStatus
    <2>1. worker'.app = worker.app
        BY <1>7 DEF ScrapePods, ListPodsFails, PatchStatus, TypeOK, WorkerState
    <2> QED
        BY <1>7, <2>1 DEF ScrapePods, ListPodsFails, PatchStatus,
                          NoAppForgotten, Scheduled, GaveUp
<1>8. CASE PatchMissing \/ PatchFails \/ ReturnError
    BY <1>8 DEF PatchMissing, PatchFails, ReturnError, EndInError,
                NoAppForgotten, Scheduled, GaveUp
<1>9. CASE ReturnRequeue
    <2> SUFFICES ASSUME NEW b \in Apps, Exists(cached'[b])
                 PROVE  Scheduled(b)' \/ GaveUp(b)'
        BY DEF NoAppForgotten
    <2> DEFINE interval == getPollingInterval(worker.poll)
    <2>1. interval \in Int
        BY IntervalType DEF TypeOK, WorkerState
    <2>2. CASE b = worker.app
        <3>1. lastPoll'[b] = interval
            BY <1>9, <2>2 DEF ReturnRequeue, TypeOK
        <3>2. CASE interval > 0
            BY <1>9, <2>2, <3>2 DEF ReturnRequeue, Scheduled
        <3>3. CASE interval <= 0
            BY <2>1, <3>1, <3>3 DEF GaveUp
        <3> QED
            BY <2>1, <3>2, <3>3
    <2>3. CASE b # worker.app
        <3>1. lastPoll'[b] = lastPoll[b] /\ cached'[b] = cached[b]
            BY <1>9, <2>3 DEF ReturnRequeue, TypeOK
        <3>2. Scheduled(b) => Scheduled(b)'
            BY <1>9, <2>3 DEF ReturnRequeue, Scheduled
        <3> QED
            BY <3>1, <3>2 DEF NoAppForgotten, GaveUp
    <2> QED
        BY <2>2, <2>3
<1>10. CASE Restart
    BY <1>10 DEF Restart, NoAppForgotten, Scheduled
<1>11. CASE UNCHANGED vars
    BY <1>11 DEF vars, NoAppForgotten, Scheduled, GaveUp
<1> QED
    BY <1>1, <1>2, <1>3, <1>4, <1>6, <1>7, <1>8, <1>9, <1>10, <1>11
    DEF Next, Feed, ContinuePass

(* An application the operator knows of always has an event, a queue       *)
(* entry, a timer or the worker to bring its next pass, unless its last    *)
(* pass ended with an interval that is not positive.                       *)
THEOREM NothingForgotten == Spec => []NoAppForgotten
<1>1. Init => NoAppForgotten
    BY DEF Init, NoAppForgotten, NoApp
<1> QED
    BY <1>1, InitTypeOK, NextTypeOK, NextNoAppForgotten, PTL DEF Spec

-----------------------------------------------------------------------------
(* What a patch leaves.                                                    *)

(* Applied to the status it was computed against, the patch yields exactly *)
(* the status that was computed.                                           *)
LEMMA PatchOfBase ==
    ASSUME NEW base \in Status, NEW target \in Status
    PROVE  MergePatch(base, base, target) = target
BY DEF MergePatch, Status

LEMMA StepFreshPassExact ==
    ASSUME TypeOK, [Next]_vars, NEW a \in Apps, worker.app = a, worker.base = store[a],
           store'[a].gen = store[a].gen, store'[a].status # store[a].status
    PROVE  store'[a].status = worker.target
<1>1. CASE PatchStatus
    <2>1. store'[a].status = MergePatch(store[a].status, store[a].status, worker.target)
        BY <1>1 DEF PatchStatus, TypeOK, CamelApp
    <2>2. store[a].status \in Status /\ worker.target \in Status
        BY DEF TypeOK, CamelApp, WorkerState
    <2> QED
        BY <2>1, <2>2, PatchOfBase
<1>2. ASSUME NEW b \in Apps, Environment(b) PROVE FALSE
    BY <1>2 DEF Environment, CreateApp, DeleteApp, ChangeDeployment, Change, TypeOK, CamelApp, NoApp
<1>3. ASSUME store' = store PROVE FALSE
    BY <1>3
<1> QED
    BY <1>1, <1>2, <1>3
    DEF Next, vars, Feed, CacheSync, CacheRelist, Enqueue, TimerFires, StartPass,
        SkipMissing, RejectMissingDeployment, RejectReadError, BeginPass, ContinuePass,
        ScrapePods, ListPodsFails, PatchMissing, PatchFails, ReturnError,
        ReturnRequeue, Restart

(* A pass whose base is still what the API server holds leaves there       *)
(* exactly what it computed.                                               *)
THEOREM FreshPassesExact == Spec => FreshPassExact
<1>1. TypeOK /\ [Next]_vars =>
        [\A a \in Apps :
            (/\ worker.app = a
             /\ worker.base = store[a]
             /\ store'[a].gen = store[a].gen
             /\ store'[a].status # store[a].status)
                => store'[a].status = worker.target]_vars
    BY StepFreshPassExact
<1> QED
    BY <1>1, InitTypeOK, NextTypeOK, PTL DEF Spec, FreshPassExact

LEMMA StepPassesOnlyPatch ==
    ASSUME TypeOK, [Next]_vars, changes' = changes, NEW a \in Apps
    PROVE  /\ store'[a].gen = store[a].gen
           /\ store'[a] # store[a] => Exists(store[a]) /\ worker.app = a
<1>1. CASE PatchStatus
    BY <1>1 DEF PatchStatus, TypeOK, CamelApp
<1>2. ASSUME NEW b \in Apps, Environment(b) PROVE FALSE
    <2>1. changes' = changes + 1 /\ changes \in Nat
        BY <1>2 DEF Environment, CreateApp, DeleteApp, ChangeDeployment, Change, TypeOK
    <2> QED
        BY <2>1
<1>3. CASE store' = store
    BY <1>3
<1> QED
    BY <1>1, <1>2, <1>3
    DEF Next, vars, Feed, CacheSync, CacheRelist, Enqueue, TimerFires, StartPass,
        SkipMissing, RejectMissingDeployment, RejectReadError, BeginPass, ContinuePass,
        ScrapePods, ListPodsFails, PatchMissing, PatchFails, ReturnError,
        ReturnRequeue, Restart

(* A pass writes to no application but the one it was dequeued for, and    *)
(* brings no deleted application back.                                     *)
THEOREM PassesPatchOnly == Spec => PassesOnlyPatch
<1>1. TypeOK /\ [Next]_vars =>
        [changes' = changes =>
            \A a \in Apps :
                /\ store'[a].gen = store[a].gen
                /\ store'[a] # store[a] => Exists(store[a]) /\ worker.app = a]_vars
    BY StepPassesOnlyPatch
<1> QED
    BY <1>1, InitTypeOK, NextTypeOK, PTL DEF Spec, PassesOnlyPatch

-----------------------------------------------------------------------------
(* A pass that has patched announces what it has found out.                *)

(* Without a failure, between the patch and the announcement: the phase of *)
(* the object, unless it was replaced, is the one to compare with the      *)
(* base, and if they are equal it has been announced before.               *)
AboutToTell ==
    faults = 0 /\ worker.stage = "returning" =>
        LET a == worker.app
        IN  Exists(store[a]) /\ store[a].status.phase # Unset =>
                /\ store[a].status.phase = worker.phase
                /\ worker.base.status.phase = worker.phase => told[a] = worker.phase

(* A pass fails only with a failure. *)
FailsWithFault == worker.failed => faults # 0

AnnounceInv == TypeOK /\ TransitionsAnnounced /\ AboutToTell /\ FailsWithFault

LEMMA InitAnnounce == Init => AnnounceInv
BY InitTypeOK DEF AnnounceInv, Init, TransitionsAnnounced, AboutToTell, FailsWithFault, Idle, NoApp

LEMMA NextAnnounce == AnnounceInv /\ [Next]_vars => AnnounceInv'
<1> SUFFICES ASSUME AnnounceInv, [Next]_vars
             PROVE  TransitionsAnnounced' /\ AboutToTell' /\ FailsWithFault'
    BY NextTypeOK DEF AnnounceInv
<1>1. TypeOK /\ TransitionsAnnounced /\ AboutToTell /\ FailsWithFault /\ TypeOK'
    BY NextTypeOK DEF AnnounceInv
<1> DEFINE Told == TransitionsAnnounced' /\ AboutToTell' /\ FailsWithFault'
<1>2. ASSUME Fault, worker' = Idle \/ worker'.failed \in BOOLEAN PROVE Told
    BY <1>1, <1>2 DEF Fault, TypeOK, TransitionsAnnounced, AboutToTell, FailsWithFault
<1>3. ASSUME NEW a \in Apps, Environment(a) PROVE Told
    <2>1. /\ UNCHANGED <<worker, faults>>
          /\ \A b \in Apps :
                /\ store'[b] = store[b] /\ told'[b] = told[b]
                \/ ~Exists(store'[b])
                \/ store'[b].status.phase = Unset
        BY <1>1, <1>3 DEF Environment, CreateApp, DeleteApp, ChangeDeployment, TypeOK,
                          NoApp, EmptyStatus
    <2>2. worker.stage = "returning" => worker.app \in Apps
        BY <1>1, UnsetAssumption DEF TypeOK, WorkerState
    <2> QED BY <1>1, <2>1, <2>2 DEF TransitionsAnnounced, AboutToTell, FailsWithFault
<1>4. CASE \/ \E a \in Apps : Feed(a) \/ SkipMissing(a) \/ RejectMissingDeployment(a)
           \/ UNCHANGED vars
    <2>1. UNCHANGED <<store, worker, told, faults>>
        BY <1>4 DEF Feed, CacheSync, Enqueue, TimerFires, SkipMissing,
                    RejectMissingDeployment, vars
    <2> QED BY <1>1, <2>1 DEF TransitionsAnnounced, AboutToTell, FailsWithFault
<1>5. ASSUME NEW a \in Apps, BeginPass(a) PROVE Told
    <2>1. /\ UNCHANGED <<store, told, faults>>
          /\ worker.stage = "idle" /\ worker'.stage = "scraping" /\ ~worker'.failed
        BY <1>5 DEF BeginPass, Dequeue, Idle
    <2> QED BY <1>1, <2>1 DEF TransitionsAnnounced, AboutToTell, FailsWithFault
<1>6. CASE ScrapePods
    <2>1. /\ UNCHANGED <<store, told, faults>>
          /\ worker.stage = "scraping" /\ worker'.stage = "patching"
          /\ worker'.failed = worker.failed
        BY <1>1, <1>6 DEF ScrapePods, TypeOK, WorkerState
    <2> QED BY <1>1, <2>1 DEF TransitionsAnnounced, AboutToTell, FailsWithFault
<1>7. CASE PatchMissing
    <2>1. UNCHANGED <<store, told, faults>> /\ worker' = Idle /\ worker.stage = "patching"
        BY <1>7 DEF PatchMissing, EndInError
    <2> QED BY <1>1, <2>1 DEF TransitionsAnnounced, AboutToTell, FailsWithFault, Idle
<1>8. CASE ReturnError
    <2>1. UNCHANGED <<faults>> /\ worker' = Idle /\ faults # 0
        BY <1>1, <1>8 DEF ReturnError, EndInError, FailsWithFault
    <2> QED BY <2>1 DEF TransitionsAnnounced, AboutToTell, FailsWithFault
<1>9. CASE PatchStatus
    <2> DEFINE a == worker.app
               base == worker.base.status
               status == MergePatch(store[a].status, base, worker.target)
    <2>1. a \in Apps /\ store[a].status \in Status
        BY <1>1, <1>9, UnsetAssumption DEF PatchStatus, TypeOK, WorkerState, CamelApp
    <2>2. status.phase = IF worker.target.phase = base.phase
                         THEN store[a].status.phase ELSE worker.target.phase
        BY <2>1 DEF MergePatch, Status
    <2>3. /\ UNCHANGED <<told, faults>>
          /\ \A b \in Apps : b # a => store'[b] = store[b]
          /\ store'[a].status = status /\ Exists(store[a])
          /\ worker.stage = "patching"
        BY <1>1, <1>9, <2>1 DEF PatchStatus, TypeOK, CamelApp
    <2>4. /\ worker'.stage = "returning" /\ worker'.phase = status.phase
          /\ worker'.app = a /\ worker'.base = worker.base
          /\ worker'.failed = worker.failed
        BY <1>1, <1>9 DEF PatchStatus, TypeOK, WorkerState
    <2>5. TransitionsAnnounced'
        BY <1>1, <2>3, <2>4 DEF TransitionsAnnounced
    <2>6. AboutToTell'
        <3>1. SUFFICES ASSUME faults = 0, status.phase # Unset, base.phase = status.phase
                       PROVE  told[a] = status.phase
            BY <2>3, <2>4 DEF AboutToTell
        <3>2. store[a].status.phase = status.phase
            BY <2>2, <3>1
        <3> HIDE DEF status
        <3> QED BY <1>1, <2>1, <2>3, <3>1, <3>2 DEF TransitionsAnnounced
    <2>7. FailsWithFault'
        BY <1>1, <2>3, <2>4 DEF FailsWithFault
    <2> QED BY <2>5, <2>6, <2>7
<1>10. CASE ReturnRequeue
    <2> DEFINE a == worker.app
    <2>1. /\ UNCHANGED <<store, faults>> /\ worker' = Idle /\ worker.stage = "returning"
          /\ NotifyAppUpdated(a, worker.base.status.phase, worker.phase)
          /\ a \in Apps
        BY <1>1, <1>10, UnsetAssumption DEF ReturnRequeue, TypeOK, WorkerState
    <2>2. \A b \in Apps : b # a => told'[b] = told[b]
        BY <1>1, <2>1 DEF NotifyAppUpdated, TypeOK
    <2>3. told'[a] = IF worker.base.status.phase = worker.phase THEN told[a] ELSE worker.phase
        BY <1>1, <2>1 DEF NotifyAppUpdated, TypeOK
    <2>4. TransitionsAnnounced'
        BY <1>1, <2>1, <2>2, <2>3 DEF TransitionsAnnounced, AboutToTell, Idle
    <2>5. AboutToTell' /\ FailsWithFault'
        BY <2>1 DEF AboutToTell, FailsWithFault, Idle
    <2> QED BY <2>4, <2>5
<1>11. CASE \/ \E a \in Apps : CacheRelist(a) \/ RejectReadError(a)
            \/ ListPodsFails \/ PatchFails \/ Restart
    <2>1. Fault
        BY <1>11 DEF CacheRelist, RejectReadError, ListPodsFails, PatchFails, Restart
    <2>2. worker'.failed \in BOOLEAN
        BY <1>1 DEF TypeOK, WorkerState
    <2> QED BY <1>2, <2>1, <2>2
<1> QED BY <1>3, <1>4, <1>5, <1>6, <1>7, <1>8, <1>9, <1>10, <1>11
           DEF Next, StartPass, ContinuePass

(* As long as no call fails and the process does not end, no transition is *)
(* lost: whatever has become of the copies passes began with, the phase    *)
(* stored last is the one announced last (app_controller.go:110, 121).     *)
THEOREM NoTransitionLost == Spec => []TransitionsAnnounced
<1>1. AnnounceInv => TransitionsAnnounced
    BY DEF AnnounceInv
<1> QED
    BY <1>1, InitAnnounce, NextAnnounce, PTL DEF Spec

-----------------------------------------------------------------------------
(* The controller implements Polling: every step is a step of Polling or   *)
(* leaves what Polling sees unchanged.                                     *)

(* What a pass asked for last is forgotten when the next one begins, so an *)
(* application that is being polled does not rest.                         *)
PolledAfresh == worker.app # Unset => lastPoll[worker.app] = Unset

RefinementInv == TypeOK /\ PolledAfresh

LEMMA InitPolledAfresh == Init => PolledAfresh
BY DEF Init, PolledAfresh, Idle

LEMMA NextPolledAfresh == RefinementInv /\ [Next]_vars => PolledAfresh'
<1> SUFFICES ASSUME RefinementInv, [Next]_vars PROVE PolledAfresh'
    OBVIOUS
<1> USE DEF RefinementInv
<1>1. ASSUME NEW a \in Apps, Environment(a) \/ Feed(a) \/ CacheRelist(a) PROVE PolledAfresh'
    BY <1>1 DEF Environment, CreateApp, DeleteApp, ChangeDeployment, Feed, CacheSync,
                Enqueue, TimerFires, CacheRelist, PolledAfresh
<1>2. ASSUME NEW a \in Apps, StartPass(a) PROVE PolledAfresh'
    <2>1. worker.app = Unset /\ lastPoll'[a] = Unset
        BY <1>2 DEF StartPass, SkipMissing, RejectMissingDeployment, RejectReadError,
                    BeginPass, Dequeue, TypeOK
    <2>2. worker'.app \in {Unset, a}
        BY <1>2, <2>1 DEF StartPass, SkipMissing, RejectMissingDeployment, RejectReadError,
                    BeginPass, Dequeue, Idle
    <2> QED
        BY <2>1, <2>2 DEF PolledAfresh
<1>3. CASE ScrapePods \/ ListPodsFails \/ PatchStatus
    BY <1>3 DEF ScrapePods, ListPodsFails, PatchStatus, PolledAfresh, TypeOK, WorkerState
<1>4. CASE PatchMissing \/ PatchFails \/ ReturnError \/ ReturnRequeue \/ Restart
    BY <1>4 DEF PatchMissing, PatchFails, ReturnError, ReturnRequeue, Restart, EndInError,
                Idle, PolledAfresh
<1>5. CASE UNCHANGED vars
    BY <1>5 DEF vars, PolledAfresh
<1> QED
    BY <1>1, <1>2, <1>3, <1>4, <1>5 DEF Next, ContinuePass

-----------------------------------------------------------------------------
(* The mapping.                                                            *)

LEMMA InitAbstract == Init => Abstract!Init
<1> SUFFICES ASSUME Init PROVE Abstract!Init
    OBVIOUS
<1>1. Report = [a \in Apps |-> Unset] /\ Known = {} /\ Due = {}
    BY DEF Init, Report, Known, Due, NoApp
<1>2. Resting = {}
    BY UnsetAssumption DEF Init, Resting, GaveUp
<1>3. worker.app = Unset /\ (worker.stage = "returning") = FALSE
    BY DEF Init, Idle
<1> QED
    BY <1>1, <1>2, <1>3 DEF Abstract!Init

(* Steps of users.                                                         *)
LEMMA UserSteps ==
    ASSUME RefinementInv, NEW a \in Apps, Environment(a)
    PROVE  [Abstract!Next]_Abstract!vars
<1> USE DEF RefinementInv
<1>0. Known' = Known /\ Due' = Due /\ Resting' = Resting /\ worker' = worker
    BY DEF Environment, CreateApp, DeleteApp, ChangeDeployment, Known, Due, Resting, GaveUp
<1>1. CASE CreateApp(a)
    <2>1. changes + 1 # 0
        BY DEF TypeOK
    <2>2. Report[a] = Unset /\ Report' = [Report EXCEPT ![a] = EmptyStatus]
        BY <1>1, <2>1 DEF CreateApp, Change, Report, TypeOK
    <2> QED
        BY <1>0, <2>2 DEF Abstract!Next, Abstract!Appear
<1>2. CASE DeleteApp(a)
    <2>0. store[a].status \in Status /\ NoApp.gen = 0
        BY DEF TypeOK, CamelApp, NoApp
    <2>1. Report[a] # Unset
        BY <1>2, <2>0, AbsentAssumption DEF DeleteApp, Report
    <2>2. Report' = [Report EXCEPT ![a] = Unset]
        BY <1>2, <2>0 DEF DeleteApp, Report, TypeOK
    <2> QED
        BY <1>0, <2>1, <2>2 DEF Abstract!Next, Abstract!Vanish
<1>3. CASE ChangeDeployment(a)
    <2>1. Report' = Report
        BY <1>3 DEF ChangeDeployment, Report
    <2> QED
        BY <1>0, <2>1 DEF Abstract!vars
<1> QED
    BY <1>1, <1>2, <1>3 DEF Environment

(* Steps of the informer, the queue and the timers.                        *)
LEMMA FeedSteps ==
    ASSUME RefinementInv, NEW a \in Apps, Feed(a) \/ CacheRelist(a)
    PROVE  [Abstract!Next]_Abstract!vars
<1> USE DEF RefinementInv
<1>0. Report' = Report /\ Resting' = Resting /\ worker' = worker
    BY DEF Feed, CacheSync, CacheRelist, Enqueue, TimerFires, Report, Resting, GaveUp
<1>1. CASE CacheSync(a) /\ cached[a].gen = store[a].gen
    <2>1. Known' = Known /\ Due' = Due
        BY <1>1 DEF CacheSync, Known, Due, TypeOK
    <2> QED
        BY <1>0, <2>1 DEF Abstract!vars
<1>2. CASE CacheSync(a) /\ cached[a].gen # store[a].gen
    <2>1. Known' \in {Known \union {a}, Known \ {a}}
        BY <1>2 DEF CacheSync, Known, TypeOK
    <2>2. Due' = Due \union {a}
        BY <1>2 DEF CacheSync, Due
    <2> QED
        BY <1>0, <2>1, <2>2 DEF Abstract!Next, Abstract!Learn
<1>3. CASE CacheRelist(a) \/ Enqueue(a) \/ TimerFires(a)
    <2>1. Known' = Known /\ Due' = Due
        BY <1>3 DEF CacheRelist, Enqueue, TimerFires, Known, Due, TypeOK
    <2> QED
        BY <1>0, <2>1 DEF Abstract!vars
<1> QED
    BY <1>1, <1>2, <1>3 DEF Feed

(* A name is taken from the queue.                                         *)
LEMMA StartSteps ==
    ASSUME RefinementInv, NEW a \in Apps, StartPass(a)
    PROVE  [Abstract!Next]_Abstract!vars
<1> USE DEF RefinementInv
<1>0. Report' = Report /\ Known' = Known
    BY DEF StartPass, SkipMissing, RejectMissingDeployment, RejectReadError, BeginPass,
           Report, Known
<1>1. Dequeue(a)
    BY DEF StartPass, SkipMissing, RejectMissingDeployment, RejectReadError, BeginPass
<1>2. a \in Due /\ worker.app = Unset
    BY <1>1 DEF Dequeue, Due, TypeOK
<1>3. Resting' = Resting \ {a}
    BY <1>1, UnsetAssumption DEF Dequeue, Resting, GaveUp, TypeOK
<1>4. CASE SkipMissing(a)
    <2>1. Due' \in {Due, Due \ {a}} /\ a \notin Known /\ worker' = worker
        BY <1>4 DEF SkipMissing, Dequeue, Due, Known
    <2> QED
        BY <1>0, <1>2, <1>3, <2>1 DEF Abstract!Next, Abstract!Drop, Abstract!Attempt
<1>5. CASE RejectMissingDeployment(a) \/ RejectReadError(a)
    <2>1. Due' = Due /\ worker' = worker
        BY <1>5, <1>2 DEF RejectMissingDeployment, RejectReadError, Dequeue, Due
    <2> QED
        BY <1>0, <1>2, <1>3, <2>1 DEF Abstract!Next, Abstract!Postpone, Abstract!Attempt
<1>6. CASE BeginPass(a)
    <2>1. Due' \in {Due, Due \ {a}} /\ a \in Known
        BY <1>6 DEF BeginPass, Dequeue, Due, Known
    <2>2. worker.stage = "idle" /\ worker'.stage = "scraping" /\ worker'.app = a
        BY <1>6 DEF BeginPass, Dequeue, Idle
    <2> QED
        BY <1>0, <1>2, <1>3, <2>1, <2>2 DEF Abstract!Next, Abstract!Begin, Abstract!Attempt
<1> QED
    BY <1>4, <1>5, <1>6 DEF StartPass

(* The rest of the pass.                                                   *)
LEMMA PassSteps ==
    ASSUME RefinementInv, ContinuePass
    PROVE  [Abstract!Next]_Abstract!vars
<1> USE DEF RefinementInv
<1> DEFINE a == worker.app
<1>0. a \in Apps /\ a # Unset
    BY UnsetAssumption DEF ContinuePass, ScrapePods, ListPodsFails, PatchStatus, PatchMissing,
           PatchFails, ReturnError, ReturnRequeue, TypeOK, WorkerState
<1>known. Known' = Known
    BY DEF ContinuePass, ScrapePods, ListPodsFails, PatchStatus, PatchMissing,
           PatchFails, ReturnError, ReturnRequeue, Known
<1>1. CASE ScrapePods \/ ListPodsFails
    <2>1. Report' = Report /\ Due' = Due /\ Resting' = Resting
        BY <1>1 DEF ScrapePods, ListPodsFails, Report, Due, Resting, GaveUp
    <2>2. worker.stage = "scraping" /\ worker'.stage = "patching"
        BY <1>1 DEF ScrapePods, ListPodsFails, TypeOK, WorkerState
    <2>3. worker'.app = a
        BY <1>1 DEF ScrapePods, ListPodsFails, TypeOK, WorkerState
    <2> QED
        BY <1>known, <2>1, <2>2, <2>3 DEF Abstract!vars
<1>2. CASE PatchStatus
    <2>1. store[a] \in CamelApp /\ worker.base \in CamelApp /\ worker.target \in Status
        BY <1>0 DEF TypeOK, WorkerState
    <2>2. MergePatch(store[a].status, worker.base.status, worker.target) \in Status
        BY <2>1, PatchType DEF CamelApp
    <2> DEFINE r == MergePatch(store[a].status, worker.base.status, worker.target)
    <2>3. Report[a] # Unset
        BY <1>2, <1>0, <2>1, AbsentAssumption DEF PatchStatus, Report, CamelApp
    <2>4. Report' = [Report EXCEPT ![a] = r]
        BY <1>2, <1>0, <2>1 DEF PatchStatus, Report, TypeOK, CamelApp
    <2>5. Report'[a] = r
        BY <2>4, <1>0 DEF Report
    <2>6. Due' = Due /\ Resting' = Resting
        BY <1>2 DEF PatchStatus, Due, Resting, GaveUp
    <2>7. /\ worker'.app = a
          /\ worker.stage # "returning" /\ worker'.stage = "returning"
        BY <1>2 DEF PatchStatus, TypeOK, WorkerState
    <2>8. Abstract!Publish(a)
        BY <1>known, <2>2, <2>3, <2>4, <2>5, <2>6, <2>7 DEF Abstract!Publish
    <2> QED
        BY <1>0, <2>8 DEF Abstract!Next
<1>3. CASE PatchMissing \/ PatchFails \/ ReturnError
    <2>1. Report' = Report /\ Resting' = Resting
        BY <1>3 DEF PatchMissing, PatchFails, ReturnError, Report, Resting, GaveUp
    <2>2. Due' = Due \union {a} /\ worker' = Idle
        BY <1>3 DEF PatchMissing, PatchFails, ReturnError, EndInError, Due
    <2>3. Abstract!Finish(a)
        BY <1>known, <2>1, <2>2 DEF Abstract!Finish, Idle
    <2> QED
        BY <1>0, <2>3 DEF Abstract!Next
<1>4. CASE ReturnRequeue
    <2> DEFINE interval == getPollingInterval(worker.poll)
    <2>1. interval \in Int
        BY IntervalType DEF TypeOK, WorkerState
    <2>2. Report' = Report /\ worker' = Idle /\ worker.stage = "returning"
        BY <1>4 DEF ReturnRequeue, Report
    <2>3. lastPoll' = [lastPoll EXCEPT ![a] = interval]
        BY <1>4 DEF ReturnRequeue
    <2>4. lastPoll[a] = Unset
        BY <1>0 DEF PolledAfresh
    <2>5. CASE interval > 0
        <3>1. Due' = Due \union {a}
            BY <1>4, <2>5 DEF ReturnRequeue, Due
        <3>2. Resting' = Resting
            BY <2>1, <2>3, <2>4, <2>5, UnsetAssumption DEF Resting, GaveUp, TypeOK
        <3>3. Abstract!Finish(a)
            BY <1>known, <2>2, <3>1, <3>2 DEF Abstract!Finish, Idle
        <3> QED
            BY <1>0, <3>3 DEF Abstract!Next
    <2>6. CASE ~(interval > 0)
        <3>1. Due' = Due
            BY <1>4, <2>6 DEF ReturnRequeue, Due
        <3>2. Resting' = Resting \union {a}
            BY <1>0, <2>1, <2>3, <2>6 DEF Resting, GaveUp, TypeOK
        <3>3. Abstract!Finish(a)
            BY <1>known, <2>2, <3>1, <3>2 DEF Abstract!Finish, Idle
        <3> QED
            BY <1>0, <3>3 DEF Abstract!Next
    <2> QED
        BY <2>5, <2>6
<1> QED
    BY <1>1, <1>2, <1>3, <1>4 DEF ContinuePass

LEMMA RestartStep ==
    ASSUME RefinementInv, Restart
    PROVE  [Abstract!Next]_Abstract!vars
<1> USE DEF RefinementInv
<1>1. Report' = Report /\ worker' = Idle
    BY DEF Restart, Report
<1>2. Known' = {a \in Apps : Report[a] # Unset}
    BY AbsentAssumption DEF Restart, Known, Report, TypeOK, CamelApp
<1>3. Due' = Known'
    BY DEF Restart, Due, Known
<1>4. Resting' = {}
    BY UnsetAssumption DEF Restart, Resting, GaveUp
<1>5. Abstract!StartAgain
    BY <1>1, <1>2, <1>3, <1>4 DEF Abstract!StartAgain, Idle
<1> QED
    BY <1>5 DEF Abstract!Next

-----------------------------------------------------------------------------
(* The controller implements Polling: whatever its caches, queue, timers,  *)
(* failures and restarts do, every step is one of an operator that owes    *)
(* each application its next poll (Reconcile, add, UpdateFalsePredicate).  *)
THEOREM Implementation == Spec => ImplementsPolling
<1>1. Init => RefinementInv
    BY InitTypeOK, InitPolledAfresh DEF RefinementInv
<1>2. RefinementInv /\ [Next]_vars => RefinementInv'
    BY NextTypeOK, NextPolledAfresh DEF RefinementInv
<1>3. RefinementInv /\ [Next]_vars => [Abstract!Next]_Abstract!vars
    <2> SUFFICES ASSUME RefinementInv, [Next]_vars PROVE [Abstract!Next]_Abstract!vars
        OBVIOUS
    <2>1. CASE UNCHANGED vars
        BY <2>1 DEF vars, Abstract!vars, Report, Known, Due, Resting, GaveUp
    <2> QED
        BY <2>1, UserSteps, FeedSteps, StartSteps, PassSteps, RestartStep DEF Next
<1> QED
    BY <1>1, <1>2, <1>3, InitAbstract, PTL DEF Spec, ImplementsPolling, Abstract!Spec
=============================================================================
