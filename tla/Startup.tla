-------------------------------- MODULE Startup --------------------------------
(***************************************************************************)
(* Processes of the operator from their command line to the reconciler:    *)
(* flags and environment variables with their fallbacks, the bootstrap     *)
(* client, the label and namespace selectors of the cache, the informers   *)
(* of the importer, the start of the manager and the election of a leader. *)
(*                                                                         *)
(* Whether the cluster serves a kind is asked twice: once to give the kind *)
(* a selector in the cache, and again, a little later, to watch it.  Both  *)
(* take a failed call for "not installed".                                 *)
(***************************************************************************)
EXTENDS Integers, Sequences

CONSTANTS
    Procs,        \* processes of the operator, in different pods
    Settings,     \* the flags and environments they may be given
    Clusters,     \* what a cluster may serve and permit at first
    Annotations,  \* polling intervals asked for by a CamelApp
    Absent,       \* an environment variable that is not set
    Junk,         \* a text strconv.Atoi rejects, the empty one included
    Second,       \* a second, in units of time.Duration
    Limit,        \* the first duration that overflows (2^63)
    MaxChanges,   \* bound on APIs installed and removed
    MaxFaults     \* bound on failed calls and crashes

(* The kinds whose objects can be imported, in the order they are watched. *)
Kinds == {"Deployment", "CronJob", "Service"}

(* The stages at which Run probes for a kind and looks at the answer.      *)
Select == [Service |-> "select Service", CronJob |-> "select CronJob"]
Inform == [Service |-> "inform Service", CronJob |-> "inform CronJob"]

Texts == STRING \union {Absent}
Numbers == Int \union {Absent, Junk}

(* flag, id: --leader-election, --leader-election-id;                      *)
(* operator: OPERATOR_ID; watch: WATCH_NAMESPACE; namespace: NAMESPACE;    *)
(* label: LABEL_SELECTOR; level: LOG_LEVEL, whose names debug, info and    *)
(* error are the numbers 1, 0 and -2; interval: POLL_INTERVAL_SECONDS;     *)
(* imports: CAMEL_APP_IMPORT is "true".                                    *)
Setting == [flag: BOOLEAN, id: STRING, operator: Texts, watch: Texts,
            namespace: Texts, label: Texts, level: Numbers,
            interval: Numbers, imports: BOOLEAN]

(* The optional kinds that are installed, and where the service account    *)
(* may watch a kind; "" is all namespaces.                                 *)
Cluster == [installed: SUBSET {"CronJob", "Service"}, rights: [Kinds -> SUBSET STRING]]

None == "nobody"

ASSUME SettingsAssumption == Settings \subseteq Setting
ASSUME ClustersAssumption == Clusters \subseteq Cluster
ASSUME TextAssumption == {Absent, Junk} \cap Int = {} /\ Absent \notin STRING
ASSUME ProcsAssumption == None \notin Procs
ASSUME WidthAssumption == Second \in Nat \ {0} /\ Limit \in Nat \ {0}
ASSUME AnnotationsAssumption == Annotations \subseteq Numbers
ASSUME BoundsAssumption == MaxChanges \in Nat /\ MaxFaults \in Nat

VARIABLES
    pc,         \* where a process is
    given,      \* its flags and environment
    zapLevel,   \* its log level, in the numbers of zap
    filtered,   \* kinds to which its cache applies the selector
    watched,    \* kinds whose informer has a handler of the importer
    leases,     \* locks that are held, by a process or by one that crashed
    cluster,    \* what the cluster serves and permits
    misled,     \* history: the first probe of a process was not the truth to be
    changes,    \* APIs installed or removed
    faults      \* calls that failed and processes that crashed

vars == <<pc, given, zapLevel, filtered, watched, leases, cluster,
          misled, changes, faults>>

world == <<cluster, changes>>

-----------------------------------------------------------------------------
(* Settings.                                                               *)

Lookup(text) == IF text = Absent THEN "" ELSE text

TrimSpace(text) == IF text = " " THEN "" ELSE text

(* Mutant: the value strconv.Atoi returns with its error is used.          *)
EnvAsIntIgnoringErrors(number, default) ==
    IF number \in Int THEN number ELSE IF number = Junk THEN 0 ELSE default

(* A number that is not set or does not parse is the default.              *)
getOperatorEnvAsInt(number, default) == IF number \in Int THEN number ELSE default

IToInt8(n) == ((n + 128) % 256) - 128

FitsInt8(n) == n \in -128 .. 127

(* Mutant: the level is negated before it is known to fit.                 *)
ZapLevelUnwrapped(number) == IF number = Absent THEN 0 ELSE -number

(* The level of zap is the negation of the level of logr, in eight bits.   *)
ZapLevel(number) == IF number = Absent THEN 0 ELSE IToInt8(-number)

LevelAccepted(number) == number = Absent \/ (number \in Int /\ FitsInt8(number))

IsCurrentOperatorGlobal(s) == TrimSpace(Lookup(s.watch)) = ""

(* Mutant: the watched namespace, when there is one, goes first.           *)
WatchNamespaceFirst(s) ==
    IF Lookup(s.watch) # "" THEN s.watch ELSE Lookup(s.namespace)

OperatorNamespace(s) ==
    IF Lookup(s.namespace) # "" THEN s.namespace ELSE Lookup(s.watch)

LeaderElection(s) == s.flag /\ OperatorNamespace(s) # ""

GetOperatorLockName(id) == id \o "-lock"

LeaderElectionID(s) ==
    IF s.id # "" THEN s.id
    ELSE IF Lookup(s.operator) # "" THEN GetOperatorLockName(s.operator)
    ELSE "camel-dashboard-lock"

Lock(s) == [namespace |-> OperatorNamespace(s), id |-> LeaderElectionID(s)]

AppLabel == "camel/app"

GetAppLabelSelector(s) == IF Lookup(s.label) # "" THEN s.label ELSE AppLabel

(* labels.NewRequirement rejects what is no label key.                     *)
LabelAccepted(label) == label # "not a key!"

(* Where the caches of a process look; "" is everywhere.                   *)
Namespaces(s) ==
    IF IsCurrentOperatorGlobal(s) THEN {""} ELSE {OperatorNamespace(s), s.watch}

(* A duration is a number of Limit wraps, half of them negative.           *)
Wrapped(n) == ((n + Limit) % (2 * Limit)) - Limit

Duration(seconds) == Wrapped(seconds * Second)

getPollingInterval(s, annotation) ==
    LET default == getOperatorEnvAsInt(s.interval, 60)
    IN  Duration(getOperatorEnvAsInt(annotation, default))

(* Run ends the process before it has talked to the cluster.               *)
Rejected(s) == ~LevelAccepted(s.level) \/ s.watch = Absent

Allowed(kind, namespace) == cluster.rights[kind] \cap {"", namespace} # {}

-----------------------------------------------------------------------------
NoSetting == [flag |-> FALSE, id |-> "", operator |-> Absent, watch |-> Absent,
              namespace |-> Absent, label |-> Absent, level |-> Absent,
              interval |-> Absent, imports |-> FALSE]

Init ==
    /\ pc = [p \in Procs |-> "down"]
    /\ given = [p \in Procs |-> NoSetting]
    /\ zapLevel = [p \in Procs |-> 0]
    /\ filtered = [p \in Procs |-> {}]
    /\ watched = [p \in Procs |-> {}]
    /\ leases = {}
    /\ cluster \in Clusters
    /\ misled = [p \in Procs |-> {}]
    /\ changes = 0
    /\ faults = 0

Goto(p, stage) == pc' = [pc EXCEPT ![p] = stage]

Fault == faults < MaxFaults /\ faults' = faults + 1

-----------------------------------------------------------------------------
(* The cluster installs or removes an API.                                 *)
ChangeAPI(kind) ==
    /\ changes < MaxChanges
    /\ changes' = changes + 1
    /\ cluster' = [cluster EXCEPT !.installed = IF kind \in @ THEN @ \ {kind} ELSE @ \union {kind}]
    /\ misled' = [p \in Procs |->
                    IF pc[p] = "down" THEN {} ELSE misled[p] \union {kind}]
    /\ UNCHANGED <<pc, given, zapLevel, filtered, watched, leases, faults>>

-----------------------------------------------------------------------------
(* A process.                                                              *)

(* What is left of a process that ended.                                   *)
End(p) ==
    /\ Goto(p, "down")
    /\ given' = [given EXCEPT ![p] = NoSetting]
    /\ zapLevel' = [zapLevel EXCEPT ![p] = 0]
    /\ filtered' = [filtered EXCEPT ![p] = {}]
    /\ watched' = [watched EXCEPT ![p] = {}]
    /\ misled' = [misled EXCEPT ![p] = {}]
    /\ UNCHANGED world

(* With settings that Run rejects the process ends where it began.         *)
Spawn(p, s) ==
    /\ pc[p] = "down"
    /\ ~Rejected(s)
    /\ Goto(p, "bootstrap")
    /\ given' = [given EXCEPT ![p] = s]
    /\ zapLevel' = [zapLevel EXCEPT ![p] = ZapLevel(s.level)]
    /\ UNCHANGED <<filtered, watched, leases, misled, world, faults>>

(* The configuration, the client, the label selector: Run goes on with all *)
(* of them or exits.  Deployments always have a selector.                  *)
NewClientWithConfig(p) ==
    /\ pc[p] = "bootstrap"
    /\ LabelAccepted(GetAppLabelSelector(given[p]))
    /\ Goto(p, Select.Service)
    /\ filtered' = [filtered EXCEPT ![p] = {"Deployment"}]
    /\ UNCHANGED <<given, zapLevel, watched, leases, misled, world, faults>>

InvalidLabel(p) ==
    /\ pc[p] = "bootstrap"
    /\ ~LabelAccepted(GetAppLabelSelector(given[p]))
    /\ End(p)
    /\ UNCHANGED <<leases, faults>>

(* Any call whose error is handed to exitOnError.                          *)
ExitOnError(p) ==
    /\ pc[p] \in {"bootstrap", "manager", "review"}
    /\ End(p)
    /\ UNCHANGED leases
    /\ Fault

(* Mutant: an installed kind is left to the defaults of the cache.         *)
ProbeWithoutSelector(p, kind, next) ==
    /\ pc[p] = Select[kind]
    /\ Goto(p, next)
    /\ UNCHANGED <<given, zapLevel, filtered, watched, leases, misled, world, faults>>

(* The first probe of a kind: with an error the kind gets no selector.     *)
ProbeForSelector(p, kind, next) ==
    /\ pc[p] = Select[kind]
    /\ Goto(p, next)
    /\ filtered' = [filtered EXCEPT ![p] = @ \union ({kind} \cap cluster.installed)]
    /\ UNCHANGED <<given, zapLevel, watched, leases, misled, world, faults>>

ProbeForSelectorFails(p, kind, next) ==
    /\ pc[p] = Select[kind]
    /\ Goto(p, next)
    /\ misled' = [misled EXCEPT ![p] = @ \union {kind}]
    /\ UNCHANGED <<given, zapLevel, filtered, watched, leases, world>>
    /\ Fault

(* The manager, its client and, where it is asked for, the importer: first *)
(* with the informer of the Deployments.                                   *)
Watch(p, kinds) == watched' = [watched EXCEPT ![p] = @ \union kinds]

NewManager(p) ==
    /\ pc[p] = "manager"
    /\ Goto(p, IF given[p].imports THEN Inform.CronJob ELSE "syncing")
    /\ Watch(p, IF given[p].imports THEN {"Deployment"} ELSE {})
    /\ UNCHANGED <<given, zapLevel, filtered, leases, misled, world, faults>>

(* The second probe.  Nobody asks whether CronJobs may be watched.         *)
GetCronJobInformer(p) ==
    /\ pc[p] = Inform.CronJob
    /\ Goto(p, Inform.Service)
    /\ Watch(p, {"CronJob"} \cap cluster.installed)
    /\ UNCHANGED <<given, zapLevel, filtered, leases, misled, world, faults>>

GetServiceInformer(p) ==
    /\ pc[p] = Inform.Service
    /\ Goto(p, IF "Service" \in cluster.installed THEN "review" ELSE "syncing")
    /\ UNCHANGED <<given, zapLevel, filtered, watched, leases, misled, world, faults>>

(* A second probe or a review that fails leaves the kind unwatched.        *)
ProbeForInformerFails(p, kind, next) ==
    /\ pc[p] = Inform[kind] \/ (kind = "Service" /\ pc[p] = "review")
    /\ Goto(p, next)
    /\ UNCHANGED <<given, zapLevel, filtered, watched, leases, misled, world>>
    /\ Fault

(* Mutant: the answer of the review is not looked at.                      *)
CheckPermissionIgnored(p) ==
    /\ pc[p] = "review"
    /\ Goto(p, "syncing")
    /\ Watch(p, {"Service"})
    /\ UNCHANGED <<given, zapLevel, filtered, leases, misled, world, faults>>

(* A review of the access to one namespace, the value of WATCH_NAMESPACE.  *)
CheckPermission(p) ==
    /\ pc[p] = "review"
    /\ Goto(p, "syncing")
    /\ Watch(p, IF Allowed("Service", Lookup(given[p].watch)) THEN {"Service"} ELSE {})
    /\ UNCHANGED <<given, zapLevel, filtered, leases, misled, world, faults>>

(* mgr.Start waits until every informer has listed its objects, in every   *)
(* namespace of the cache, and then for the lease, if there is one.        *)
Forbidden(p) ==
    {k \in watched[p] : \E ns \in Namespaces(given[p]) : ~Allowed(k, ns)}

CachesSync(p) ==
    /\ pc[p] = "syncing"
    /\ Forbidden(p) = {}
    /\ Goto(p, IF LeaderElection(given[p]) THEN "electing" ELSE "leading")
    /\ UNCHANGED <<given, zapLevel, filtered, watched, leases, misled, world, faults>>

(* No lease can be written in a namespace of blanks.                       *)
Obtainable(lock) ==
    /\ TrimSpace(lock.namespace) # ""
    /\ \A l \in leases : l.lock # lock

Elect(p) ==
    /\ pc[p] = "electing"
    /\ Obtainable(Lock(given[p]))
    /\ Goto(p, "leading")
    /\ leases' = leases \union {[lock |-> Lock(given[p]), by |-> p]}
    /\ UNCHANGED <<given, zapLevel, filtered, watched, misled, world, faults>>

(* A process that is told to stop gives the lease back; one that crashes   *)
(* leaves it to expire.                                                    *)
Stop(p) ==
    /\ pc[p] # "down"
    /\ End(p)
    /\ leases' = {l \in leases : l.by # p}
    /\ UNCHANGED faults

Crash(p) ==
    /\ pc[p] # "down"
    /\ End(p)
    /\ leases' = {[lock |-> l.lock, by |-> IF l.by = p THEN None ELSE l.by] : l \in leases}
    /\ Fault

Expire ==
    /\ leases' = {l \in leases : l.by # None}
    /\ leases' # leases
    /\ UNCHANGED <<pc, given, zapLevel, filtered, watched, misled, world, faults>>

-----------------------------------------------------------------------------
(* What a process does by itself once it was started.                      *)
Proceed(p) ==
    \/ NewClientWithConfig(p)
    \/ InvalidLabel(p)
    \/ ProbeForSelector(p, "Service", Select.CronJob)
    \/ ProbeForSelector(p, "CronJob", "manager")
    \/ ProbeForSelectorFails(p, "Service", Select.CronJob)
    \/ ProbeForSelectorFails(p, "CronJob", "manager")
    \/ NewManager(p)
    \/ GetCronJobInformer(p)
    \/ GetServiceInformer(p)
    \/ ProbeForInformerFails(p, "CronJob", Inform.Service)
    \/ ProbeForInformerFails(p, "Service", "syncing")
    \/ CheckPermission(p)
    \/ CachesSync(p)
    \/ Elect(p)

Next ==
    \/ \E p \in Procs :
        \/ \E s \in Settings : Spawn(p, s)
        \/ Proceed(p)
        \/ ExitOnError(p)
        \/ Stop(p)
        \/ Crash(p)
    \/ Expire
    \/ \E kind \in {"CronJob", "Service"} : ChangeAPI(kind)

(* A process that was started goes on; a lease nobody renews expires.      *)
Spec == Init /\ [][Next]_vars /\ \A p \in Procs : WF_vars(Proceed(p)) /\ WF_vars(Expire)

-----------------------------------------------------------------------------
(* Properties.                                                             *)

Stages == {"down", "bootstrap", "manager", "review",
           "syncing", "electing", "leading"}
          \union {Select[k] : k \in DOMAIN Select} \union {Inform[k] : k \in DOMAIN Inform}

(* Variables have their types, a level of zap its eight bits.              *)
TypeOK ==
    /\ pc \in [Procs -> Stages]
    /\ given \in [Procs -> Settings \union {NoSetting}]
    /\ \A p \in Procs : FitsInt8(zapLevel[p])
    /\ filtered \in [Procs -> SUBSET Kinds]
    /\ watched \in [Procs -> SUBSET Kinds]
    /\ misled \in [Procs -> SUBSET Kinds]
    /\ \A l \in leases : l.by \in Procs \union {None}
    /\ cluster \in Cluster
    /\ changes \in 0 .. MaxChanges
    /\ faults \in 0 .. MaxFaults

(* Processes that are told the same NAMESPACE, are to elect a leader and   *)
(* leave the name of the lock to the operator never reconcile at the same  *)
(* time, whatever else differs between them: a rollout that changes what   *)
(* is watched has one reconciler.                                          *)
SameOperator(p, q) ==
    /\ Lookup(given[p].namespace) # ""
    /\ given[p].namespace = given[q].namespace
    /\ \A r \in {p, q} : given[r].flag /\ given[r].id = "" /\ given[r].operator = Absent

OneReconciler ==
    \A p, q \in Procs :
        pc[p] = "leading" /\ pc[q] = "leading" /\ SameOperator(p, q) => p = q

(* With the default label, the handlers of the importer are given objects  *)
(* that carry it (the name of the CamelApp is its value), unless the two   *)
(* probes for a kind disagreed because one failed or the API came between. *)
HandlersSeeApps ==
    \A p \in Procs :
        GetAppLabelSelector(given[p]) = AppLabel =>
            watched[p] \ filtered[p] \subseteq misled[p]

(* A process polls a CamelApp again, at the interval that holds for it,    *)
(* unless that is a number which is not positive or too large for a        *)
(* duration: texts that are no numbers never end the polling.              *)
PollsAgain ==
    \A p \in Procs, annotation \in Annotations :
        LET asked == IF annotation \in Int THEN annotation
                     ELSE IF given[p].interval \in Int THEN given[p].interval ELSE 60
        IN  pc[p] = "leading" /\ asked > 0 /\ asked * Second < Limit =>
                getPollingInterval(given[p], annotation) = asked * Second

(* A process that was started comes to reconcile, or ends, or waits for a  *)
(* lock, unless it may not watch the Deployments or CronJobs it imports.   *)
(* Knative Services never keep it waiting where its caches look in one     *)
(* place, for it has asked whether it may watch them there.                *)
Starved(p) ==
    /\ pc[p] = "syncing"
    /\ Forbidden(p) # {}
    /\ Forbidden(p) = {"Service"} => \E ns \in Namespaces(given[p]) : ns # given[p].watch

ComesUp ==
    \A p \in Procs :
        pc[p] = "bootstrap" ~>
            \/ pc[p] \in {"leading", "down"}
            \/ pc[p] = "electing" /\ ~Obtainable(Lock(given[p]))
            \/ Starved(p)
================================================================================
