--------------------------- MODULE InformerFactory ---------------------------
(***************************************************************************)
(* The shared informer factory and the lister of CamelApps.  One lock      *)
(* protects the maps of the factory, and no call keeps it while it waits,  *)
(* so that what a call does under it is one step.  An informer runs in a   *)
(* goroutine of its own until the stop channel of the caller that started  *)
(* it is closed.                                                           *)
(***************************************************************************)
EXTENDS ClientCalls

CONSTANTS Kinds  \* types of objects

ASSUME KindsAssumption == IsFiniteSet(Kinds)

VARIABLES
    wants,             \* the kind each caller has taken an informer of, or Nil
    informers,         \* kinds the factory has an informer of
    startedInformers,  \* kinds whose informer has been started
    wg,                \* goroutines the factory waits for
    shuttingDown,      \* Shutdown has been called
    routine,           \* the goroutine of an informer
    stopCh,            \* whose stop channel it was started with
    closed,            \* callers that have closed their stop channel
    hasSynced,         \* kinds whose cache has been filled
    waiting            \* started informers a caller waits for

factoryVars == <<wants, informers, startedInformers, wg, shuttingDown, routine, stopCh,
                 closed, hasSynced, waiting>>

FactoryTypeOK ==
    /\ wants \in [Callers -> Kinds \union {Nil}]
    /\ informers \subseteq Kinds
    /\ startedInformers \subseteq informers
    /\ wg \in 0 .. Cardinality(Kinds)
    /\ shuttingDown \in BOOLEAN
    /\ routine \in [Kinds -> {"none", "started", "running", "ended"}]
    /\ stopCh \in [Kinds -> Callers \union {Nil}]
    /\ closed \subseteq Callers
    /\ hasSynced \subseteq startedInformers
    /\ waiting \in [Callers -> SUBSET Kinds]

FactoryInit ==
    /\ wants = [c \in Callers |-> Nil]
    /\ informers = {}
    /\ startedInformers = {}
    /\ wg = 0
    /\ shuttingDown = FALSE
    /\ routine = [k \in Kinds |-> "none"]
    /\ stopCh = [k \in Kinds |-> Nil]
    /\ closed = {}
    /\ hasSynced = {}
    /\ waiting = [c \in Callers |-> {}]

InformerFor(c) ==
    /\ \E k \in Kinds :
         /\ informers' = informers \union {k}
         /\ wants' = [wants EXCEPT ![c] = k]
    /\ Go(c, "informer", "start")
    /\ UNCHANGED <<startedInformers, wg, shuttingDown, routine, stopCh, closed,
                   hasSynced, waiting, object, server, alive, faults>>

(* A goroutine for each of these informers, on the stop channel of c. *)
Launch(c, kinds) ==
    /\ wg' = wg + Cardinality(kinds)
    /\ routine' = [k \in Kinds |-> IF k \in kinds THEN "started" ELSE routine[k]]
    /\ stopCh' = [k \in Kinds |-> IF k \in kinds THEN c ELSE stopCh[k]]

(* A mutant: the informers are marked as started only once they run. *)
StartUnmarked(c) ==
    /\ ~shuttingDown
    /\ Launch(c, informers \ startedInformers)
    /\ Go(c, "start", "sync")
    /\ UNCHANGED <<wants, informers, startedInformers, shuttingDown, closed, hasSynced,
                   waiting, object, server, alive, faults>>

(* A mutant: the factory starts informers while it shuts down. *)
StartWhenever(c) ==
    /\ Launch(c, informers \ startedInformers)
    /\ startedInformers' = informers
    /\ Go(c, "start", "sync")
    /\ UNCHANGED <<wants, informers, shuttingDown, closed, hasSynced, waiting,
                   object, server, alive, faults>>

(* A mutant: every informer is started, each time. *)
StartAll(c) ==
    /\ ~shuttingDown
    /\ Launch(c, informers)
    /\ startedInformers' = informers
    /\ Go(c, "start", "sync")
    /\ UNCHANGED <<wants, informers, shuttingDown, closed, hasSynced, waiting,
                   object, server, alive, faults>>

(* The informers other callers have asked for are started as well. *)
Start(c) ==
    /\ ~shuttingDown
    /\ Launch(c, informers \ startedInformers)
    /\ startedInformers' = informers
    /\ Go(c, "start", "sync")
    /\ UNCHANGED <<wants, informers, shuttingDown, closed, hasSynced, waiting,
                   object, server, alive, faults>>

StartTooLate(c) ==
    /\ shuttingDown
    /\ Go(c, "start", "sync")
    /\ UNCHANGED <<factoryVars, object, server, alive, faults>>

(* WaitForCacheSync looks up, under the lock, what it has to wait for. *)
BeginWait(c) ==
    /\ waiting' = [waiting EXCEPT ![c] = informers \intersect startedInformers]
    /\ Go(c, "sync", "wait")
    /\ UNCHANGED <<wants, informers, startedInformers, wg, shuttingDown, routine, stopCh,
                   closed, hasSynced, object, server, alive, faults>>

(* Every one of them has synced, if there are any: the caller goes on. *)
WaitForCacheSync(c) ==
    /\ waiting[c] \subseteq hasSynced
    /\ Go(c, "wait", "list")
    /\ UNCHANGED <<factoryVars, object, server, alive, faults>>

(* The stop channel ended the wait: an entry of the result is FALSE. *)
WaitStopped(c) ==
    /\ c \in closed
    /\ ~ waiting[c] \subseteq hasSynced
    /\ Go(c, "wait", "shutdown")
    /\ UNCHANGED <<factoryVars, object, server, alive, faults>>

(* informer.Run in its goroutine *)
Run(k) ==
    /\ alive
    /\ routine[k] = "started"
    /\ routine' = [routine EXCEPT ![k] = "running"]
    /\ UNCHANGED <<wants, informers, startedInformers, wg, shuttingDown, stopCh, closed,
                   hasSynced, waiting, callVars>>

(* The first list has filled its cache. *)
Sync(k) ==
    /\ alive
    /\ routine[k] = "running"
    /\ stopCh[k] \notin closed
    /\ hasSynced' = hasSynced \union {k}
    /\ k \notin hasSynced
    /\ UNCHANGED <<wants, informers, startedInformers, wg, shuttingDown, routine, stopCh,
                   closed, waiting, callVars>>

(* The deferred wg.Done() *)
RunEnds(k) ==
    /\ alive
    /\ routine[k] = "running"
    /\ stopCh[k] \in closed
    /\ routine' = [routine EXCEPT ![k] = "ended"]
    /\ wg' = wg - 1
    /\ UNCHANGED <<wants, informers, startedInformers, shuttingDown, stopCh, closed, hasSynced,
                   waiting, callVars>>

(* A caller gives up while it waits. *)
CancelEarly(c) ==
    /\ alive
    /\ at[c] = "wait"
    /\ c \notin closed
    /\ closed' = closed \union {c}
    /\ UNCHANGED <<wants, informers, startedInformers, wg, shuttingDown, routine, stopCh,
                   hasSynced, waiting, callVars>>

(* A mutant: the order of the deferred calls in the comment of factory.go, *)
(* where the factory is shut down before the channel is closed.            *)
ShutdownBeforeCancel(c) ==
    /\ shuttingDown' = TRUE
    /\ Go(c, "shutdown", "drain")
    /\ UNCHANGED <<wants, informers, startedInformers, wg, routine, stopCh, closed, hasSynced,
                   waiting, object, server, alive, faults>>

(* It is done, closes its stop channel and shuts the factory down. *)
Shutdown(c) ==
    /\ closed' = closed \union {c}
    /\ shuttingDown' = TRUE
    /\ Go(c, "shutdown", "drain")
    /\ UNCHANGED <<wants, informers, startedInformers, wg, routine, stopCh, hasSynced,
                   waiting, object, server, alive, faults>>

(* f.wg.Wait() *)
ShutdownReturns(c) ==
    /\ wg = 0
    /\ Go(c, "drain", "returned")
    /\ UNCHANGED <<factoryVars, object, server, alive, faults>>
=============================================================================
