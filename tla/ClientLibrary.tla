---------------------------- MODULE ClientLibrary ----------------------------
(***************************************************************************)
(* The client library used by several goroutines of one process: clients,  *)
(* the shared informer factory, copies of the objects it lists, the        *)
(* applier they share, and configurations for the typed clients.           *)
(***************************************************************************)
EXTENDS Clients, InformerFactory, Applier, ApplyConfigurations

VARIABLES
    garbled,  \* a typed client got another configuration than asked for
    touched,  \* pieces of the cached CamelApp a caller has written to
    wanted,   \* history: what a call of Apply was given
    met       \* history: the fields the server has had as wanted during that call

vars == <<callVars, clientVars, factoryVars, applierVars, garbled, touched, wanted, met>>

TypeOK ==
    /\ CallsTypeOK
    /\ ClientsTypeOK
    /\ FactoryTypeOK
    /\ ApplierTypeOK
    /\ garbled \in BOOLEAN
    /\ touched \subseteq Pieces
    /\ wanted \in [Callers -> Contents]
    /\ met \in [Callers -> SUBSET Fields]

Init ==
    /\ CallsInit
    /\ ClientsInit
    /\ FactoryInit
    /\ ApplierInit
    /\ garbled = FALSE
    /\ touched = {}
    /\ wanted = [c \in Callers |-> Blank]
    /\ met = [c \in Callers |-> {}]

(* The caller makes any series of calls and gives what it has built to the *)
(* typed client, which encodes it.                                         *)
Configure(c) ==
    /\ \E asIs \in Outcomes : garbled' = (garbled \/ ~asIs)
    /\ Go(c, "configure", "finished")
    /\ UNCHANGED <<object, server, alive, faults>>

(* The caller copies a CamelApp the lister returns and writes to a piece   *)
(* of its copy.                                                            *)
ListAndCopy(c) ==
    /\ \E p \in Pieces : touched' = touched \union ({p} \intersect SharedPieces[c])
    /\ Go(c, "list", "shutdown")
    /\ UNCHANGED <<object, server, alive, faults>>

(* The caller makes the object it applies. *)
Prepare(c) ==
    /\ \E made \in Objects : object' = [object EXCEPT ![c] = made]
    /\ Go(c, "prepare", "use")
    /\ UNCHANGED <<touched, server, alive, faults>>

NewClientWithConfig(c) ==
    \/ Lock(c) \/ IsVersionRegistered(c) \/ AddToScheme(c) \/ Registered(c) \/ Connect(c)

MapGroups(c) == Discover(c) \/ KnowsMapper(c) \/ Mapped(c)

UseFactory(c) ==
    \/ InformerFor(c) \/ Start(c) \/ StartTooLate(c) \/ BeginWait(c)
    \/ WaitForCacheSync(c) \/ WaitStopped(c) \/ Shutdown(c) \/ ShutdownReturns(c)

TryServerSideApply(c) ==
    \/ BeginApply(c) \/ LockOnce(c) \/ Wake(c) \/ Sleep(c) \/ CheckDone(c)
    \/ ProbeSucceeds(c) \/ ProbeUnsupported(c) \/ UnlockOnce(c)
    \/ UnlockOfUnlocked(c) \/ ResetOnce(c)

Apply(c) ==
    \/ TryServerSideApply(c) \/ ProbeWasEnough(c) \/ ServerSide(c) \/ ClientSide(c)
    \/ ServerSideApply(c) \/ Create(c) \/ AlreadyExists(c) \/ GetEqual(c) \/ Get(c) \/ Patch(c)
    \/ ApplyReturns(c)

(* A step of the code of a caller, without failures. *)
Proceed(c) ==
    \/ (NewClientWithConfig(c) \/ MapGroups(c)) /\ UNCHANGED <<factoryVars, applierVars, garbled, touched>>
    \/ UseFactory(c) /\ UNCHANGED <<clientVars, applierVars, garbled, touched>>
    \/ (ListAndCopy(c) \/ Prepare(c)) /\ UNCHANGED <<clientVars, factoryVars, applierVars, garbled>>
    \/ Configure(c) /\ UNCHANGED <<clientVars, factoryVars, applierVars, touched>>
    \/ Apply(c) /\ UNCHANGED <<clientVars, factoryVars, garbled, touched>>

(* A step of a goroutine the library has started. *)
Background ==
    \/ /\ \E k \in Kinds : Run(k) \/ Sync(k) \/ RunEnds(k)
       /\ UNCHANGED <<clientVars, applierVars, garbled, touched>>
    \/ /\ \E c \in Callers : DiscoverGroupResources(c)
       /\ UNCHANGED <<factoryVars, applierVars, garbled, touched>>

Trouble(c) ==
    \/ (ConnectFails(c) \/ ServerGroupsFail(c) \/ DiscoverGroupFails(c)) /\ UNCHANGED <<factoryVars, applierVars, garbled, touched>>
    \/ CancelEarly(c) /\ UNCHANGED <<clientVars, applierVars, garbled, touched>>
    \/ (ProbeFails(c) \/ RequestFails(c)) /\ UNCHANGED <<clientVars, factoryVars, garbled, touched>>

(* What a call of Apply was given, from its start to its end, and which of *)
(* those fields the server has had since.                                  *)
Outside == {"finished"}

History ==
    /\ wanted' = [c \in Callers |->
         IF at'[c] \in Outside THEN Blank ELSE IF at[c] = "apply" THEN object[c] ELSE wanted[c]]
    /\ met' = [c \in Callers |->
         IF at'[c] \in Outside \/ at[c] = "apply" THEN {}
         ELSE met[c] \union {f \in Fields : server'.exists /\ server'.fields[f] = wanted[c][f]}]

Next ==
    /\ Background \/ \E c \in Callers : Proceed(c) \/ Trouble(c)
    /\ History

(* The scheduler of Go runs every goroutine, and the API server answers.   *)
Spec ==
    /\ Init
    /\ [][Next]_vars
    /\ \A c \in Callers : WF_vars(Proceed(c) /\ History)
    /\ WF_vars(Background /\ History)

----------------------------------------------------------------------------
(* The scheme is not written while another caller writes it or has a       *)
(* client whose calls look types up in it (client.go:110 to 124).          *)
UsesScheme == {"apply", "lock", "woken", "locked", "probe", "decide", "serverSideApply",
               "create", "get", "patch"}

SchemeStable ==
    \A c \in writers : \A d \in Callers \ {c} : d \notin writers /\ at[d] \notin UsesScheme

(* A mapper in use knows every group the server has and it is allowed to   *)
(* look at (fastmapper.go:80).                                             *)
MapperComplete ==
    \A c \in FastDiscovery : at[c] \in UsesScheme =>
      mapper[c] = Groups \intersect FastMapperAllowedAPIGroups

(* Unless the factory is shut down, a caller that waited for the caches    *)
(* lists from one that has been filled, whoever started it                 *)
(* (factory.go:159).                                                       *)
ListsSynced ==
    \A c \in Callers : at[c] = "list" /\ ~shuttingDown => wants[c] \in hasSynced

(* Once a call of Shutdown has returned, no informer runs or will run, the *)
(* ones of other callers included (factory.go:150).                        *)
ShutdownFinal ==
    (\E c \in Callers : at[c] = "returned") => \A k \in Kinds : routine[k] \notin {"started", "running"}

(* What callers write to their copies of listed objects never reaches the  *)
(* cache that the others read (camelapp.go:30, zz_generated.deepcopy.go).  *)
CacheUntouched == touched = {}

(* A typed client is given what the comments of the With functions promise *)
(* for the calls that were made: the last value of a field, all entries of *)
(* a map with the last value of each key, all elements of a list in order. *)
(* A pod is copied when it is added, what it points to is not, so that     *)
(* later calls on the one are lost and on the other are not                *)
(* (camelapp.go:152, camelappstatus.go:70).                                *)
BuiltAsAsked == ~garbled

(* Each field of an object for which Apply returned nil was on the server  *)
(* with that value at some time during the call, whoever applied the same  *)
(* object meanwhile and however the Once was raced for (apply.go:53).      *)
EveryFieldApplied ==
    \A c \in Callers : at[c] = "applied" =>
      \A f \in Fields : wanted[c][f] # Nil => f \in met[c]

(* The mutex of the Once, and the choice of client side apply, go wrong    *)
(* only where an attempt failed with an error other than 415: without one, *)
(* no caller crashes the process or goes on with client side apply on a    *)
(* capable server (apply.go:61 to 74).                                     *)
OrderlyWithoutErrors ==
    faults = 0 => alive /\ (capable => fellBack = {})

(* On a server without server side apply no field is ever taken away: a    *)
(* typed resource that leaves a field out does not delete what others have *)
(* put there (patch.go:58).  The patch of an unstructured resource, whose  *)
(* nulls are not removed (patch.go:45 to 47), is left out of the model.    *)
ClientSideKeepsFields ==
    [][~capable => \A f \in Fields : server.fields[f] # Nil => server'.fields[f] # Nil]_vars

(* Every caller gets to its end, but for three ways out of the code: the   *)
(* process has died, the Once was overwritten (a sleeper may be            *)
(* forgotten), or an informer was stopped, by the caller that happened to  *)
(* start it, before its cache was filled.                                  *)
StoppedUnsynced == \E k \in Kinds : routine[k] = "ended" /\ k \notin hasSynced

CallersFinish ==
    \A c \in Callers : <>(at[c] \in {"returned", "finished"} \/ ~alive \/ raced \/ StoppedUnsynced)
=============================================================================
