------------------------------- MODULE Clients -------------------------------
(***************************************************************************)
(* NewClientWithConfig and the REST mapper of a client with fast           *)
(* discovery.  All clients of a process share the scheme of client-go,     *)
(* whose maps must not be written while they are used; the mapper is       *)
(* filled by one goroutine for each API group.                             *)
(***************************************************************************)
EXTENDS ClientCalls

CONSTANTS Groups,                      \* API groups the server has
          FastMapperAllowedAPIGroups,  \* groups the mapper looks at
          FastDiscovery                \* callers that ask for the fast mapper

ASSUME DiscoveryAssumption == FastDiscovery \subseteq Callers

VARIABLES
    newClientMutex,  \* who creates a client, or Nil
    registered,      \* the types of this project are in the scheme
    writers,         \* who writes to the scheme
    loading,         \* groups a goroutine of the caller's mapper still reads
    mapper           \* groups the mapper of a caller knows, Nil before its first use

clientVars == <<newClientMutex, registered, writers, loading, mapper>>

ClientsTypeOK ==
    /\ newClientMutex \in Callers \union {Nil}
    /\ registered \in BOOLEAN
    /\ writers \subseteq Callers
    /\ loading \in [Callers -> SUBSET Groups]
    /\ \A c \in Callers : mapper[c] = Nil \/ mapper[c] \subseteq Groups

ClientsInit ==
    /\ newClientMutex = Nil
    /\ registered = FALSE
    /\ writers = {}
    /\ loading = [c \in Callers |-> {}]
    /\ mapper = [c \in Callers |-> Nil]

Lock(c) ==
    /\ newClientMutex = Nil
    /\ newClientMutex' = c
    /\ Go(c, "new", "register")
    /\ UNCHANGED <<registered, writers, loading, mapper, object, server, alive, faults>>

IsVersionRegistered(c) ==
    /\ registered
    /\ Go(c, "register", "connect")
    /\ UNCHANGED <<clientVars, object, server, alive, faults>>

(* A mutant: every client writes the scheme. *)
AddToSchemeAgain(c) ==
    /\ writers' = writers \union {c}
    /\ Go(c, "register", "registering")
    /\ UNCHANGED <<newClientMutex, registered, loading, mapper, object, server, alive, faults>>

AddToScheme(c) ==
    /\ ~registered
    /\ writers' = writers \union {c}
    /\ Go(c, "register", "registering")
    /\ UNCHANGED <<newClientMutex, registered, loading, mapper, object, server, alive, faults>>

Registered(c) ==
    /\ registered' = TRUE
    /\ writers' = writers \ {c}
    /\ Go(c, "registering", "connect")
    /\ UNCHANGED <<newClientMutex, loading, mapper, object, server, alive, faults>>

(* The clientsets and the controller-runtime client are there, and the     *)
(* caller goes on to watch CamelApps, to apply an object or to give a      *)
(* configuration to the typed client.                                      *)
Connect(c) ==
    /\ newClientMutex' = Nil
    /\ \E work \in {"informer", "prepare", "configure"} : Go(c, "connect", work)
    /\ UNCHANGED <<registered, writers, loading, mapper, object, server, alive, faults>>

(* A bad configuration: the deferred Unlock runs. *)
ConnectFails(c) ==
    /\ newClientMutex' = Nil
    /\ Fail(c, "connect", "finished")
    /\ UNCHANGED <<registered, writers, loading, mapper, object, server, alive>>

(* The client is used for the first time: the lazy mapper reads the list   *)
(* of groups and starts a goroutine for each one it picks.                 *)
Discover(c) ==
    /\ c \in FastDiscovery
    /\ mapper[c] = Nil
    /\ loading' = [loading EXCEPT ![c] = Groups \intersect FastMapperAllowedAPIGroups]
    /\ mapper' = [mapper EXCEPT ![c] = {}]
    /\ Go(c, "use", "map")
    /\ UNCHANGED <<newClientMutex, registered, writers, object, server, alive, faults>>

(* The server does not answer with its groups.                             *)
ServerGroupsFail(c) ==
    /\ c \in FastDiscovery
    /\ mapper[c] = Nil
    /\ Fail(c, "use", "finished")
    /\ UNCHANGED <<clientVars, object, server, alive>>

(* Any other client finds its mapper loaded, or loads each group as it     *)
(* needs it.                                                               *)
KnowsMapper(c) ==
    /\ c \notin FastDiscovery \/ mapper[c] # Nil
    /\ Go(c, "use", "apply")
    /\ UNCHANGED <<clientVars, object, server, alive, faults>>

(* One of the goroutines of c's mapper has read its group. *)
DiscoverGroupResources(c) ==
    /\ alive
    /\ \E g \in loading[c] :
         /\ loading' = [loading EXCEPT ![c] = @ \ {g}]
         /\ mapper' = [mapper EXCEPT ![c] = @ \union {g}]
    /\ UNCHANGED <<newClientMutex, registered, writers, callVars>>

(* logrus.Fatal *)
DiscoverGroupFails(c) ==
    /\ loading[c] # {}
    /\ faults < MaxFaults
    /\ faults' = faults + 1
    /\ Die(c, at[c])
    /\ UNCHANGED <<clientVars, object, server>>

(* A mutant: the mapper is handed out without waiting for its goroutines. *)
MappedAtOnce(c) ==
    /\ Go(c, "map", "apply")
    /\ UNCHANGED <<clientVars, object, server, alive, faults>>

(* wg.Wait() *)
Mapped(c) ==
    /\ loading[c] = {}
    /\ Go(c, "map", "apply")
    /\ UNCHANGED <<clientVars, object, server, alive, faults>>

=============================================================================
