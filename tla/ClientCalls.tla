----------------------------- MODULE ClientCalls -----------------------------
(***************************************************************************)
(* What the parts of the client library share: the goroutines that call it *)
(* and the one object of the API server they work on.  Each goroutine      *)
(* creates a client and uses it for one of three things: to take an        *)
(* informer from the shared factory, list and copy a CamelApp and shut the *)
(* factory down; to apply an object; or to build a configuration for the   *)
(* typed client.                                                           *)
(***************************************************************************)
EXTENDS Integers, FiniteSets, CamelAppMemory

CONSTANTS Fields,     \* fields of an object, as paths of its JSON
          Objects,    \* objects callers may apply
          MaxFaults   \* bound on calls that fail

VARIABLES
    at,       \* where each goroutine is
    object,   \* its object: a field is Nil when it is absent, null or empty
    server,   \* the object of the API server, whose manager is the operator
    alive,    \* FALSE once the process has ended
    faults    \* calls that have failed

callVars == <<at, object, server, alive, faults>>

(* Where a goroutine can be: it creates its client; in the factory, the    *)
(* applier, or with a configuration; done.                                 *)
Places ==
    {"new", "register", "registering", "connect"}
    \union {"informer", "start", "sync", "wait", "list", "shutdown", "drain", "returned"}
    \union {"prepare", "use", "map", "apply", "lock", "asleep", "woken", "locked", "probe",
            "unlock", "decide", "serverSideApply", "create", "get", "patch", "applied"}
    \union {"configure", "finished"}

Values == {Nil, "initial", "edited"}
Contents == [Fields -> Values]
ASSUME ObjectsAssumption == Objects \subseteq Contents
ASSUME CallersAssumption == IsFiniteSet(Callers) /\ {Nil, Cache} \intersect Callers = {}
ASSUME FaultsAssumption == MaxFaults \in Nat

Initial == [f \in Fields |-> "initial"]
Blank == [f \in Fields |-> Nil]

CallsTypeOK ==
    /\ at \in [Callers -> Places]
    /\ object \in [Callers -> Contents]
    /\ server \in [exists: BOOLEAN, fields: Contents, owned: SUBSET Fields]
    /\ alive \in BOOLEAN
    /\ faults \in 0 .. MaxFaults

CallsInit ==
    /\ at = [c \in Callers |-> "new"]
    /\ object = [c \in Callers |-> Blank]
    /\ \E exists \in BOOLEAN :
         server = [exists |-> exists, owned |-> {},
                   fields |-> IF exists THEN Initial ELSE Blank]
    /\ alive = TRUE
    /\ faults = 0

(* Goroutine c is at one point of its program and moves to another. *)
Go(c, from, to) ==
    /\ alive
    /\ at[c] = from
    /\ at' = [at EXCEPT ![c] = to]

(* A call of c fails: the network, the API server, a bad configuration. *)
Fail(c, from, to) ==
    /\ faults < MaxFaults
    /\ Go(c, from, to)
    /\ faults' = faults + 1

(* The process ends, by an error the code or the runtime cannot survive. *)
Die(c, from) ==
    /\ alive
    /\ at[c] = from
    /\ alive' = FALSE
    /\ at' = at
=============================================================================
