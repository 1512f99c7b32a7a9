------------------------------- MODULE Applier -------------------------------
(***************************************************************************)
(* ServerOrClientSideApplier, shared by its callers.  The first call finds *)
(* out, within a sync.Once, whether the server knows server side apply;    *)
(* the others wait for it.  When that call fails for another reason, the   *)
(* sync.Once is overwritten, without a lock, by the caller that has just   *)
(* left it (line 67).                                                      *)
(*                                                                         *)
(* The sync.Once is a flag and a mutex: done, locked and the number of     *)
(* sleeping callers an Unlock knows of.                                    *)
(***************************************************************************)
EXTENDS ClientCalls

VARIABLES
    capable,   \* the server knows server side apply
    done,      \* the function of the Once has returned
    locked,    \* the mutex of the Once
    waiters,   \* callers its mutex would wake
    hasServerSideApply,  \* Nil before it is known
    once,      \* this call ran the function
    err,       \* it failed, and not because the server is too old
    seen,      \* what client side apply read
    raced,     \* history: the Once was overwritten
    fellBack   \* history: callers whose last call went on with client side apply

ASSUME NilAssumption == Nil \notin BOOLEAN

applierVars == <<capable, done, locked, waiters, hasServerSideApply, once, err, seen, raced,
                 fellBack>>

ApplierTypeOK ==
    /\ {capable, done, locked, raced} \subseteq BOOLEAN
    /\ waiters \in 0 .. Cardinality(Callers)
    /\ hasServerSideApply \in BOOLEAN \union {Nil}
    /\ once \in [Callers -> BOOLEAN]
    /\ err \in [Callers -> BOOLEAN]
    /\ seen \in [Callers -> Contents]
    /\ fellBack \subseteq Callers

ApplierInit ==
    /\ capable \in BOOLEAN
    /\ done = FALSE
    /\ locked = FALSE
    /\ waiters = 0
    /\ hasServerSideApply = Nil
    /\ once = [c \in Callers |-> FALSE]
    /\ err = [c \in Callers |-> FALSE]
    /\ seen = [c \in Callers |-> Blank]
    /\ raced = FALSE
    /\ fellBack = {}

----------------------------------------------------------------------------
(* What the API server and the patches do. *)

(* patch.ApplyPatch: the fields that are neither null nor empty. *)
ApplyPatch(resource) == {f \in Fields : resource[f] # Nil}

(* A mutant: nulls stay in the patch and delete what the server has. *)
MergePatchWithNulls(read, resource) == {f \in Fields : read[f] # resource[f]}

(* patch.MergePatch: the fields that differ from what was read, without    *)
(* those the resource has no value for.                                    *)
MergePatch(read, resource) == {f \in Fields : read[f] # resource[f] /\ resource[f] # Nil}

Overlay(fields, patch, resource) ==
    [f \in Fields |-> IF f \in patch THEN resource[f] ELSE fields[f]]

(* Server side apply takes a field back that the manager owns and no       *)
(* longer applies.                                                         *)
Applied(resource) ==
    LET patch == ApplyPatch(resource)
        dropped == server.owned \ patch
    IN  [exists |-> TRUE, owned |-> patch,
         fields |-> [f \in Fields |-> IF f \in dropped THEN Nil
                                      ELSE Overlay(server.fields, patch, resource)[f]]]

(* What a client makes of an object that is not there, and of one that is. *)
Created(resource) == [exists |-> TRUE, owned |-> {}, fields |-> resource]

Patched(read, resource) ==
    [server EXCEPT !.fields = Overlay(@, MergePatch(read, resource), resource)]

(* The answer is decoded into the resource of the caller, which keeps the  *)
(* fields the answer does not have.                                        *)
Decode(c, fields) ==
    object' = [object EXCEPT ![c] = [f \in Fields |-> IF fields[f] = Nil THEN @[f] ELSE fields[f]]]

----------------------------------------------------------------------------
(* tryServerSideApply.Do *)

BeginApply(c) ==
    /\ once' = [once EXCEPT ![c] = FALSE]
    /\ err' = [err EXCEPT ![c] = FALSE]
    /\ fellBack' = fellBack \ {c}
    /\ Go(c, "apply", IF done THEN "decide" ELSE "lock")
    /\ UNCHANGED <<capable, done, locked, waiters, hasServerSideApply, seen, raced,
                   object, server, alive, faults>>

LockOnce(c) ==
    /\ ~locked
    /\ locked' = TRUE
    /\ Go(c, "lock", "locked")
    /\ UNCHANGED <<capable, done, waiters, hasServerSideApply, once, err, seen, raced, fellBack,
                   object, server, alive, faults>>

(* Its sleep is over: it tries again. *)
Wake(c) ==
    /\ Go(c, "woken", "lock")
    /\ UNCHANGED <<applierVars, object, server, alive, faults>>

Sleep(c) ==
    /\ locked
    /\ waiters' = waiters + 1
    /\ Go(c, "lock", "asleep")
    /\ UNCHANGED <<capable, done, locked, hasServerSideApply, once, err, seen, raced, fellBack,
                   object, server, alive, faults>>

CheckDone(c) ==
    /\ once' = [once EXCEPT ![c] = ~done]
    /\ Go(c, "locked", IF done THEN "unlock" ELSE "probe")
    /\ UNCHANGED <<capable, done, locked, waiters, hasServerSideApply, err, seen, raced,
                   fellBack, object, server, alive, faults>>

ProbeSucceeds(c) ==
    /\ capable
    /\ server' = Applied(object[c])
    /\ Decode(c, server'.fields)
    /\ hasServerSideApply' = TRUE
    /\ Go(c, "probe", "unlock")
    /\ UNCHANGED <<capable, done, locked, waiters, once, err, seen, raced, fellBack, alive,
                   faults>>

(* A mutant: the error of an old server is not cleared. *)
ProbeUnsupportedKept(c) ==
    /\ ~capable
    /\ hasServerSideApply' = FALSE
    /\ err' = [err EXCEPT ![c] = TRUE]
    /\ Go(c, "probe", "unlock")
    /\ UNCHANGED <<capable, done, locked, waiters, once, seen, raced, fellBack, object, server,
                   alive, faults>>

(* 415: Unsupported Media Type *)
ProbeUnsupported(c) ==
    /\ ~capable
    /\ hasServerSideApply' = FALSE
    /\ Go(c, "probe", "unlock")
    /\ UNCHANGED <<capable, done, locked, waiters, once, err, seen, raced, fellBack, object,
                   server, alive, faults>>

(* Another error, perhaps after the server has done its part. *)
ProbeFails(c) ==
    /\ \/ server' = server
       \/ capable /\ server' = Applied(object[c])
    /\ err' = [err EXCEPT ![c] = TRUE]
    /\ Fail(c, "probe", "unlock")
    /\ UNCHANGED <<capable, done, locked, waiters, hasServerSideApply, once, seen, raced,
                   fellBack, object, alive>>

(* The function is done, the mutex unlocked, and one sleeper wakes up. *)
UnlockOnce(c) ==
    /\ locked
    /\ done' = (done \/ once[c])
    /\ locked' = FALSE
    /\ IF waiters = 0
       THEN waiters' = 0 /\ Go(c, "unlock", "decide")
       ELSE /\ waiters' = waiters - 1
            /\ alive /\ at[c] = "unlock"
            /\ \E d \in Callers :
                 at[d] = "asleep" /\ at' = [at EXCEPT ![c] = "decide", ![d] = "woken"]
    /\ UNCHANGED <<capable, hasServerSideApply, once, err, seen, raced, fellBack, object,
                   server, alive, faults>>

(* fatal error: sync: unlock of unlocked mutex *)
UnlockOfUnlocked(c) ==
    /\ ~locked
    /\ Die(c, "unlock")
    /\ UNCHANGED <<applierVars, object, server, faults>>

(* a.tryServerSideApply = sync.Once{}: the mutex forgets who holds it and  *)
(* who sleeps, and a caller that was about to be woken may sleep on.  The  *)
(* caller tries again, or gives up.                                        *)
ResetOnce(c) ==
    /\ err[c]
    /\ done' = FALSE
    /\ locked' = FALSE
    /\ waiters' = 0
    /\ raced' = TRUE
    /\ alive
    /\ at[c] = "decide"
    /\ \E again \in {"apply", "finished"}, lost \in SUBSET {d \in Callers : at[d] = "woken"} :
         at' = [d \in Callers |-> IF d = c THEN again ELSE IF d \in lost THEN "asleep" ELSE at[d]]
    /\ UNCHANGED <<capable, hasServerSideApply, once, err, seen, fellBack, object, server,
                   alive, faults>>

----------------------------------------------------------------------------
(* What follows the Once. *)

ProbeWasEnough(c) ==
    /\ ~err[c] /\ hasServerSideApply = TRUE /\ once[c]
    /\ Go(c, "decide", "applied")
    /\ UNCHANGED <<applierVars, object, server, alive, faults>>

ServerSide(c) ==
    /\ ~err[c] /\ hasServerSideApply = TRUE /\ ~once[c]
    /\ Go(c, "decide", "serverSideApply")
    /\ UNCHANGED <<applierVars, object, server, alive, faults>>

ClientSide(c) ==
    /\ ~err[c] /\ hasServerSideApply # TRUE
    /\ fellBack' = fellBack \union {c}
    /\ Go(c, "decide", "create")
    /\ UNCHANGED <<capable, done, locked, waiters, hasServerSideApply, once, err, seen, raced,
                   object, server, alive, faults>>

ServerSideApply(c) ==
    /\ capable
    /\ server' = Applied(object[c])
    /\ Decode(c, server'.fields)
    /\ Go(c, "serverSideApply", "applied")
    /\ UNCHANGED <<applierVars, alive, faults>>

Create(c) ==
    /\ ~server.exists
    /\ server' = Created(object[c])
    /\ Go(c, "create", "applied")
    /\ UNCHANGED <<applierVars, object, alive, faults>>

(* A mutant: an object that exists is taken for applied. *)
AlreadyExistsIsFine(c) ==
    /\ server.exists
    /\ Go(c, "create", "applied")
    /\ UNCHANGED <<applierVars, object, server, alive, faults>>

AlreadyExists(c) ==
    /\ server.exists
    /\ Go(c, "create", "get")
    /\ UNCHANGED <<applierVars, object, server, alive, faults>>

(* The object is as it should be: an empty patch is not sent. *)
GetEqual(c) ==
    /\ MergePatch(server.fields, object[c]) = {}
    /\ Decode(c, server.fields)
    /\ Go(c, "get", "applied")
    /\ UNCHANGED <<applierVars, server, alive, faults>>

Get(c) ==
    /\ MergePatch(server.fields, object[c]) # {}
    /\ seen' = [seen EXCEPT ![c] = server.fields]
    /\ Go(c, "get", "patch")
    /\ UNCHANGED <<capable, done, locked, waiters, hasServerSideApply, once, err, raced,
                   fellBack, object, server, alive, faults>>

Patch(c) ==
    /\ server' = Patched(seen[c], object[c])
    /\ Decode(c, server'.fields)
    /\ Go(c, "patch", "applied")
    /\ UNCHANGED <<applierVars, alive, faults>>

Requests == {"serverSideApply", "create", "get", "patch"}

(* A request fails, perhaps after the server has done its part: Apply      *)
(* returns the error, and may be called again.                             *)
RequestFails(c) ==
    /\ \E request \in Requests, again \in {"apply", "finished"} : Fail(c, request, again)
    /\ \/ server' = server
       \/ at[c] = "serverSideApply" /\ capable /\ server' = Applied(object[c])
       \/ at[c] = "create" /\ ~server.exists /\ server' = Created(object[c])
       \/ at[c] = "patch" /\ server' = Patched(seen[c], object[c])
    /\ UNCHANGED <<applierVars, object, alive>>

(* Apply has returned nil. *)
ApplyReturns(c) ==
    /\ Go(c, "applied", "finished")
    /\ UNCHANGED <<applierVars, object, server, alive, faults>>
=============================================================================
