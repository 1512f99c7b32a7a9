-------------------------- MODULE ClientLibraryProofs --------------------------
(***************************************************************************)
(* Proofs about the client library: for any number of goroutines, kinds of *)
(* objects, API groups and fields, and any number of failed calls.         *)
(*                                                                         *)
(* The invariant has a part for each thing the goroutines share: the       *)
(* scheme, the mappers, the informers, the Once, the object they apply.    *)
(* Each group of steps has a lemma for every part it can change, and a     *)
(* lemma that says where it leaves the goroutines, from which the parts it *)
(* does not change follow.                                                 *)
(***************************************************************************)
EXTENDS ClientLibrary, ApplyConfigurationsProofs

-----------------------------------------------------------------------------
(* The inductive invariant.                                                *)

(* Where a caller creates its client, under the mutex; where it is before  *)
(* it has used it; where it is within a call of Apply.                     *)
Creating == {"register", "registering", "connect"}
Unused == Creating \union {"new", "prepare", "use"}
Applying == UsesScheme \union {"asleep", "unlock", "applied"}

(* The types are added to the scheme under the mutex, once.                *)
SchemeInv ==
    /\ \A c \in Callers : at[c] \in Creating => newClientMutex = c
    /\ \A c \in Callers : c \in writers => at[c] = "registering"
    /\ \A c \in Callers : registered \/ at[c] \in {"new", "register", "registering"}
    /\ registered => writers = {}

(* A mapper is filled while its caller waits for it.                       *)
MapperInv ==
    /\ mapper = [c \in Callers |-> mapper[c]]
    /\ \A c \in Callers :
        /\ at[c] \in Unused => mapper[c] = Nil
        /\ loading[c] # {} => at[c] = "map"
        /\ at[c] = "map" => mapper[c] \union loading[c] = Groups \intersect FastMapperAllowedAPIGroups
        /\ c \in FastDiscovery /\ at[c] \in Applying =>
            mapper[c] = Groups \intersect FastMapperAllowedAPIGroups

(* The informers the factory waits for.                                    *)
Active == {k \in Kinds : routine[k] \in {"started", "running"}}

RoutineInv ==
    /\ wg = Cardinality(Active)
    /\ \A k \in Kinds : k \in startedInformers \/ routine[k] = "none"
    /\ \A c \in Callers :
        /\ at[c] \in {"drain", "returned"} => shuttingDown
        /\ at[c] = "returned" => wg = 0

(* What a caller has asked for is there, started and waited for.           *)
WaitInv ==
    \A c \in Callers :
        /\ at[c] \in {"start", "sync", "wait", "list"} => wants[c] \in informers
        /\ ~shuttingDown =>
            /\ at[c] \in {"sync", "wait", "list"} => wants[c] \in startedInformers
            /\ at[c] = "wait" => wants[c] \in waiting[c]
            /\ at[c] = "list" => wants[c] \in hasSynced

Holding == {"locked", "probe", "unlock"}
Asleep == {c \in Callers : at[c] = "asleep"}

(* The mutex of the Once, while it was not overwritten.                    *)
OnceInv ==
    /\ waiters <= Cardinality(Asleep)
    /\ ~raced => \A c, d \in Callers : at[c] \in Holding => locked /\ (at[d] \in Holding => d = c)

(* What is known of the server, and what holds while no call has failed.   *)
FaultlessInv ==
    /\ hasServerSideApply = TRUE => capable
    /\ faults = 0 =>
        /\ alive /\ ~raced
        /\ \A c \in Callers : ~err[c]
        /\ capable =>
            /\ fellBack = {}
            /\ done => hasServerSideApply = TRUE
            /\ \A c \in Callers : at[c] \in {"unlock", "decide"} => hasServerSideApply = TRUE

(* The fields the call of c was given have been on the server.             *)
Covered(c) == \A f \in Fields : wanted[c][f] # Nil => f \in met[c]

(* The probe of c has applied its object.                                  *)
Probed(c) == at[c] \in {"unlock", "decide"} /\ capable /\ once[c] /\ ~err[c]

(* What is known of the call of c, by where it is.                         *)
CallInv(c) ==
    /\ at[c] \in {"lock", "woken", "asleep", "locked", "probe"} => ~err[c]
    /\ at[c] = "probe" => once[c]
    /\ at[c] = "applied" \/ Probed(c) => Covered(c)
    /\ Probed(c) => hasServerSideApply = TRUE
    /\ at[c] \in Applying \ {"apply", "applied"} /\ ~Probed(c) => wanted[c] = object[c]
    /\ at[c] \in {"get", "patch"} => server.exists
    /\ at[c] = "patch" =>
        \A f \in Fields : object[c][f] # Nil /\ seen[c][f] = object[c][f] => f \in met[c]

ApplyInv ==
    /\ server.exists \/ server.fields = Blank
    /\ \A c \in Callers : CallInv(c)

IInv ==
    /\ TypeOK /\ SchemeInv /\ MapperInv /\ RoutineInv /\ WaitInv
    /\ OnceInv /\ FaultlessInv /\ ApplyInv

-----------------------------------------------------------------------------
(* The steps, by the part of the library that takes them.                  *)

(* Nobody comes to one of these places, or nobody leaves them either.      *)
NoEntry(places) == \A c \in Callers : at'[c] \in places => at'[c] = at[c]
Fixed(places) ==
    \A c \in Callers : at'[c] \in places \/ at[c] \in places => at'[c] = at[c]

ClientSteps(c) ==
    \/ NewClientWithConfig(c) \/ MapGroups(c) \/ ConnectFails(c) \/ ServerGroupsFail(c)
    \/ DiscoverGroupResources(c) \/ DiscoverGroupFails(c)

InformerSteps(k) == Run(k) \/ Sync(k) \/ RunEnds(k)

FactorySteps == \/ \E c \in Callers : UseFactory(c) \/ CancelEarly(c)
                \/ \E k \in Kinds : InformerSteps(k)

ApplierSteps(c) == Apply(c) \/ ProbeFails(c) \/ RequestFails(c)

OwnSteps(c) == Configure(c) \/ ListAndCopy(c) \/ Prepare(c)

(* A part leaves the state of the others alone.                            *)
LEMMA NextCases ==
    ASSUME Next
    PROVE  /\ History
           /\ \/ /\ \E c \in Callers : ClientSteps(c)
                 /\ UNCHANGED <<factoryVars, applierVars, garbled, touched>>
              \/ /\ FactorySteps
                 /\ UNCHANGED <<clientVars, applierVars, garbled, touched>>
              \/ /\ \E c \in Callers : ApplierSteps(c)
                 /\ UNCHANGED <<clientVars, factoryVars, garbled, touched>>
              \/ /\ \E c \in Callers : Configure(c)
                 /\ UNCHANGED <<clientVars, factoryVars, applierVars, touched>>
              \/ /\ \E c \in Callers : ListAndCopy(c) \/ Prepare(c)
                 /\ UNCHANGED <<clientVars, factoryVars, applierVars, garbled>>
BY DEF Next, Background, Proceed, Trouble, ClientSteps, FactorySteps, InformerSteps,
       ApplierSteps, OwnSteps

AtType == at \in [Callers -> Places]

FactoryPlaces == {"start", "sync", "wait", "list", "shutdown", "drain", "returned"}

(* A step that moves one caller leaves the places alone it does not touch. *)
LEMMA MoveFixed ==
    ASSUME AtType, NEW c \in Callers, NEW to, at' = [at EXCEPT ![c] = to],
           NEW places, at[c] \notin places, to \notin places
    PROVE  Fixed(places)
BY DEF AtType, Fixed

(* How a caller moves within each part.                                    *)
LEMMA ClientMoves ==
    ASSUME AtType, NEW c \in Callers, ClientSteps(c)
    PROVE  /\ UNCHANGED <<object, server>>
           /\ faults \in Nat => faults' \in Nat /\ (faults' = 0 => faults = 0 /\ alive' = alive)
           /\ Fixed((Applying \ {"apply"}) \union FactoryPlaces)
           /\ AtType'
<1> DEFINE places == (Applying \ {"apply"}) \union FactoryPlaces
           From == Unused \union {"map"}
           To == Unused \union {"map", "apply", "finished", "informer", "configure"}
<1>1. /\ UNCHANGED <<object, server>>
      /\ faults \in Nat => faults' \in Nat /\ (faults' = 0 => faults = 0 /\ alive' = alive)
      /\ at' = at \/ (at[c] \in From /\ \E to \in To : at' = [at EXCEPT ![c] = to])
    <2>1. CASE Lock(c) \/ IsVersionRegistered(c) \/ AddToScheme(c) \/ Registered(c)
        BY <2>1 DEF Lock, IsVersionRegistered, AddToScheme, Registered, Go, Unused, Creating
    <2>2. CASE Connect(c)
        BY <2>2 DEF Connect, Go, Unused, Creating
    <2>3. CASE ConnectFails(c) \/ ServerGroupsFail(c)
        BY <2>3 DEF ConnectFails, ServerGroupsFail, Fail, Go, Unused, Creating
    <2>4. CASE Discover(c) \/ KnowsMapper(c) \/ Mapped(c)
        BY <2>4 DEF Discover, KnowsMapper, Mapped, Go, Unused, Creating
    <2>5. CASE DiscoverGroupResources(c) \/ DiscoverGroupFails(c)
        BY <2>5 DEF DiscoverGroupResources, DiscoverGroupFails, Die, callVars
    <2> QED BY <2>1, <2>2, <2>3, <2>4, <2>5 DEF ClientSteps, NewClientWithConfig, MapGroups
<1>2. \A place \in From \union To : place \notin places
    BY DEF Unused, Creating, Applying, UsesScheme, FactoryPlaces
<1>3. Fixed(places)
    <2> HIDE DEF places, From, To
    <2>1. CASE at' = at
        BY <2>1 DEF Fixed
    <2>2. CASE at' # at
        BY <1>1, <1>2, <2>2, MoveFixed
    <2> QED BY <2>1, <2>2
<1>4. AtType'
    <2>1. To \subseteq Places
        BY DEF Places, Unused, Creating
    <2> HIDE DEF From, To
    <2> QED BY <1>1, <2>1 DEF AtType
<1> QED BY <1>1, <1>3, <1>4

LEMMA FactoryMoves ==
    ASSUME AtType, FactorySteps
    PROVE  /\ UNCHANGED <<object, server, alive, faults>>
           /\ Fixed(Applying \union Unused \union {"map"})
           /\ AtType'
<1> DEFINE places == Applying \union Unused \union {"map"}
           Inside == FactoryPlaces \union {"informer"}
<1>1. ASSUME NEW c \in Callers, UseFactory(c)
      PROVE  /\ UNCHANGED <<object, server, alive, faults>>
             /\ at[c] \in Inside /\ \E to \in Inside : at' = [at EXCEPT ![c] = to]
    BY <1>1 DEF UseFactory, InformerFor, Start, StartTooLate, BeginWait, WaitForCacheSync,
                WaitStopped, Shutdown, ShutdownReturns, Go, FactoryPlaces
<1>2. ASSUME (\E c \in Callers : CancelEarly(c)) \/ \E k \in Kinds : InformerSteps(k)
      PROVE  UNCHANGED callVars
    BY <1>2 DEF CancelEarly, InformerSteps, Run, Sync, RunEnds
<1>3. \A place \in Inside : place \notin places
    BY DEF Unused, Creating, Applying, UsesScheme, FactoryPlaces
<1>4. CASE \E c \in Callers : UseFactory(c)
    <2> HIDE DEF places, Inside
    <2>1. PICK c \in Callers : UseFactory(c)
        BY <1>4
    <2>2. Fixed(places)
        BY <1>1, <1>3, <2>1, MoveFixed
    <2>3. Inside \subseteq Places
        BY DEF Places, Inside, FactoryPlaces
    <2> QED BY <1>1, <2>1, <2>2, <2>3 DEF places, AtType
<1>5. CASE UNCHANGED callVars
    BY <1>5 DEF callVars, Fixed, AtType
<1> QED BY <1>2, <1>4, <1>5 DEF FactorySteps

LEMMA OwnMoves ==
    ASSUME AtType, NEW c \in Callers, OwnSteps(c)
    PROVE  /\ UNCHANGED <<server, alive, faults>>
           /\ Fixed(Applying \union Creating \union {"new", "map"})
           /\ NoEntry((FactoryPlaces \ {"shutdown"}) \union {"prepare"})
           /\ \A d \in Callers : at'[d] \in Unused => at[d] \in Unused
           /\ AtType'
<1> DEFINE places == Applying \union Creating \union {"new", "map"}
           entries == (FactoryPlaces \ {"shutdown"}) \union {"prepare"}
           From == {"configure", "list", "prepare"}
           To == {"finished", "shutdown", "use"}
<1>1. /\ UNCHANGED <<server, alive, faults>>
      /\ at[c] \in From /\ \E to \in To : at' = [at EXCEPT ![c] = to] /\ (to = "use" => at[c] = "prepare")
    BY DEF OwnSteps, Configure, ListAndCopy, Prepare, Go
<1>2. PICK to \in To : at' = [at EXCEPT ![c] = to] /\ (to = "use" => at[c] = "prepare")
    BY <1>1
<1>3. Fixed(places)
    <2>1. at[c] \notin places /\ to \notin places
        BY <1>1 DEF Creating, Applying, UsesScheme
    <2> HIDE DEF places
    <2> QED BY <1>2, <2>1, MoveFixed
<1>4. NoEntry(entries)
    <2>1. to \notin entries
        BY DEF FactoryPlaces
    <2> HIDE DEF entries
    <2> QED BY <1>2, <2>1 DEF NoEntry, AtType
<1>5. \A d \in Callers : at'[d] \in Unused => at[d] \in Unused
    <2>1. to \in Unused => at[c] \in Unused
        BY <1>2 DEF Unused, Creating
    <2> HIDE DEF To, From
    <2> QED BY <1>2, <2>1 DEF AtType
<1>6. AtType'
    BY <1>2 DEF AtType, Places
<1> QED BY <1>1, <1>3, <1>4, <1>5, <1>6

LEMMA ApplierMoves ==
    ASSUME AtType, NEW c \in Callers, ApplierSteps(c)
    PROVE  /\ Fixed(Unused \union FactoryPlaces \union {"map"})
           /\ \A d \in Callers : at'[d] \in Applying => at[d] \in Applying
           /\ AtType'
<1> DEFINE places == Unused \union FactoryPlaces \union {"map"}
           Inside == Applying \union {"finished"}
<1>1. \/ at' = at
      \/ at[c] \in Applying /\ \E to \in Inside : at' = [at EXCEPT ![c] = to]
      \/ /\ at' = [d \in Callers |-> at'[d]]
         /\ \A d \in Callers :
              at'[d] # at[d] => at[d] \in Applying /\ at'[d] \in Inside
    <2>1. CASE BeginApply(c) \/ LockOnce(c) \/ Wake(c) \/ Sleep(c) \/ CheckDone(c)
        BY <2>1 DEF BeginApply, LockOnce, Wake, Sleep, CheckDone, Go, Applying, UsesScheme
    <2>2. CASE ProbeSucceeds(c) \/ ProbeUnsupported(c) \/ ProbeFails(c)
        BY <2>2 DEF ProbeSucceeds, ProbeUnsupported, ProbeFails, Fail, Go, Applying, UsesScheme
    <2>3. CASE UnlockOnce(c)
        <3>1. at[c] = "unlock"
            BY <2>3 DEF UnlockOnce, Go
        <3>2. CASE waiters = 0
            BY <2>3, <3>2 DEF UnlockOnce, Go, Applying, UsesScheme
        <3>3. CASE waiters # 0
            <4>1. PICK d \in Callers :
                    at[d] = "asleep" /\ at' = [at EXCEPT ![c] = "decide", ![d] = "woken"]
                BY <2>3, <3>3 DEF UnlockOnce
            <4>2. \A e \in Callers : e \notin {c, d} => at'[e] = at[e]
                BY <4>1 DEF AtType
            <4>3. at'[d] = "woken" /\ at'[c] = "decide"
                BY <3>1, <4>1 DEF AtType
            <4>4. at' = [e \in Callers |-> at'[e]]
                BY <4>1 DEF AtType
            <4> QED BY <3>1, <4>1, <4>2, <4>3, <4>4 DEF Applying, UsesScheme
        <3> QED BY <3>2, <3>3
    <2>4. CASE UnlockOfUnlocked(c)
        BY <2>4 DEF UnlockOfUnlocked, Die
    <2>5. CASE ResetOnce(c)
        <3>1. PICK again \in {"apply", "finished"}, lost \in SUBSET {d \in Callers : at[d] = "woken"} :
                at' = [d \in Callers |-> IF d = c THEN again ELSE IF d \in lost THEN "asleep" ELSE at[d]]
            BY <2>5 DEF ResetOnce
        <3>2. at[c] = "decide"
            BY <2>5 DEF ResetOnce
        <3> QED BY <3>1, <3>2 DEF Applying, UsesScheme
    <2>6. CASE ProbeWasEnough(c) \/ ServerSide(c) \/ ClientSide(c) \/ ServerSideApply(c)
        BY <2>6 DEF ProbeWasEnough, ServerSide, ClientSide, ServerSideApply, Go, Applying, UsesScheme
    <2>7. CASE Create(c) \/ AlreadyExists(c) \/ GetEqual(c) \/ Get(c) \/ Patch(c)
        BY <2>7 DEF Create, AlreadyExists, GetEqual, Get, Patch, Go, Applying, UsesScheme
    <2>8. CASE ApplyReturns(c)
        BY <2>8 DEF ApplyReturns, Go, Applying, UsesScheme
    <2>9. CASE RequestFails(c)
        BY <2>9 DEF RequestFails, Requests, Fail, Go, Applying, UsesScheme
    <2> QED BY <2>1, <2>2, <2>3, <2>4, <2>5, <2>6, <2>7, <2>8, <2>9
            DEF ApplierSteps, Apply, TryServerSideApply
<1>2. \A d \in Callers : at'[d] # at[d] => at[d] \in Applying /\ at'[d] \in Inside
    <2> HIDE DEF Inside
    <2> QED BY <1>1 DEF AtType
<1>3. \A place \in Inside : place \notin places
    BY DEF Unused, Creating, Applying, UsesScheme, FactoryPlaces
<1>4. Fixed(places)
    <2>1. Applying \subseteq Inside
        OBVIOUS
    <2> HIDE DEF places, Inside
    <2> QED BY <1>2, <1>3, <2>1 DEF Fixed
<1>5. \A d \in Callers : at'[d] \in Applying => at[d] \in Applying
    <2> HIDE DEF Inside
    <2> QED BY <1>2
<1>6. AtType'
    <2>1. Inside \subseteq Places
        BY DEF Places, Applying, UsesScheme
    <2>2. at' = [d \in Callers |-> at'[d]]
        <3> HIDE DEF Inside
        <3> QED BY <1>1 DEF AtType
    <2> HIDE DEF Inside
    <2> QED BY <1>2, <2>1, <2>2 DEF AtType
<1> QED BY <1>4, <1>5, <1>6

-----------------------------------------------------------------------------
(* The scheme and the mapper.                                              *)

LEMMA SchemeElsewhere ==
    ASSUME SchemeInv, Fixed(Creating \union {"new"}),
           UNCHANGED <<newClientMutex, registered, writers>>
    PROVE  SchemeInv'
<1>1. \A c \in Callers : at'[c] \in Creating \union {"new"} \/ at[c] \in Creating \union {"new"}
        => at'[c] = at[c]
    BY DEF Fixed
<1> QED BY <1>1 DEF SchemeInv, Creating

LEMMA SchemeStep ==
    ASSUME AtType, ClientsTypeOK, SchemeInv, NEW c \in Callers, ClientSteps(c)
    PROVE  SchemeInv'
<1>1. CASE Lock(c)
    <2>1. \A d \in Callers : at[d] \notin Creating
        BY <1>1, CallersAssumption DEF Lock, SchemeInv
    <2>2. at' = [at EXCEPT ![c] = "register"] /\ newClientMutex' = c /\ UNCHANGED <<registered, writers>>
            /\ at[c] = "new"
        BY <1>1 DEF Lock, Go
    <2> QED BY <2>1, <2>2 DEF SchemeInv, AtType, Creating
<1>2. CASE IsVersionRegistered(c)
    <2>1. at' = [at EXCEPT ![c] = "connect"] /\ registered /\ at[c] = "register"
            /\ UNCHANGED <<newClientMutex, registered, writers>>
        BY <1>2 DEF IsVersionRegistered, Go, clientVars
    <2> QED BY <2>1 DEF SchemeInv, AtType, Creating
<1>3. CASE AddToScheme(c)
    <2>1. at' = [at EXCEPT ![c] = "registering"] /\ ~registered /\ at[c] = "register"
            /\ writers' = writers \union {c} /\ UNCHANGED <<newClientMutex, registered>>
        BY <1>3 DEF AddToScheme, Go
    <2> QED BY <2>1 DEF SchemeInv, AtType, Creating
<1>4. CASE Registered(c)
    <2>1. at' = [at EXCEPT ![c] = "connect"] /\ at[c] = "registering" /\ registered'
            /\ writers' = writers \ {c} /\ UNCHANGED newClientMutex
        BY <1>4 DEF Registered, Go
    <2>2. writers \subseteq {c}
        BY <2>1 DEF SchemeInv, Creating, ClientsTypeOK
    <2> QED BY <2>1, <2>2 DEF SchemeInv, AtType, Creating
<1>5. CASE Connect(c) \/ ConnectFails(c)
    <2>1. PICK to \in {"informer", "prepare", "configure", "finished"} : at' = [at EXCEPT ![c] = to]
        BY <1>5 DEF Connect, ConnectFails, Fail, Go
    <2>2. at[c] = "connect" /\ UNCHANGED <<registered, writers>>
        BY <1>5 DEF Connect, ConnectFails, Fail, Go
    <2>3. \A d \in Callers : d # c => at[d] \notin Creating
        BY <2>2 DEF SchemeInv, Creating
    <2> QED BY <2>1, <2>2, <2>3 DEF SchemeInv, AtType, Creating
<1>6. CASE Discover(c) \/ KnowsMapper(c) \/ Mapped(c) \/ ServerGroupsFail(c)
    <2>1. at[c] \in {"use", "map"} /\ \E to \in {"map", "apply", "finished"} : at' = [at EXCEPT ![c] = to]
        BY <1>6 DEF Discover, KnowsMapper, Mapped, ServerGroupsFail, Fail, Go
    <2>2. Fixed(Creating \union {"new"})
        BY <2>1, MoveFixed DEF Creating
    <2>3. UNCHANGED <<newClientMutex, registered, writers>>
        BY <1>6 DEF Discover, KnowsMapper, Mapped, ServerGroupsFail, clientVars
    <2> QED BY <2>2, <2>3, SchemeElsewhere
<1>7. CASE DiscoverGroupResources(c) \/ DiscoverGroupFails(c)
    <2>1. at' = at /\ UNCHANGED <<newClientMutex, registered, writers>>
        BY <1>7 DEF DiscoverGroupResources, DiscoverGroupFails, Die, callVars, clientVars
    <2> QED BY <2>1, SchemeElsewhere DEF Fixed
<1> QED BY <1>1, <1>2, <1>3, <1>4, <1>5, <1>6, <1>7
        DEF ClientSteps, NewClientWithConfig, MapGroups

LEMMA MapperElsewhere ==
    ASSUME MapperInv, UNCHANGED <<loading, mapper>>, Fixed({"map"}),
           \A c \in Callers : /\ at'[c] \in Unused => at[c] \in Unused
                              /\ at'[c] \in Applying => at[c] \in Applying
    PROVE  MapperInv'
BY DEF MapperInv, Fixed

LEMMA MapperStep ==
    ASSUME AtType, ClientsTypeOK, MapperInv, NEW c \in Callers, ClientSteps(c)
    PROVE  MapperInv'
<1>1. CASE NewClientWithConfig(c) \/ ConnectFails(c) \/ ServerGroupsFail(c)
    <2>1. at[c] \in Unused /\ UNCHANGED <<loading, mapper>>
        BY <1>1 DEF NewClientWithConfig, Lock, IsVersionRegistered, AddToScheme, Registered,
                    Connect, ConnectFails, ServerGroupsFail, Fail, Go, clientVars, Unused, Creating
    <2>2. PICK to \in Unused \union {"finished", "informer", "configure"} : at' = [at EXCEPT ![c] = to]
        BY <1>1 DEF NewClientWithConfig, Lock, IsVersionRegistered, AddToScheme, Registered,
                    Connect, ConnectFails, ServerGroupsFail, Fail, Go, Unused, Creating
    <2>3. to \notin Applying /\ to # "map" /\ at[c] # "map"
        BY <2>1 DEF Unused, Creating, Applying, UsesScheme
    <2> QED BY <2>1, <2>2, <2>3, MapperElsewhere DEF Fixed, AtType
<1>2. CASE Discover(c)
    <2>1. /\ at[c] = "use" /\ at' = [at EXCEPT ![c] = "map"]
          /\ loading' = [loading EXCEPT ![c] = Groups \intersect FastMapperAllowedAPIGroups]
          /\ mapper' = [mapper EXCEPT ![c] = {}]
        BY <1>2 DEF Discover, Go
    <2>2. "map" \notin Unused /\ "map" \notin Applying
        BY DEF Unused, Creating, Applying, UsesScheme
    <2> QED BY <2>1, <2>2 DEF MapperInv, AtType, ClientsTypeOK
<1>3. CASE KnowsMapper(c)
    <2>1. at[c] = "use" /\ at' = [at EXCEPT ![c] = "apply"] /\ UNCHANGED <<loading, mapper>>
            /\ (c \in FastDiscovery => mapper[c] # Nil)
        BY <1>3 DEF KnowsMapper, Go, clientVars
    <2>2. "apply" \notin Unused /\ "use" \in Unused
        BY DEF Unused, Creating
    <2> QED BY <2>1, <2>2 DEF MapperInv, AtType
<1>4. CASE Mapped(c)
    <2>1. at[c] = "map" /\ at' = [at EXCEPT ![c] = "apply"] /\ UNCHANGED <<loading, mapper>>
            /\ loading[c] = {}
        BY <1>4 DEF Mapped, Go, clientVars
    <2>2. "apply" \notin Unused
        BY DEF Unused, Creating
    <2> QED BY <2>1, <2>2 DEF MapperInv, AtType
<1>5. CASE DiscoverGroupResources(c)
    <2>1. PICK g \in loading[c] :
            /\ loading' = [loading EXCEPT ![c] = @ \ {g}]
            /\ mapper' = [mapper EXCEPT ![c] = @ \union {g}]
        BY <1>5 DEF DiscoverGroupResources
    <2>2. at' = at /\ at[c] = "map"
        BY <1>5, <2>1 DEF DiscoverGroupResources, callVars, MapperInv
    <2>3. "map" \notin Unused /\ "map" \notin Applying
        BY DEF Unused, Creating, Applying, UsesScheme
    <2>4. mapper'[c] \union loading'[c] = mapper[c] \union loading[c]
        BY <2>1 DEF MapperInv, ClientsTypeOK
    <2> QED BY <2>1, <2>2, <2>3, <2>4 DEF MapperInv, ClientsTypeOK
<1>6. CASE DiscoverGroupFails(c)
    BY <1>6, MapperElsewhere DEF DiscoverGroupFails, Die, clientVars, Fixed
<1> QED BY <1>1, <1>2, <1>3, <1>4, <1>5, <1>6 DEF ClientSteps, MapGroups

-----------------------------------------------------------------------------
(* The factory.                                                            *)

AskedPlaces == {"start", "sync", "wait", "list", "drain", "returned"}

LEMMA FactoryElsewhere ==
    ASSUME RoutineInv, WaitInv, UNCHANGED factoryVars, NoEntry(AskedPlaces)
    PROVE  RoutineInv' /\ WaitInv'
<1>1. \A c \in Callers : at'[c] \in AskedPlaces => at'[c] = at[c]
    BY DEF NoEntry
<1>2. Active' = Active
    BY DEF Active, factoryVars
<1> QED BY <1>1, <1>2 DEF RoutineInv, WaitInv, AskedPlaces, factoryVars

(* The number of informers that run, as one starts or ends.                *)
LEMMA ActiveFinite ==
    ASSUME NEW S \in SUBSET Kinds
    PROVE  IsFiniteSet(S) /\ Cardinality(S) \in Nat /\ Cardinality(S) <= Cardinality(Kinds)
            /\ (Cardinality(S) = 0 => S = {})
BY KindsAssumption, FS_Subset, FS_CardinalityType, FS_EmptySet

LEMMA Launched ==
    ASSUME FactoryTypeOK, RoutineInv, NEW c \in Callers, Launch(c, informers \ startedInformers),
           startedInformers' = informers
    PROVE  /\ wg' = Cardinality(Active')
           /\ \A k \in Kinds : k \in startedInformers' \/ routine'[k] = "none"
           /\ routine' \in [Kinds -> {"none", "started", "running", "ended"}]
           /\ stopCh' \in [Kinds -> Callers \union {Nil}]
<1> DEFINE new == informers \ startedInformers
<1>1. Active' = Active \union new /\ Active \intersect new = {}
    BY DEF Active, Launch, RoutineInv, FactoryTypeOK
<1>2. IsFiniteSet(Active) /\ IsFiniteSet(new)
    BY ActiveFinite DEF Active, FactoryTypeOK
<1>3. Cardinality(Active \union new) = Cardinality(Active) + Cardinality(new)
    <2> HIDE DEF new
    <2>1. Cardinality(Active \intersect new) = 0
        BY <1>1, FS_EmptySet
    <2>2. Cardinality(Active) \in Nat /\ Cardinality(new) \in Nat
        BY <1>2, FS_CardinalityType
    <2>3. Cardinality(Active \union new)
            = Cardinality(Active) + Cardinality(new) - Cardinality(Active \intersect new)
        BY <1>2, FS_Union
    <2> QED BY <2>1, <2>2, <2>3
<1>4. wg' = Cardinality(Active')
    BY <1>1, <1>3 DEF Launch, RoutineInv
<1>5. \A k \in Kinds : k \in startedInformers' \/ routine'[k] = "none"
    BY DEF Launch, RoutineInv, FactoryTypeOK
<1>6. /\ routine' \in [Kinds -> {"none", "started", "running", "ended"}]
      /\ stopCh' \in [Kinds -> Callers \union {Nil}]
    BY DEF Launch, FactoryTypeOK
<1> QED BY <1>4, <1>5, <1>6

LEMMA FactoryStep ==
    ASSUME AtType, FactoryTypeOK, RoutineInv, WaitInv, FactorySteps
    PROVE  RoutineInv' /\ WaitInv'
<1> USE DEF FactoryPlaces
<1>1. ASSUME NEW c \in Callers, InformerFor(c)
      PROVE  RoutineInv' /\ WaitInv'
    <2>1. PICK k \in Kinds : informers' = informers \union {k} /\ wants' = [wants EXCEPT ![c] = k]
        BY <1>1 DEF InformerFor
    <2>2. /\ at[c] = "informer" /\ at' = [at EXCEPT ![c] = "start"]
          /\ UNCHANGED <<startedInformers, wg, shuttingDown, routine, hasSynced, waiting>>
        BY <1>1 DEF InformerFor, Go
    <2>3. Active' = Active
        BY <2>2 DEF Active
    <2>4. RoutineInv'
        BY <2>2, <2>3 DEF RoutineInv, AtType
    <2>5. WaitInv'
        BY <2>1, <2>2 DEF WaitInv, AtType, FactoryTypeOK
    <2> QED BY <2>4, <2>5
<1>2. ASSUME NEW c \in Callers, Start(c)
      PROVE  RoutineInv' /\ WaitInv'
    <2>1. /\ ~shuttingDown /\ startedInformers' = informers
          /\ Launch(c, informers \ startedInformers)
          /\ at[c] = "start" /\ at' = [at EXCEPT ![c] = "sync"]
          /\ UNCHANGED <<wants, informers, shuttingDown, hasSynced, waiting>>
        BY <1>2 DEF Start, Go
    <2>2. RoutineInv'
        BY <2>1, Launched DEF RoutineInv, AtType
    <2>3. WaitInv'
        BY <2>1 DEF WaitInv, AtType, FactoryTypeOK
    <2> QED BY <2>2, <2>3
<1>3. ASSUME NEW c \in Callers, StartTooLate(c)
      PROVE  RoutineInv' /\ WaitInv'
    <2>1. /\ shuttingDown /\ UNCHANGED factoryVars
          /\ at[c] = "start" /\ at' = [at EXCEPT ![c] = "sync"]
        BY <1>3 DEF StartTooLate, Go
    <2>2. Active' = Active
        BY <2>1 DEF Active, factoryVars
    <2> QED BY <2>1, <2>2 DEF RoutineInv, WaitInv, AtType, factoryVars
<1>4. ASSUME NEW c \in Callers, BeginWait(c)
      PROVE  RoutineInv' /\ WaitInv'
    <2>1. /\ waiting' = [waiting EXCEPT ![c] = informers \intersect startedInformers]
          /\ at[c] = "sync" /\ at' = [at EXCEPT ![c] = "wait"]
          /\ UNCHANGED <<wants, informers, startedInformers, wg, shuttingDown, routine, hasSynced>>
        BY <1>4 DEF BeginWait, Go
    <2>2. Active' = Active
        BY <2>1 DEF Active
    <2>3. RoutineInv'
        BY <2>1, <2>2 DEF RoutineInv, AtType
    <2>4. WaitInv'
        BY <2>1 DEF WaitInv, AtType, FactoryTypeOK
    <2> QED BY <2>3, <2>4
<1>5. ASSUME NEW c \in Callers, WaitForCacheSync(c) \/ WaitStopped(c)
      PROVE  RoutineInv' /\ WaitInv'
    <2>1. /\ UNCHANGED factoryVars /\ at[c] = "wait"
          /\ \/ waiting[c] \subseteq hasSynced /\ at' = [at EXCEPT ![c] = "list"]
             \/ at' = [at EXCEPT ![c] = "shutdown"]
        BY <1>5 DEF WaitForCacheSync, WaitStopped, Go
    <2>2. Active' = Active
        BY <2>1 DEF Active, factoryVars
    <2>3. RoutineInv'
        BY <2>1, <2>2 DEF RoutineInv, AtType, factoryVars
    <2>4. WaitInv'
        BY <2>1 DEF WaitInv, AtType, factoryVars
    <2> QED BY <2>3, <2>4
<1>6. ASSUME NEW c \in Callers, Shutdown(c)
      PROVE  RoutineInv' /\ WaitInv'
    <2>1. /\ shuttingDown' /\ at[c] = "shutdown" /\ at' = [at EXCEPT ![c] = "drain"]
          /\ UNCHANGED <<wants, informers, startedInformers, wg, routine, hasSynced, waiting>>
        BY <1>6 DEF Shutdown, Go
    <2>2. Active' = Active
        BY <2>1 DEF Active
    <2> QED BY <2>1, <2>2 DEF RoutineInv, WaitInv, AtType
<1>7. ASSUME NEW c \in Callers, ShutdownReturns(c)
      PROVE  RoutineInv' /\ WaitInv'
    <2>1. /\ wg = 0 /\ UNCHANGED factoryVars
          /\ at[c] = "drain" /\ at' = [at EXCEPT ![c] = "returned"]
        BY <1>7 DEF ShutdownReturns, Go
    <2>2. Active' = Active
        BY <2>1 DEF Active, factoryVars
    <2> QED BY <2>1, <2>2 DEF RoutineInv, WaitInv, AtType, factoryVars
<1>8. ASSUME NEW k \in Kinds, Run(k)
      PROVE  RoutineInv' /\ WaitInv'
    <2>1. /\ routine[k] = "started" /\ routine' = [routine EXCEPT ![k] = "running"]
          /\ UNCHANGED <<at, wants, informers, startedInformers, wg, shuttingDown, hasSynced, waiting>>
        BY <1>8 DEF Run, callVars
    <2>2. Active' = Active
        BY <2>1 DEF Active, FactoryTypeOK
    <2>3. RoutineInv'
        BY <2>1, <2>2 DEF RoutineInv, FactoryTypeOK
    <2>4. WaitInv'
        BY <2>1 DEF WaitInv
    <2> QED BY <2>3, <2>4
<1>9. ASSUME NEW k \in Kinds, Sync(k)
      PROVE  RoutineInv' /\ WaitInv'
    <2>1. /\ hasSynced' = hasSynced \union {k}
          /\ UNCHANGED <<at, wants, informers, startedInformers, wg, shuttingDown, routine, waiting>>
        BY <1>9 DEF Sync, callVars
    <2>2. Active' = Active
        BY <2>1 DEF Active
    <2> QED BY <2>1, <2>2 DEF RoutineInv, WaitInv
<1>10. ASSUME NEW k \in Kinds, RunEnds(k)
       PROVE  RoutineInv' /\ WaitInv'
    <2>1. /\ routine[k] = "running" /\ routine' = [routine EXCEPT ![k] = "ended"] /\ wg' = wg - 1
          /\ UNCHANGED <<at, wants, informers, startedInformers, shuttingDown, hasSynced, waiting>>
        BY <1>10 DEF RunEnds, callVars
    <2>2. Active' = Active \ {k} /\ k \in Active
        BY <2>1 DEF Active, FactoryTypeOK
    <2>3. wg' = Cardinality(Active')
        <3>1. Active \in SUBSET Kinds
            BY DEF Active
        <3>2. IsFiniteSet(Active)
            BY <3>1, ActiveFinite
        <3>3. Cardinality(Active \ {k}) = Cardinality(Active) - 1
            BY <2>2, <3>2, FS_RemoveElement
        <3> QED BY <2>1, <2>2, <3>3 DEF RoutineInv
    <2>4. wg # 0
        <3>1. Active \in SUBSET Kinds
            BY DEF Active
        <3> QED BY <2>2, <3>1, ActiveFinite DEF RoutineInv
    <2>5. RoutineInv'
        BY <2>1, <2>3, <2>4 DEF RoutineInv, FactoryTypeOK
    <2>6. WaitInv'
        BY <2>1 DEF WaitInv
    <2> QED BY <2>5, <2>6
<1>11. ASSUME NEW c \in Callers, CancelEarly(c)
       PROVE  RoutineInv' /\ WaitInv'
    <2>1. UNCHANGED <<at, wants, informers, startedInformers, wg, shuttingDown, routine, hasSynced, waiting>>
        BY <1>11 DEF CancelEarly, callVars
    <2>2. Active' = Active
        BY <2>1 DEF Active
    <2> QED BY <2>1, <2>2 DEF RoutineInv, WaitInv
<1> QED BY <1>1, <1>2, <1>3, <1>4, <1>5, <1>6, <1>7, <1>8, <1>9, <1>10, <1>11
        DEF FactorySteps, UseFactory, InformerSteps

(* The types of its variables.                                             *)
LEMMA FactoryTyped ==
    ASSUME AtType, FactoryTypeOK, RoutineInv, RoutineInv', FactorySteps
    PROVE  FactoryTypeOK'
<1>1. wg' \in 0 .. Cardinality(Kinds)
    <2>1. Active' \in SUBSET Kinds
        BY DEF Active
    <2> QED BY <2>1, ActiveFinite, KindsAssumption, FS_CardinalityType DEF RoutineInv
<1>3. ASSUME NEW c \in Callers, InformerFor(c)
      PROVE  FactoryTypeOK'
    BY <1>1, <1>3 DEF InformerFor, FactoryTypeOK
<1>4. ASSUME NEW c \in Callers, Start(c)
      PROVE  FactoryTypeOK'
    <2>1. /\ Launch(c, informers \ startedInformers) /\ startedInformers' = informers
          /\ UNCHANGED <<wants, informers, shuttingDown, closed, hasSynced, waiting>>
        BY <1>4 DEF Start
    <2> QED BY <1>1, <2>1, Launched DEF FactoryTypeOK
<1>5. ASSUME NEW c \in Callers, StartTooLate(c) \/ WaitForCacheSync(c) \/ WaitStopped(c) \/ ShutdownReturns(c)
      PROVE  FactoryTypeOK'
    BY <1>5 DEF StartTooLate, WaitForCacheSync, WaitStopped, ShutdownReturns, factoryVars, FactoryTypeOK
<1>6. ASSUME NEW c \in Callers, BeginWait(c)
      PROVE  FactoryTypeOK'
    BY <1>1, <1>6 DEF BeginWait, FactoryTypeOK
<1>7. ASSUME NEW c \in Callers, Shutdown(c) \/ CancelEarly(c)
      PROVE  FactoryTypeOK'
    BY <1>1, <1>7 DEF Shutdown, CancelEarly, FactoryTypeOK
<1>8. ASSUME NEW k \in Kinds, Run(k) \/ RunEnds(k)
      PROVE  FactoryTypeOK'
    BY <1>1, <1>8 DEF Run, RunEnds, FactoryTypeOK
<1>9. ASSUME NEW k \in Kinds, Sync(k)
      PROVE  FactoryTypeOK'
    BY <1>1, <1>9 DEF Sync, FactoryTypeOK, RoutineInv
<1> QED BY <1>3, <1>4, <1>5, <1>6, <1>7, <1>8, <1>9 DEF FactorySteps, UseFactory, InformerSteps

-----------------------------------------------------------------------------
(* The Once.                                                               *)

LEMMA OnceElsewhere ==
    ASSUME AtType, OnceInv, UNCHANGED <<locked, waiters, raced>>, Fixed(Holding \union {"asleep"})
    PROVE  OnceInv'
<1>1. \A c \in Callers : at'[c] \in Holding \union {"asleep"} \/ at[c] \in Holding \union {"asleep"}
        => at'[c] = at[c]
    BY DEF Fixed
<1>2. Asleep' = Asleep
    BY <1>1 DEF Asleep
<1> QED BY <1>1, <1>2 DEF OnceInv

LEMMA AsleepFinite ==
    /\ IsFiniteSet(Asleep) /\ Cardinality(Asleep) \in Nat
    /\ Cardinality(Asleep) <= Cardinality(Callers) /\ Cardinality(Callers) \in Nat
<1>1. Asleep \subseteq Callers
    BY DEF Asleep
<1> QED BY <1>1, CallersAssumption, FS_Subset, FS_CardinalityType

LEMMA OnceStep ==
    ASSUME AtType, ApplierTypeOK, OnceInv, NEW c \in Callers, ApplierSteps(c)
    PROVE  OnceInv'
<1>1. ASSUME UNCHANGED <<locked, waiters, raced>>,
             NEW from \in Places, from \notin Holding, from # "asleep", at[c] = from,
             NEW to, to \notin Holding, to # "asleep", at' = [at EXCEPT ![c] = to]
      PROVE  OnceInv'
    <2>1. Fixed(Holding \union {"asleep"})
        <3> DEFINE places == Holding \union {"asleep"}
        <3>1. at[c] \notin places /\ to \notin places
            BY <1>1
        <3> HIDE DEF places
        <3> QED BY <1>1, <3>1, MoveFixed
    <2> QED BY <1>1, <2>1, OnceElsewhere
<1>2. CASE Wake(c) \/ BeginApply(c)
    <2>1. /\ UNCHANGED <<locked, waiters, raced>>
          /\ at[c] \in {"woken", "apply"}
          /\ \E to \in {"lock", "decide"} : at' = [at EXCEPT ![c] = to]
        BY <1>2 DEF Wake, BeginApply, Go, applierVars
    <2> QED BY <1>1, <2>1 DEF Holding, Places
<1>3. CASE ProbeWasEnough(c) \/ ServerSide(c) \/ ClientSide(c) \/ ServerSideApply(c) \/ ApplyReturns(c)
    <2>1. /\ UNCHANGED <<locked, waiters, raced>>
          /\ at[c] \in {"decide", "serverSideApply", "applied"}
          /\ \E to \in {"applied", "serverSideApply", "create", "finished"} : at' = [at EXCEPT ![c] = to]
        BY <1>3 DEF ProbeWasEnough, ServerSide, ClientSide, ServerSideApply, ApplyReturns, Go, applierVars
    <2> QED BY <1>1, <2>1 DEF Holding, Places
<1>4. CASE Create(c) \/ AlreadyExists(c) \/ GetEqual(c) \/ Get(c) \/ Patch(c) \/ RequestFails(c)
    <2>1. /\ UNCHANGED <<locked, waiters, raced>>
          /\ at[c] \in Requests
          /\ \E to \in {"applied", "get", "patch", "apply", "finished"} : at' = [at EXCEPT ![c] = to]
        BY <1>4 DEF Create, AlreadyExists, GetEqual, Get, Patch, RequestFails, Requests, Fail, Go, applierVars
    <2> QED BY <1>1, <2>1 DEF Holding, Places, Requests
<1>5. CASE LockOnce(c)
    <2>1. /\ ~locked /\ locked' = TRUE /\ UNCHANGED <<waiters, raced>>
          /\ at[c] = "lock" /\ at' = [at EXCEPT ![c] = "locked"]
        BY <1>5 DEF LockOnce, Go
    <2>2. Asleep' = Asleep
        BY <2>1 DEF AtType, Asleep
    <2> QED BY <2>1, <2>2 DEF OnceInv, AtType, Holding
<1>6. CASE Sleep(c)
    <2>1. /\ waiters' = waiters + 1 /\ UNCHANGED <<locked, raced>>
          /\ at[c] = "lock" /\ at' = [at EXCEPT ![c] = "asleep"]
        BY <1>6 DEF Sleep, Go
    <2>2. Asleep' = Asleep \union {c} /\ c \notin Asleep
        BY <2>1 DEF AtType, Asleep
    <2>3. Cardinality(Asleep \union {c}) = Cardinality(Asleep) + 1
        BY <2>2, AsleepFinite, FS_AddElement
    <2>4. waiters' <= Cardinality(Asleep')
        BY <2>1, <2>2, <2>3, AsleepFinite DEF OnceInv, ApplierTypeOK
    <2> QED BY <2>1, <2>4 DEF OnceInv, AtType, Holding
<1>7. CASE CheckDone(c) \/ ProbeSucceeds(c) \/ ProbeUnsupported(c) \/ ProbeFails(c)
    <2>1. /\ UNCHANGED <<locked, waiters, raced>> /\ at[c] \in {"locked", "probe"}
          /\ \E to \in {"unlock", "probe"} : at' = [at EXCEPT ![c] = to]
        BY <1>7 DEF CheckDone, ProbeSucceeds, ProbeUnsupported, ProbeFails, Fail, Go
    <2>2. Asleep' = Asleep
        BY <2>1 DEF AtType, Asleep
    <2>3. \A d \in Callers : at'[d] \in Holding => at[d] \in Holding
        BY <2>1 DEF AtType, Holding
    <2> QED BY <2>1, <2>2, <2>3 DEF OnceInv
<1>8. CASE UnlockOnce(c)
    <2>1. at[c] = "unlock" /\ ~locked' /\ UNCHANGED raced
        BY <1>8 DEF UnlockOnce, Go
    <2>2. CASE waiters = 0
        <3>1. waiters' = 0 /\ at' = [at EXCEPT ![c] = "decide"]
            BY <1>8, <2>2 DEF UnlockOnce, Go
        <3>2. Asleep' = Asleep
            BY <2>1, <3>1 DEF AtType, Asleep
        <3>3. \A d \in Callers : at'[d] \in Holding => at[d] \in Holding /\ d # c
            BY <3>1 DEF AtType, Holding
        <3> QED BY <2>1, <3>1, <3>2, <3>3, AsleepFinite DEF OnceInv, Holding
    <2>3. CASE waiters # 0
        <3>1. PICK d \in Callers :
                at[d] = "asleep" /\ at' = [at EXCEPT ![c] = "decide", ![d] = "woken"]
            BY <1>8, <2>3 DEF UnlockOnce
        <3>2. waiters' = waiters - 1
            BY <1>8, <2>3 DEF UnlockOnce
        <3>3. Asleep' = Asleep \ {d} /\ d \in Asleep
            BY <2>1, <3>1 DEF AtType, Asleep
        <3>4. Cardinality(Asleep \ {d}) = Cardinality(Asleep) - 1
            BY <3>3, AsleepFinite, FS_RemoveElement
        <3>5. waiters' <= Cardinality(Asleep')
            BY <3>2, <3>3, <3>4, AsleepFinite DEF OnceInv, ApplierTypeOK
        <3>6. \A e \in Callers : at'[e] \in Holding => at[e] \in Holding /\ e # c
            BY <2>1, <3>1 DEF AtType, Holding
        <3> QED BY <2>1, <3>5, <3>6 DEF OnceInv, Holding
    <2> QED BY <2>2, <2>3
<1>9. CASE UnlockOfUnlocked(c)
    BY <1>9, OnceElsewhere DEF UnlockOfUnlocked, Die, applierVars, Fixed
<1>10. CASE ResetOnce(c)
    <2>1. waiters' = 0 /\ raced'
        BY <1>10 DEF ResetOnce
    <2>2. Cardinality(Asleep') \in Nat
        <3>1. Asleep' \subseteq Callers
            BY DEF Asleep
        <3> QED BY <3>1, CallersAssumption, FS_Subset, FS_CardinalityType
    <2> QED BY <2>1, <2>2 DEF OnceInv
<1> QED BY <1>2, <1>3, <1>4, <1>5, <1>6, <1>7, <1>8, <1>9, <1>10
        DEF ApplierSteps, Apply, TryServerSideApply

-----------------------------------------------------------------------------
(* As long as no call has failed.                                          *)

LEMMA FaultlessElsewhere ==
    ASSUME FaultlessInv, UNCHANGED applierVars, NoEntry({"unlock", "decide"}),
           faults' = 0 => faults = 0 /\ alive' = alive
    PROVE  FaultlessInv'
BY DEF FaultlessInv, NoEntry, applierVars

LEMMA FaultlessStep ==
    ASSUME AtType, ApplierTypeOK, faults \in Nat, OnceInv, FaultlessInv,
           NEW c \in Callers, ApplierSteps(c)
    PROVE  FaultlessInv'
<1>1. CASE BeginApply(c)
    <2>1. /\ err' = [err EXCEPT ![c] = FALSE] /\ fellBack' = fellBack \ {c}
          /\ UNCHANGED <<capable, done, hasServerSideApply, raced, alive, faults>>
          /\ \/ done /\ at' = [at EXCEPT ![c] = "decide"]
             \/ at' = [at EXCEPT ![c] = "lock"]
        BY <1>1 DEF BeginApply, Go
    <2> QED BY <2>1 DEF FaultlessInv, AtType, ApplierTypeOK
<1>2. CASE CheckDone(c)
    <2>1. /\ UNCHANGED <<capable, done, hasServerSideApply, err, raced, fellBack, alive, faults>>
          /\ \/ done /\ at' = [at EXCEPT ![c] = "unlock"]
             \/ at' = [at EXCEPT ![c] = "probe"]
        BY <1>2 DEF CheckDone, Go
    <2> QED BY <2>1 DEF FaultlessInv, AtType
<1>3. CASE ProbeSucceeds(c)
    <2>1. /\ capable /\ hasServerSideApply' = TRUE
          /\ UNCHANGED <<capable, done, err, raced, fellBack, alive, faults>>
        BY <1>3 DEF ProbeSucceeds
    <2> QED BY <2>1 DEF FaultlessInv
<1>4. CASE ProbeUnsupported(c)
    <2>1. /\ ~capable /\ hasServerSideApply' = FALSE
          /\ UNCHANGED <<capable, done, err, raced, fellBack, alive, faults>>
        BY <1>4 DEF ProbeUnsupported
    <2> QED BY <2>1 DEF FaultlessInv
<1>5. CASE ProbeFails(c) \/ RequestFails(c)
    <2>1. faults' # 0 /\ UNCHANGED <<hasServerSideApply, capable>>
        BY <1>5 DEF ProbeFails, RequestFails, Fail, applierVars
    <2> QED BY <2>1 DEF FaultlessInv
<1>6. CASE UnlockOnce(c)
    <2>1. /\ at[c] = "unlock" /\ done' = (done \/ once[c])
          /\ UNCHANGED <<capable, hasServerSideApply, err, raced, fellBack, alive, faults>>
        BY <1>6 DEF UnlockOnce, Go
    <2>2. \A d \in Callers : at'[d] \in {"unlock", "decide"} => at[d] \in {"unlock", "decide"}
        <3>1. \/ at' = [at EXCEPT ![c] = "decide"]
              \/ \E d \in Callers : at' = [at EXCEPT ![c] = "decide", ![d] = "woken"]
            BY <1>6 DEF UnlockOnce, Go
        <3> QED BY <2>1, <3>1 DEF AtType
    <2> QED BY <2>1, <2>2 DEF FaultlessInv, ApplierTypeOK
<1>7. CASE UnlockOfUnlocked(c)
    <2>1. /\ at[c] = "unlock" /\ ~locked /\ UNCHANGED <<faults, hasServerSideApply, capable>>
        BY <1>7 DEF UnlockOfUnlocked, Die, applierVars
    <2>2. raced
        BY <2>1 DEF OnceInv, Holding
    <2> QED BY <2>1, <2>2 DEF FaultlessInv
<1>8. CASE ResetOnce(c)
    <2>1. err[c] /\ UNCHANGED <<faults, hasServerSideApply, capable>>
        BY <1>8 DEF ResetOnce
    <2> QED BY <2>1 DEF FaultlessInv
<1>9. CASE ClientSide(c)
    <2>1. /\ hasServerSideApply # TRUE /\ at[c] = "decide" /\ at' = [at EXCEPT ![c] = "create"]
          /\ UNCHANGED <<capable, done, hasServerSideApply, err, raced, alive, faults>>
        BY <1>9 DEF ClientSide, Go
    <2>2. \A d \in Callers : at'[d] \in {"unlock", "decide"} => at[d] \in {"unlock", "decide"}
        BY <2>1 DEF AtType
    <2>3. faults = 0 => ~capable
        BY <2>1 DEF FaultlessInv
    <2> QED BY <2>1, <2>2, <2>3 DEF FaultlessInv
<1>10. CASE LockOnce(c) \/ Sleep(c) \/ Get(c)
    <2>1. /\ UNCHANGED <<capable, done, hasServerSideApply, err, raced, fellBack, alive, faults>>
          /\ \E to \in {"locked", "asleep", "patch"} : at' = [at EXCEPT ![c] = to]
        BY <1>10 DEF LockOnce, Sleep, Get, Go
    <2> QED BY <2>1 DEF FaultlessInv, AtType
<1>11. CASE \/ Wake(c) \/ ProbeWasEnough(c) \/ ServerSide(c) \/ ServerSideApply(c) \/ Create(c)
            \/ AlreadyExists(c) \/ GetEqual(c) \/ Patch(c) \/ ApplyReturns(c)
    <2>1. /\ UNCHANGED <<applierVars, alive, faults>>
          /\ \E to \in {"lock", "applied", "serverSideApply", "get", "finished"} : at' = [at EXCEPT ![c] = to]
        BY <1>11 DEF Wake, ProbeWasEnough, ServerSide, ServerSideApply, Create, AlreadyExists, GetEqual,
                    Patch, ApplyReturns, Go
    <2>2. NoEntry({"unlock", "decide"})
        BY <2>1 DEF NoEntry, AtType
    <2> QED BY <2>1, <2>2, FaultlessElsewhere
<1> QED BY <1>1, <1>2, <1>3, <1>4, <1>5, <1>6, <1>7, <1>8, <1>9, <1>10, <1>11
        DEF ApplierSteps, Apply, TryServerSideApply

-----------------------------------------------------------------------------
(* The calls of Apply.                                                     *)

(* What the history does for a call that goes on.                          *)
LEMMA HistoryGoesOn ==
    ASSUME History, NEW c \in Callers, at[c] # "apply", at'[c] # "finished"
    PROVE  /\ wanted'[c] = wanted[c]
           /\ met[c] \subseteq met'[c]
           /\ \A f \in Fields : server'.exists /\ server'.fields[f] = wanted[c][f] => f \in met'[c]
           /\ Covered(c) => Covered(c)'
BY DEF History, Outside, Covered

(* Steps that do not advance the call of c.                                *)
LEMMA CallKept ==
    ASSUME History, NEW c \in Callers, CallInv(c),
           at'[c] \in Applying \ {"apply"} =>
            /\ \/ at'[c] = at[c]
               \/ at[c] \in {"asleep", "woken"} /\ at'[c] \in {"asleep", "woken"}
               \/ at[c] = "unlock" /\ at'[c] = "decide"
            /\ object'[c] = object[c] /\ once'[c] = once[c] /\ err'[c] = err[c] /\ seen'[c] = seen[c],
           capable' = capable,
           server.exists => server'.exists,
           capable /\ hasServerSideApply = TRUE => hasServerSideApply' = TRUE
    PROVE  CallInv(c)'
<1>1. CASE at'[c] \notin Applying \ {"apply"}
    BY <1>1 DEF CallInv, Probed, Applying, UsesScheme
<1>2. CASE at'[c] \in Applying \ {"apply"}
    <2>1. at[c] # "apply" /\ at'[c] # "finished"
        BY <1>2 DEF Applying, UsesScheme
    <2>2. /\ wanted'[c] = wanted[c] /\ met[c] \subseteq met'[c]
          /\ Covered(c) => Covered(c)'
        BY <2>1, HistoryGoesOn
    <2>3. Probed(c)' <=> Probed(c)
        BY <1>2 DEF Probed
    <2>4. at[c] \in Applying \ {"apply"} /\ (at'[c] = "applied" <=> at[c] = "applied")
        BY <1>2 DEF Applying, UsesScheme
    <2>5. object'[c] = object[c] /\ once'[c] = once[c] /\ err'[c] = err[c] /\ seen'[c] = seen[c]
        BY <1>2
    <2>6. /\ at'[c] \in {"lock", "woken", "asleep", "locked", "probe"} => ~err'[c]
          /\ at'[c] = "probe" => once'[c]
          /\ at'[c] \in {"get", "patch"} => server'.exists
        BY <1>2, <2>5 DEF CallInv
    <2>7. /\ at'[c] = "applied" \/ Probed(c)' => Covered(c)'
          /\ Probed(c)' => hasServerSideApply' = TRUE
        <3>1. Probed(c) => capable
            BY DEF Probed
        <3> QED BY <2>2, <2>3, <2>4, <3>1 DEF CallInv
    <2>8. at'[c] \in Applying \ {"apply", "applied"} /\ ~Probed(c)' => wanted'[c] = object'[c]
        BY <2>2, <2>3, <2>4, <2>5 DEF CallInv
    <2>9. at'[c] = "patch" =>
            \A f \in Fields : object'[c][f] # Nil /\ seen'[c][f] = object'[c][f] => f \in met'[c]
        BY <1>2, <2>2, <2>5 DEF CallInv
    <2> QED BY <2>6, <2>7, <2>8, <2>9 DEF CallInv
<1> QED BY <1>1, <1>2

LEMMA ApplyElsewhere ==
    ASSUME History, ApplyInv, UNCHANGED <<applierVars, server>>, Fixed(Applying \ {"apply"}),
           \A c \in Callers : at[c] \in Applying => object'[c] = object[c]
    PROVE  ApplyInv'
<1>1. ASSUME NEW c \in Callers
      PROVE  CallInv(c)'
    <2>1. at'[c] \in Applying \ {"apply"} => at'[c] = at[c] /\ at[c] \in Applying
        BY DEF Fixed
    <2> QED BY <2>1, CallKept DEF ApplyInv, applierVars
<1> QED BY <1>1 DEF ApplyInv, applierVars, Blank

(* What the requests do to the object of the server.                       *)
LEMMA AppliedFields ==
    ASSUME NEW resource \in Contents
    PROVE  /\ Applied(resource).exists
           /\ \A f \in Fields : resource[f] # Nil => Applied(resource).fields[f] = resource[f]
BY DEF Applied, ApplyPatch, Overlay

LEMMA PatchedFields ==
    ASSUME NEW fields, NEW read, NEW resource, NEW f \in Fields, resource[f] # Nil
    PROVE  read[f] = resource[f] \/ Overlay(fields, MergePatch(read, resource), resource)[f] = resource[f]
BY DEF Overlay, MergePatch

(* The calls of the others while that of c goes on.                        *)
LEMMA OthersKept ==
    ASSUME AtType, ApplierTypeOK, CallsTypeOK, NEW c \in Callers, ApplierSteps(c),
           NEW d \in Callers, d # c
    PROVE  /\ \/ at'[d] = at[d]
              \/ at[d] \in {"asleep", "woken"} /\ at'[d] \in {"asleep", "woken"}
           /\ object'[d] = object[d] /\ once'[d] = once[d] /\ err'[d] = err[d] /\ seen'[d] = seen[d]
<1> USE DEF AtType, ApplierTypeOK, CallsTypeOK
<1>1. CASE BeginApply(c) \/ LockOnce(c) \/ Wake(c) \/ Sleep(c) \/ CheckDone(c)
    BY <1>1 DEF BeginApply, LockOnce, Wake, Sleep, CheckDone, Go, applierVars
<1>2. CASE ProbeSucceeds(c) \/ ProbeUnsupported(c) \/ ProbeFails(c)
    BY <1>2 DEF ProbeSucceeds, ProbeUnsupported, ProbeFails, Decode, Fail, Go
<1>3. CASE UnlockOnce(c)
    <2>1. UNCHANGED <<object, once, err, seen>>
        BY <1>3 DEF UnlockOnce
    <2>2. \/ at' = [at EXCEPT ![c] = "decide"]
          \/ \E e \in Callers : at[e] = "asleep" /\ at' = [at EXCEPT ![c] = "decide", ![e] = "woken"]
        BY <1>3 DEF UnlockOnce, Go
    <2> QED BY <2>1, <2>2
<1>4. CASE UnlockOfUnlocked(c)
    BY <1>4 DEF UnlockOfUnlocked, Die, applierVars
<1>5. CASE ResetOnce(c)
    <2>1. UNCHANGED <<object, once, err, seen>>
        BY <1>5 DEF ResetOnce
    <2>2. \E again, lost : /\ lost \subseteq {e \in Callers : at[e] = "woken"}
                           /\ at' = [e \in Callers |-> IF e = c THEN again
                                                       ELSE IF e \in lost THEN "asleep" ELSE at[e]]
        BY <1>5 DEF ResetOnce
    <2> QED BY <2>1, <2>2
<1>6. CASE ProbeWasEnough(c) \/ ServerSide(c) \/ ClientSide(c) \/ ApplyReturns(c) \/ AlreadyExists(c)
    BY <1>6 DEF ProbeWasEnough, ServerSide, ClientSide, ApplyReturns, AlreadyExists, Go, applierVars
<1>7. CASE ServerSideApply(c) \/ Create(c) \/ GetEqual(c) \/ Get(c) \/ Patch(c)
    BY <1>7 DEF ServerSideApply, Create, GetEqual, Get, Patch, Decode, Go, applierVars
<1>8. CASE RequestFails(c)
    BY <1>8 DEF RequestFails, Fail, Go, applierVars
<1> QED BY <1>1, <1>2, <1>3, <1>4, <1>5, <1>6, <1>7, <1>8
        DEF ApplierSteps, Apply, TryServerSideApply

(* What a caller may do to the object of the server, whether or not it     *)
(* gets to know of it.                                                     *)
LEMMA ServerCases ==
    ASSUME NEW c \in Callers, ApplierSteps(c)
    PROVE  \/ server' = server
           \/ capable /\ server' = Applied(object[c])
           \/ ~server.exists /\ server' = Created(object[c])
           \/ at[c] = "patch" /\ server' = Patched(seen[c], object[c])
BY DEF ApplierSteps, Apply, TryServerSideApply, BeginApply, LockOnce, Wake, Sleep, CheckDone,
       ProbeSucceeds, ProbeUnsupported, ProbeFails, UnlockOnce, UnlockOfUnlocked, ResetOnce,
       ProbeWasEnough, ServerSide, ClientSide, ServerSideApply, Create, AlreadyExists, GetEqual, Get,
       Patch, RequestFails, ApplyReturns, Go

(* What a call has found out of the server stays as it was found.          *)
LEMMA KnownKept ==
    ASSUME NEW c \in Callers, ApplierSteps(c)
    PROVE  /\ capable' = capable
           /\ capable /\ hasServerSideApply = TRUE => hasServerSideApply' = TRUE
BY DEF ApplierSteps, Apply, TryServerSideApply, BeginApply, LockOnce, Wake, Sleep, CheckDone,
       ProbeSucceeds, ProbeUnsupported, ProbeFails, UnlockOnce, UnlockOfUnlocked, ResetOnce,
       ProbeWasEnough, ServerSide, ClientSide, ServerSideApply, Create, AlreadyExists, GetEqual, Get,
       Patch, RequestFails, ApplyReturns, applierVars

(* The object of the server is never deleted; what is known of the server  *)
(* is not forgotten.                                                       *)
LEMMA ServerKept ==
    ASSUME AtType, CallsTypeOK, ApplyInv, NEW c \in Callers, ApplierSteps(c)
    PROVE  /\ capable' = capable
           /\ server.exists => server'.exists
           /\ server'.exists \/ server'.fields = Blank
           /\ capable /\ hasServerSideApply = TRUE => hasServerSideApply' = TRUE
<1>1. CASE server' = server
    BY <1>1, KnownKept DEF ApplyInv, Blank
<1>2. CASE server' = Applied(object[c])
    BY <1>2, KnownKept DEF Applied
<1>3. CASE server' = Created(object[c])
    BY <1>3, KnownKept DEF Created
<1>4. CASE at[c] = "patch" /\ server' = Patched(seen[c], object[c])
    <2>1. server.exists
        BY <1>4 DEF ApplyInv, CallInv
    <2>2. server'.exists
        BY <1>4, <2>1 DEF Patched, CallsTypeOK
    <2> QED BY <2>2, KnownKept
<1> QED BY <1>1, <1>2, <1>3, <1>4, ServerCases

LEMMA CallStep ==
    ASSUME History, AtType, CallsTypeOK, ApplierTypeOK, FaultlessInv, ApplyInv,
           wanted \in [Callers -> Contents],
           NEW c \in Callers, ApplierSteps(c)
    PROVE  CallInv(c)'
<1> USE DEF AtType, ApplierTypeOK, CallsTypeOK
<1>1. /\ CallInv(c)
      /\ capable' = capable /\ (server.exists => server'.exists)
      /\ capable /\ hasServerSideApply = TRUE => hasServerSideApply' = TRUE
    BY ServerKept DEF ApplyInv
<1>2. at[c] # "apply" /\ at'[c] # "finished" =>
        /\ wanted'[c] = wanted[c]
        /\ met[c] \subseteq met'[c]
        /\ \A f \in Fields : server'.exists /\ server'.fields[f] = wanted[c][f] => f \in met'[c]
        /\ Covered(c) => Covered(c)'
    BY HistoryGoesOn
<1>3. CASE at'[c] \notin Applying \ {"apply"}
    BY <1>1, <1>3, CallKept
<1>4. CASE BeginApply(c)
    <2>1. at[c] = "apply" /\ at'[c] \in {"decide", "lock"} /\ ~once'[c] /\ ~err'[c] /\ object' = object
        BY <1>4 DEF BeginApply, Go
    <2>2. wanted'[c] = object'[c]
        BY <2>1 DEF History, Outside
    <2> QED BY <2>1, <2>2 DEF CallInv, Probed
<1>5. CASE LockOnce(c) \/ Wake(c) \/ Sleep(c)
    <2>1. /\ at[c] \in {"lock", "woken"} /\ at'[c] \in {"locked", "lock", "asleep"}
          /\ err' = err /\ object' = object
        BY <1>5 DEF LockOnce, Wake, Sleep, Go, applierVars
    <2>2. wanted[c] = object[c] /\ wanted'[c] = wanted[c]
        BY <1>1, <1>2, <2>1 DEF CallInv, Probed, Applying, UsesScheme
    <2> QED BY <1>1, <2>1, <2>2 DEF CallInv, Probed
<1>6. CASE CheckDone(c)
    <2>1. /\ at[c] = "locked" /\ once'[c] = ~done /\ err' = err /\ object' = object
          /\ at'[c] = IF done THEN "unlock" ELSE "probe"
        BY <1>6 DEF CheckDone, Go
    <2>2. wanted[c] = object[c] /\ wanted'[c] = wanted[c]
        BY <1>1, <1>2, <2>1 DEF CallInv, Probed, Applying, UsesScheme
    <2> QED BY <1>1, <2>1, <2>2 DEF CallInv, Probed
<1>7. CASE ProbeSucceeds(c)
    <2>1. /\ at[c] = "probe" /\ at'[c] = "unlock" /\ once' = once /\ err' = err /\ capable
          /\ server' = Applied(object[c]) /\ hasServerSideApply' = TRUE
        BY <1>7 DEF ProbeSucceeds, Go
    <2>2. wanted[c] = object[c] /\ wanted'[c] = wanted[c] /\ once[c] /\ ~err[c]
        BY <1>1, <1>2, <2>1 DEF CallInv, Probed, Applying, UsesScheme
    <2>3. Covered(c)'
        BY <1>2, <2>1, <2>2, AppliedFields DEF Covered
    <2>4. Probed(c)'
        BY <1>1, <2>1, <2>2 DEF Probed
    <2> QED BY <2>1, <2>3, <2>4 DEF CallInv
<1>8. CASE ProbeUnsupported(c)
    <2>1. at[c] = "probe" /\ at'[c] = "unlock" /\ ~capable /\ object' = object
        BY <1>8 DEF ProbeUnsupported, Go
    <2>2. wanted[c] = object[c] /\ wanted'[c] = wanted[c]
        BY <1>1, <1>2, <2>1 DEF CallInv, Probed, Applying, UsesScheme
    <2> QED BY <1>1, <2>1, <2>2 DEF CallInv, Probed
<1>9. CASE ProbeFails(c)
    <2>1. at[c] = "probe" /\ at'[c] = "unlock" /\ err'[c] /\ object' = object
        BY <1>9 DEF ProbeFails, Fail, Go
    <2>2. wanted[c] = object[c] /\ wanted'[c] = wanted[c]
        BY <1>1, <1>2, <2>1 DEF CallInv, Probed, Applying, UsesScheme
    <2> QED BY <2>1, <2>2 DEF CallInv, Probed
<1>10. CASE UnlockOnce(c)
    <2>1. at[c] = "unlock" /\ UNCHANGED <<object, once, err, seen>>
        BY <1>10 DEF UnlockOnce, Go
    <2>2. at'[c] = "decide" \/ at'[c] = "woken"
        BY <1>10 DEF UnlockOnce, Go
    <2>3. at'[c] = "decide"
        <3>1. \/ at' = [at EXCEPT ![c] = "decide"]
              \/ \E e \in Callers : at[e] = "asleep" /\ at' = [at EXCEPT ![c] = "decide", ![e] = "woken"]
            BY <1>10 DEF UnlockOnce, Go
        <3> QED BY <2>1, <3>1
    <2> QED BY <1>1, <2>1, <2>3, CallKept
<1>11. CASE UnlockOfUnlocked(c)
    BY <1>1, <1>11, CallKept DEF UnlockOfUnlocked, Die, applierVars
<1>12. CASE ProbeWasEnough(c)
    <2>1. /\ at[c] = "decide" /\ at'[c] = "applied" /\ ~err[c] /\ once[c] /\ hasServerSideApply = TRUE
        BY <1>12 DEF ProbeWasEnough, Go
    <2>2. Probed(c)
        BY <2>1 DEF Probed, FaultlessInv
    <2>3. Covered(c)'
        BY <1>1, <1>2, <2>1, <2>2 DEF CallInv
    <2> QED BY <2>1, <2>3 DEF CallInv, Probed
<1>13. CASE ServerSide(c) \/ ClientSide(c)
    <2>1. /\ at[c] = "decide" /\ at'[c] \in {"serverSideApply", "create"} /\ object' = object
          /\ ~once[c] \/ hasServerSideApply # TRUE
        BY <1>13 DEF ServerSide, ClientSide, Go
    <2>2. ~Probed(c)
        BY <1>1, <2>1 DEF CallInv, Probed
    <2>3. wanted[c] = object[c] /\ wanted'[c] = wanted[c]
        BY <1>1, <1>2, <2>1, <2>2 DEF CallInv, Applying, UsesScheme
    <2> QED BY <2>1, <2>3 DEF CallInv, Probed
<1>14. CASE ServerSideApply(c)
    <2>1. at[c] = "serverSideApply" /\ at'[c] = "applied" /\ server' = Applied(object[c])
        BY <1>14 DEF ServerSideApply, Go
    <2>2. wanted[c] = object[c] /\ wanted'[c] = wanted[c]
        BY <1>1, <1>2, <2>1 DEF CallInv, Probed, Applying, UsesScheme
    <2>3. Covered(c)'
        BY <1>2, <2>1, <2>2, AppliedFields DEF Covered
    <2> QED BY <2>1, <2>3 DEF CallInv, Probed
<1>15. CASE Create(c)
    <2>1. /\ at[c] = "create" /\ at'[c] = "applied"
          /\ server' = [exists |-> TRUE, owned |-> {}, fields |-> object[c]]
        BY <1>15 DEF Create, Created, Go
    <2>2. wanted[c] = object[c] /\ wanted'[c] = wanted[c]
        BY <1>1, <1>2, <2>1 DEF CallInv, Probed, Applying, UsesScheme
    <2>3. Covered(c)'
        BY <1>2, <2>1, <2>2 DEF Covered
    <2> QED BY <2>1, <2>3 DEF CallInv, Probed
<1>16. CASE AlreadyExists(c)
    <2>1. /\ at[c] = "create" /\ at'[c] = "get" /\ server.exists /\ object' = object
        BY <1>16 DEF AlreadyExists, Go
    <2>2. wanted[c] = object[c] /\ wanted'[c] = wanted[c]
        BY <1>1, <1>2, <2>1 DEF CallInv, Probed, Applying, UsesScheme
    <2> QED BY <1>1, <2>1, <2>2 DEF CallInv, Probed
<1>17. CASE GetEqual(c)
    <2>1. /\ at[c] = "get" /\ at'[c] = "applied" /\ server' = server
          /\ MergePatch(server.fields, object[c]) = {}
        BY <1>17 DEF GetEqual, Go
    <2>2. wanted[c] = object[c] /\ wanted'[c] = wanted[c] /\ server.exists
        BY <1>1, <1>2, <2>1 DEF CallInv, Probed, Applying, UsesScheme
    <2>3. \A f \in Fields : object[c][f] # Nil => server.fields[f] = object[c][f]
        BY <2>1 DEF MergePatch
    <2>4. Covered(c)'
        BY <1>2, <2>1, <2>2, <2>3 DEF Covered
    <2> QED BY <2>1, <2>4 DEF CallInv, Probed
<1>18. CASE Get(c)
    <2>1. /\ at[c] = "get" /\ at'[c] = "patch" /\ server' = server /\ object' = object
          /\ seen' = [seen EXCEPT ![c] = server.fields]
        BY <1>18 DEF Get, Go
    <2>2. wanted[c] = object[c] /\ wanted'[c] = wanted[c] /\ server.exists
        BY <1>1, <1>2, <2>1 DEF CallInv, Probed, Applying, UsesScheme
    <2>3. \A f \in Fields : object'[c][f] # Nil /\ seen'[c][f] = object'[c][f] => f \in met'[c]
        BY <1>2, <2>1, <2>2
    <2> QED BY <1>1, <2>1, <2>2, <2>3 DEF CallInv, Probed
<1>19. CASE Patch(c)
    <2>1. /\ at[c] = "patch" /\ at'[c] = "applied"
          /\ server' = [server EXCEPT !.fields = Overlay(@, MergePatch(seen[c], object[c]), object[c])]
        BY <1>19 DEF Patch, Patched, Go
    <2>2. wanted[c] = object[c] /\ wanted'[c] = wanted[c] /\ server.exists
        BY <1>1, <1>2, <2>1 DEF CallInv, Probed, Applying, UsesScheme
    <2>3. /\ server'.fields = Overlay(server.fields, MergePatch(seen[c], object[c]), object[c])
          /\ server'.exists
        BY <2>1, <2>2
    <2>4. ASSUME NEW f \in Fields, object[c][f] # Nil
          PROVE  f \in met'[c]
        <3>1. seen[c][f] = object[c][f] \/ server'.fields[f] = object[c][f]
            BY <2>3, <2>4, PatchedFields
        <3>2. CASE seen[c][f] = object[c][f]
            BY <1>1, <1>2, <2>1, <2>4, <3>2 DEF CallInv
        <3> QED BY <1>2, <2>1, <2>2, <2>3, <3>1, <3>2
    <2>5. Covered(c)'
        BY <2>2, <2>4 DEF Covered
    <2> QED BY <2>1, <2>5 DEF CallInv, Probed
<1>20. CASE ResetOnce(c) \/ ApplyReturns(c) \/ RequestFails(c)
    <2>1. at'[c] \in {"apply", "finished"}
        BY <1>20 DEF ResetOnce, ApplyReturns, RequestFails, Fail, Go
    <2>2. at'[c] \notin Applying \ {"apply"}
        BY <2>1 DEF Applying, UsesScheme
    <2> QED BY <1>3, <2>2
<1> QED BY <1>4, <1>5, <1>6, <1>7, <1>8, <1>9, <1>10, <1>11, <1>12, <1>13, <1>14, <1>15, <1>16,
           <1>17, <1>18, <1>19, <1>20 DEF ApplierSteps, Apply, TryServerSideApply

LEMMA ApplyStep ==
    ASSUME History, AtType, CallsTypeOK, ApplierTypeOK, FaultlessInv, ApplyInv,
           wanted \in [Callers -> Contents],
           NEW c \in Callers, ApplierSteps(c)
    PROVE  ApplyInv'
<1>1. /\ capable' = capable /\ (server.exists => server'.exists)
      /\ server'.exists \/ server'.fields = Blank
      /\ capable /\ hasServerSideApply = TRUE => hasServerSideApply' = TRUE
    BY ServerKept
<1>2. ASSUME NEW d \in Callers
      PROVE  CallInv(d)'
    <2>1. CASE d = c
        BY <2>1, CallStep
    <2>2. CASE d # c
        BY <1>1, <2>2, OthersKept, CallKept DEF ApplyInv
    <2> QED BY <2>1, <2>2
<1> QED BY <1>1, <1>2 DEF ApplyInv, Blank

-----------------------------------------------------------------------------
(* The types.                                                              *)

LEMMA FaultCounted ==
    ASSUME faults \in 0 .. MaxFaults, faults < MaxFaults, faults' = faults + 1
    PROVE  faults' \in 0 .. MaxFaults /\ faults' # 0
BY FaultsAssumption

LEMMA ClientTyped ==
    ASSUME CallsTypeOK, ClientsTypeOK, MapperInv, NEW c \in Callers, ClientSteps(c)
    PROVE  CallsTypeOK' /\ ClientsTypeOK'
<1>1. AtType' /\ UNCHANGED <<object, server>>
    BY ClientMoves DEF CallsTypeOK, AtType
<1>2. alive' \in BOOLEAN /\ faults' \in 0 .. MaxFaults
    <2>1. CASE NewClientWithConfig(c) \/ MapGroups(c) \/ DiscoverGroupResources(c)
        BY <2>1 DEF NewClientWithConfig, Lock, IsVersionRegistered, AddToScheme, Registered, Connect,
                    MapGroups, Discover, KnowsMapper, Mapped, DiscoverGroupResources, callVars, CallsTypeOK
    <2>2. CASE ConnectFails(c) \/ ServerGroupsFail(c) \/ DiscoverGroupFails(c)
        <3>1. /\ faults < MaxFaults /\ faults' = faults + 1
              /\ alive' = alive \/ alive' = FALSE
            BY <2>2 DEF ConnectFails, ServerGroupsFail, DiscoverGroupFails, Fail, Die
        <3> QED BY <3>1, FaultCounted DEF CallsTypeOK
    <2> QED BY <2>1, <2>2 DEF ClientSteps
<1>3. CallsTypeOK'
    BY <1>1, <1>2 DEF CallsTypeOK, AtType
<1>4. CASE Lock(c) \/ IsVersionRegistered(c) \/ AddToScheme(c) \/ Registered(c)
    BY <1>3, <1>4 DEF Lock, IsVersionRegistered, AddToScheme, Registered, clientVars, ClientsTypeOK
<1>5. CASE Connect(c) \/ ConnectFails(c)
    BY <1>3, <1>5 DEF Connect, ConnectFails, ClientsTypeOK
<1>6. CASE KnowsMapper(c) \/ Mapped(c) \/ ServerGroupsFail(c) \/ DiscoverGroupFails(c)
    BY <1>3, <1>6 DEF KnowsMapper, Mapped, ServerGroupsFail, DiscoverGroupFails, clientVars, ClientsTypeOK
<1>7. CASE Discover(c)
    <2>1. /\ loading' = [loading EXCEPT ![c] = Groups \intersect FastMapperAllowedAPIGroups]
          /\ mapper' = [mapper EXCEPT ![c] = {}]
          /\ UNCHANGED <<newClientMutex, registered, writers>>
        BY <1>7 DEF Discover
    <2>2. \A d \in Callers : mapper'[d] = Nil \/ mapper'[d] \subseteq Groups
        BY <2>1 DEF ClientsTypeOK, MapperInv
    <2> QED BY <1>3, <2>1, <2>2 DEF ClientsTypeOK
<1>8. CASE DiscoverGroupResources(c)
    <2>1. PICK g \in loading[c] :
            /\ loading' = [loading EXCEPT ![c] = @ \ {g}]
            /\ mapper' = [mapper EXCEPT ![c] = @ \union {g}]
        BY <1>8 DEF DiscoverGroupResources
    <2>2. UNCHANGED <<newClientMutex, registered, writers>>
        BY <1>8 DEF DiscoverGroupResources
    <2>3. mapper[c] \subseteq Groups /\ g \in Groups
        BY <2>1 DEF MapperInv, ClientsTypeOK
    <2>4. \A d \in Callers : mapper'[d] = Nil \/ mapper'[d] \subseteq Groups
        BY <2>1, <2>3 DEF ClientsTypeOK, MapperInv
    <2>5. loading' \in [Callers -> SUBSET Groups]
        BY <2>1 DEF ClientsTypeOK
    <2> QED BY <1>3, <2>2, <2>4, <2>5 DEF ClientsTypeOK
<1> QED BY <1>3, <1>4, <1>5, <1>6, <1>7, <1>8 DEF ClientSteps, NewClientWithConfig, MapGroups

LEMMA OwnTyped ==
    ASSUME CallsTypeOK, NEW c \in Callers, OwnSteps(c)
    PROVE  CallsTypeOK'
<1>1. AtType' /\ UNCHANGED <<server, alive, faults>>
    BY OwnMoves DEF CallsTypeOK, AtType
<1>2. object' \in [Callers -> Contents]
    BY ObjectsAssumption DEF OwnSteps, Configure, ListAndCopy, Prepare, CallsTypeOK
<1> QED BY <1>1, <1>2 DEF CallsTypeOK, AtType

LEMMA FactoryCallsTyped ==
    ASSUME CallsTypeOK, FactorySteps
    PROVE  CallsTypeOK'
<1>1. AtType' /\ UNCHANGED <<object, server, alive, faults>>
    BY FactoryMoves DEF CallsTypeOK, AtType
<1> QED BY <1>1 DEF CallsTypeOK, AtType

(* Objects of the server, and the answers decoded from them.               *)
ServerType == [exists: BOOLEAN, fields: Contents, owned: SUBSET Fields]

LEMMA AppliedTyped ==
    ASSUME server \in ServerType, NEW resource \in Contents
    PROVE  Applied(resource) \in ServerType
<1>1. ApplyPatch(resource) \in SUBSET Fields
    BY DEF ApplyPatch
<1>2. Applied(resource).fields \in Contents
    <2>1. Nil \in Values
        BY DEF Values
    <2> QED BY <2>1 DEF Applied, Overlay, Contents, ServerType
<1> QED BY <1>1, <1>2 DEF Applied, ServerType

LEMMA OverlayTyped ==
    ASSUME NEW fields \in Contents, NEW resource \in Contents, NEW patch
    PROVE  Overlay(fields, patch, resource) \in Contents
BY DEF Overlay, Contents

LEMMA DecodeTyped ==
    ASSUME object \in [Callers -> Contents], NEW c \in Callers, NEW fields \in Contents, Decode(c, fields)
    PROVE  object' \in [Callers -> Contents]
<1>1. [f \in Fields |-> IF fields[f] = Nil THEN object[c][f] ELSE fields[f]] \in Contents
    BY DEF Contents
<1> QED BY <1>1 DEF Decode

LEMMA ApplierCallsTyped ==
    ASSUME CallsTypeOK, ApplierTypeOK, NEW c \in Callers, ApplierSteps(c)
    PROVE  CallsTypeOK'
<1>1. AtType'
    BY ApplierMoves DEF CallsTypeOK, AtType
<1>2. object[c] \in Contents /\ server \in ServerType /\ server.fields \in Contents /\ seen[c] \in Contents
    BY DEF CallsTypeOK, ServerType, ApplierTypeOK
<1>3. /\ server' \in ServerType /\ server'.fields \in Contents
      /\ object' \in [Callers -> Contents]
    <2>1. server' \in ServerType /\ server'.fields \in Contents
        <3>1. CASE server' = server
            BY <1>2, <3>1
        <3>2. CASE server' = Applied(object[c])
            BY <1>2, <3>2, AppliedTyped DEF ServerType
        <3>3. CASE server' = Created(object[c])
            BY <1>2, <3>3 DEF Created, ServerType
        <3>4. CASE server' = Patched(seen[c], object[c])
            <4>1. Overlay(server.fields, MergePatch(seen[c], object[c]), object[c]) \in Contents
                BY <1>2, OverlayTyped
            <4> QED BY <1>2, <3>4, <4>1 DEF Patched, ServerType
        <3> QED BY <3>1, <3>2, <3>3, <3>4, ServerCases
    <2>2. object' = object \/ Decode(c, server'.fields) \/ Decode(c, server.fields)
        BY DEF ApplierSteps, Apply, TryServerSideApply, BeginApply, LockOnce, Wake, Sleep, CheckDone,
               ProbeSucceeds, ProbeUnsupported, ProbeFails, UnlockOnce, UnlockOfUnlocked, ResetOnce,
               ProbeWasEnough, ServerSide, ClientSide, ServerSideApply, Create, AlreadyExists, GetEqual,
               Get, Patch, RequestFails, ApplyReturns
    <2> QED BY <1>2, <2>1, <2>2, DecodeTyped DEF CallsTypeOK
<1>4. alive' \in BOOLEAN /\ faults' \in 0 .. MaxFaults
    <2>1. CASE UNCHANGED <<alive, faults>>
        BY <2>1 DEF CallsTypeOK
    <2>2. CASE ProbeFails(c) \/ RequestFails(c)
        <3>1. faults < MaxFaults /\ faults' = faults + 1 /\ alive' = alive
            BY <2>2 DEF ProbeFails, RequestFails, Fail
        <3> QED BY <3>1, FaultCounted DEF CallsTypeOK
    <2>3. CASE UnlockOfUnlocked(c)
        BY <2>3 DEF UnlockOfUnlocked, Die, CallsTypeOK
    <2>4. CASE \/ BeginApply(c) \/ LockOnce(c) \/ Wake(c) \/ Sleep(c) \/ CheckDone(c)
               \/ ProbeSucceeds(c) \/ ProbeUnsupported(c) \/ UnlockOnce(c) \/ ResetOnce(c)
        BY <2>1, <2>4 DEF BeginApply, LockOnce, Wake, Sleep, CheckDone, ProbeSucceeds, ProbeUnsupported,
                          UnlockOnce, ResetOnce
    <2>5. CASE \/ ProbeWasEnough(c) \/ ServerSide(c) \/ ClientSide(c) \/ ApplyReturns(c)
               \/ AlreadyExists(c) \/ Get(c) \/ GetEqual(c) \/ Patch(c) \/ Create(c) \/ ServerSideApply(c)
        BY <2>1, <2>5 DEF ProbeWasEnough, ServerSide, ClientSide, ApplyReturns, AlreadyExists, Get, GetEqual,
                          Patch, Create, ServerSideApply
    <2> QED BY <2>2, <2>3, <2>4, <2>5 DEF ApplierSteps, Apply, TryServerSideApply
<1> QED BY <1>1, <1>3, <1>4 DEF CallsTypeOK, AtType, ServerType

LEMMA WaitersTyped ==
    ASSUME waiters \in Nat, waiters <= Cardinality(Asleep)
    PROVE  waiters \in 0 .. Cardinality(Callers)
BY AsleepFinite

LEMMA ApplierTyped ==
    ASSUME CallsTypeOK, ApplierTypeOK, OnceInv', NEW c \in Callers, ApplierSteps(c)
    PROVE  ApplierTypeOK'
<1>1. waiters \in Nat /\ server.fields \in Contents
    BY DEF ApplierTypeOK, CallsTypeOK
<1>2. CASE UNCHANGED applierVars
    BY <1>2 DEF ApplierTypeOK, applierVars
<1>3. CASE BeginApply(c) \/ ClientSide(c)
    BY <1>3 DEF BeginApply, ClientSide, ApplierTypeOK
<1>4. CASE LockOnce(c) \/ Get(c)
    BY <1>1, <1>4 DEF LockOnce, Get, ApplierTypeOK
<1>5. CASE CheckDone(c)
    BY <1>5 DEF CheckDone, ApplierTypeOK
<1>6. CASE ProbeSucceeds(c) \/ ProbeUnsupported(c)
    BY <1>6 DEF ProbeSucceeds, ProbeUnsupported, ApplierTypeOK
<1>7. CASE ProbeFails(c)
    BY <1>7 DEF ProbeFails, ApplierTypeOK
<1>8. CASE Sleep(c)
    <2>1. waiters' \in Nat /\ UNCHANGED <<capable, done, locked, hasServerSideApply, once, err, seen, raced, fellBack>>
        BY <1>1, <1>8 DEF Sleep
    <2>2. waiters' \in 0 .. Cardinality(Callers)
        <3>1. (waiters \in Nat /\ waiters <= Cardinality(Asleep) => waiters \in 0 .. Cardinality(Callers))'
            BY WaitersTyped, PTL
        <3> QED BY <2>1, <3>1 DEF OnceInv
    <2> QED BY <2>1, <2>2 DEF ApplierTypeOK
<1>9. CASE UnlockOnce(c)
    <2>1. /\ waiters' \in 0 .. Cardinality(Callers)
          /\ done' = (done \/ once[c]) /\ locked' = FALSE
          /\ UNCHANGED <<capable, hasServerSideApply, once, err, seen, raced, fellBack>>
        BY <1>9, AsleepFinite DEF UnlockOnce, ApplierTypeOK
    <2> QED BY <2>1 DEF ApplierTypeOK
<1>10. CASE ResetOnce(c)
    <2>1. /\ done' = FALSE /\ locked' = FALSE /\ waiters' = 0 /\ raced' = TRUE
          /\ UNCHANGED <<capable, hasServerSideApply, once, err, seen, fellBack>>
        BY <1>10 DEF ResetOnce
    <2>2. waiters' \in 0 .. Cardinality(Callers)
        BY <2>1, AsleepFinite
    <2> QED BY <2>1, <2>2 DEF ApplierTypeOK
<1>11. CASE \/ Wake(c) \/ UnlockOfUnlocked(c) \/ ProbeWasEnough(c) \/ ServerSide(c) \/ ApplyReturns(c)
            \/ AlreadyExists(c) \/ GetEqual(c) \/ Patch(c) \/ Create(c) \/ ServerSideApply(c) \/ RequestFails(c)
    BY <1>2, <1>11 DEF Wake, UnlockOfUnlocked, ProbeWasEnough, ServerSide, ApplyReturns, AlreadyExists,
                       GetEqual, Patch, Create, ServerSideApply, RequestFails
<1> QED BY <1>3, <1>4, <1>5, <1>6, <1>7, <1>8, <1>9, <1>10, <1>11
        DEF ApplierSteps, Apply, TryServerSideApply

LEMMA HistoryTyped ==
    ASSUME History, object \in [Callers -> Contents], wanted \in [Callers -> Contents],
           met \in [Callers -> SUBSET Fields]
    PROVE  wanted' \in [Callers -> Contents] /\ met' \in [Callers -> SUBSET Fields]
<1>1. Blank \in Contents
    BY DEF Blank, Contents, Values
<1> QED BY <1>1 DEF History

-----------------------------------------------------------------------------
(* Copies of CamelApps.                                                    *)

(* Records of which fields are set again.                                  *)
LEMMA OneSet == 
    ASSUME NEW a, NEW b
    PROVE  /\ [[LastTimestamp |-> a] EXCEPT !.LastTimestamp = b] = [LastTimestamp |-> b]
           /\ [[Exchange |-> a] EXCEPT !.Exchange = b] = [Exchange |-> b]
           /\ [[Annotations |-> a] EXCEPT !.Annotations = b] = [Annotations |-> b]
OBVIOUS

LEMMA RateSet ==
    ASSUME NEW a, NEW b, NEW a2, NEW b2
    PROVE  [[SamplingIntervalDuration |-> a, LastTimestamp |-> b]
              EXCEPT !.SamplingIntervalDuration = a2, !.LastTimestamp = b2]
             = [SamplingIntervalDuration |-> a2, LastTimestamp |-> b2]
<1>1. \A r : [r EXCEPT !.SamplingIntervalDuration = a2, !.LastTimestamp = b2]
               = [[r EXCEPT !.SamplingIntervalDuration = a2] EXCEPT !.LastTimestamp = b2]
    OBVIOUS
<1>2. [[SamplingIntervalDuration |-> a, LastTimestamp |-> b] EXCEPT !.SamplingIntervalDuration = a2]
        = [SamplingIntervalDuration |-> a2, LastTimestamp |-> b]
    OBVIOUS
<1>3. [[SamplingIntervalDuration |-> a2, LastTimestamp |-> b] EXCEPT !.LastTimestamp = b2]
        = [SamplingIntervalDuration |-> a2, LastTimestamp |-> b2]
    OBVIOUS
<1> QED BY <1>1, <1>2, <1>3

LEMMA AppSet ==
    ASSUME NEW a, NEW b, NEW a2, NEW b2
    PROVE  [[ObjectMeta |-> a, Status |-> b] EXCEPT !.ObjectMeta = a2, !.Status = b2]
             = [ObjectMeta |-> a2, Status |-> b2]
<1>1. \A r : [r EXCEPT !.ObjectMeta = a2, !.Status = b2] = [[r EXCEPT !.ObjectMeta = a2] EXCEPT !.Status = b2]
    OBVIOUS
<1>2. [[ObjectMeta |-> a, Status |-> b] EXCEPT !.ObjectMeta = a2] = [ObjectMeta |-> a2, Status |-> b]
    OBVIOUS
<1>3. [[ObjectMeta |-> a2, Status |-> b] EXCEPT !.Status = b2] = [ObjectMeta |-> a2, Status |-> b2]
    OBVIOUS
<1> QED BY <1>1, <1>2, <1>3

LEMMA PodSet ==
    ASSUME NEW a, NEW b, NEW d, NEW a2, NEW b2, NEW d2
    PROVE  [[UptimeTimestamp |-> a, ObservabilityService |-> b, Runtime |-> d]
              EXCEPT !.UptimeTimestamp = a2, !.ObservabilityService = b2, !.Runtime = d2]
             = [UptimeTimestamp |-> a2, ObservabilityService |-> b2, Runtime |-> d2]
<1>1. \A r : [r EXCEPT !.UptimeTimestamp = a2, !.ObservabilityService = b2, !.Runtime = d2]
               = [[[r EXCEPT !.UptimeTimestamp = a2] EXCEPT !.ObservabilityService = b2] EXCEPT !.Runtime = d2]
    OBVIOUS
<1>2. [[UptimeTimestamp |-> a, ObservabilityService |-> b, Runtime |-> d] EXCEPT !.UptimeTimestamp = a2]
        = [UptimeTimestamp |-> a2, ObservabilityService |-> b, Runtime |-> d]
    OBVIOUS
<1>3. [[UptimeTimestamp |-> a2, ObservabilityService |-> b, Runtime |-> d] EXCEPT !.ObservabilityService = b2]
        = [UptimeTimestamp |-> a2, ObservabilityService |-> b2, Runtime |-> d]
    OBVIOUS
<1>4. [[UptimeTimestamp |-> a2, ObservabilityService |-> b2, Runtime |-> d] EXCEPT !.Runtime = d2]
        = [UptimeTimestamp |-> a2, ObservabilityService |-> b2, Runtime |-> d2]
    OBVIOUS
<1> QED BY <1>1, <1>2, <1>3, <1>4

LEMMA ExchangeCopied ==
    ASSUME NEW c
    PROVE  ExchangeInfoInto(ExchangeInfo(Cache), c) = ExchangeInfo(c)
BY ReferenceAssumption DEF ExchangeInfoInto, ExchangeInfo, New, Plain, Ref

LEMMA RuntimeCopied ==
    ASSUME NEW c
    PROVE  RuntimeInfoInto(RuntimeInfo(Cache), c) = RuntimeInfo(c)
BY ReferenceAssumption, ExchangeCopied DEF RuntimeInfoInto, RuntimeInfo, New, Ref

LEMMA StatusSet ==
    ASSUME NEW a, NEW b, NEW d, NEW e, NEW a2, NEW b2, NEW d2, NEW e2
    PROVE  [[Pods |-> a, Replicas |-> b, SuccessRate |-> d, Conditions |-> e]
              EXCEPT !.Pods = a2, !.Replicas = b2, !.SuccessRate = d2, !.Conditions = e2]
             = [Pods |-> a2, Replicas |-> b2, SuccessRate |-> d2, Conditions |-> e2]
<1>1. \A r : [r EXCEPT !.Pods = a2, !.Replicas = b2, !.SuccessRate = d2, !.Conditions = e2]
               = [[[[r EXCEPT !.Pods = a2] EXCEPT !.Replicas = b2]
                     EXCEPT !.SuccessRate = d2] EXCEPT !.Conditions = e2]
    OBVIOUS
<1>2. [[Pods |-> a, Replicas |-> b, SuccessRate |-> d, Conditions |-> e] EXCEPT !.Pods = a2]
        = [Pods |-> a2, Replicas |-> b, SuccessRate |-> d, Conditions |-> e]
    OBVIOUS
<1>3. [[Pods |-> a2, Replicas |-> b, SuccessRate |-> d, Conditions |-> e] EXCEPT !.Replicas = b2]
        = [Pods |-> a2, Replicas |-> b2, SuccessRate |-> d, Conditions |-> e]
    OBVIOUS
<1>4. [[Pods |-> a2, Replicas |-> b2, SuccessRate |-> d, Conditions |-> e] EXCEPT !.SuccessRate = d2]
        = [Pods |-> a2, Replicas |-> b2, SuccessRate |-> d2, Conditions |-> e]
    OBVIOUS
<1>5. [[Pods |-> a2, Replicas |-> b2, SuccessRate |-> d2, Conditions |-> e] EXCEPT !.Conditions = e2]
        = [Pods |-> a2, Replicas |-> b2, SuccessRate |-> d2, Conditions |-> e2]
    OBVIOUS
<1> QED BY <1>1, <1>2, <1>3, <1>4, <1>5

LEMMA PodCopied ==
    ASSUME NEW c
    PROVE  PodInfoInto(PodInfo(Cache), c) = PodInfo(c)
<1> DEFINE Renewed(ref) == IF ref = Nil THEN Nil ELSE Ref(c, ref.content)
           RuntimeRenewed(ref) == IF ref = Nil THEN Nil ELSE Ref(c, RuntimeInfoInto(ref.content, c))
           pod == PodInfo(Cache)
<1>1. \A p : PodInfoInto(p, c) = [p EXCEPT !.UptimeTimestamp = Renewed(p.UptimeTimestamp),
                                           !.ObservabilityService = Renewed(p.ObservabilityService),
                                           !.Runtime = RuntimeRenewed(p.Runtime)]
    BY DEF PodInfoInto, New, Plain
<1>2. Renewed(pod.UptimeTimestamp) = Ref(c, Nil) /\ Renewed(pod.ObservabilityService) = Ref(c, Nil)
    BY ReferenceAssumption DEF PodInfo, Ref
<1>3. RuntimeRenewed(pod.Runtime) = Ref(c, RuntimeInfo(c))
    BY ReferenceAssumption, RuntimeCopied DEF PodInfo, Ref
<1>4. pod = [UptimeTimestamp |-> Ref(Cache, Nil), ObservabilityService |-> Ref(Cache, Nil),
             Runtime |-> Ref(Cache, RuntimeInfo(Cache))]
    BY DEF PodInfo
<1> HIDE DEF Renewed, RuntimeRenewed, pod
<1>5. PodInfoInto(pod, c) = [pod EXCEPT !.UptimeTimestamp = Ref(c, Nil), !.ObservabilityService = Ref(c, Nil),
                                        !.Runtime = Ref(c, RuntimeInfo(c))]
    BY <1>1, <1>2, <1>3
<1>6. PodInfoInto(pod, c) = PodInfo(c)
    BY <1>4, <1>5, PodSet DEF PodInfo
<1> QED BY <1>6 DEF pod

LEMMA RateCopied ==
    ASSUME NEW c
    PROVE  SLIExchangeSuccessRateInto(SLIExchangeSuccessRate(Cache), c) = SLIExchangeSuccessRate(c)
<1> DEFINE Renewed(ref) == IF ref = Nil THEN Nil ELSE Ref(c, ref.content)
           rate == SLIExchangeSuccessRate(Cache)
<1>1. \A r : SLIExchangeSuccessRateInto(r, c)
               = [r EXCEPT !.SamplingIntervalDuration = Renewed(r.SamplingIntervalDuration),
                           !.LastTimestamp = Renewed(r.LastTimestamp)]
    BY DEF SLIExchangeSuccessRateInto, New, Plain
<1>2. Renewed(rate.SamplingIntervalDuration) = Ref(c, Nil) /\ Renewed(rate.LastTimestamp) = Ref(c, Nil)
    BY ReferenceAssumption DEF SLIExchangeSuccessRate, Ref
<1>3. rate = [SamplingIntervalDuration |-> Ref(Cache, Nil), LastTimestamp |-> Ref(Cache, Nil)]
    BY DEF SLIExchangeSuccessRate
<1> HIDE DEF Renewed, rate
<1>4. SLIExchangeSuccessRateInto(rate, c)
        = [rate EXCEPT !.SamplingIntervalDuration = Ref(c, Nil), !.LastTimestamp = Ref(c, Nil)]
    BY <1>1, <1>2
<1>5. SLIExchangeSuccessRateInto(rate, c) = SLIExchangeSuccessRate(c)
    BY <1>3, <1>4, RateSet DEF SLIExchangeSuccessRate
<1> QED BY <1>5 DEF rate

LEMMA PodsCopied ==
    ASSUME NEW c
    PROVE  PodsInto(<<PodInfo(Cache)>>, c) = <<PodInfo(c)>>
BY PodCopied DEF PodsInto, Each

LEMMA StatusCopied ==
    ASSUME NEW c
    PROVE  CamelAppStatusInto(CamelAppStatus(Cache), c) = CamelAppStatus(c)
<1> DEFINE Renewed(ref) == IF ref = Nil THEN Nil ELSE Ref(c, ref.content)
           PodsRenewed(ref) == IF ref = Nil THEN Nil ELSE Ref(c, PodsInto(ref.content, c))
           RateRenewed(ref) == IF ref = Nil THEN Nil ELSE Ref(c, SLIExchangeSuccessRateInto(ref.content, c))
           status == CamelAppStatus(Cache)
<1>1. \A s : CamelAppStatusInto(s, c) = [s EXCEPT !.Pods = PodsRenewed(s.Pods), !.Replicas = Renewed(s.Replicas),
                                                  !.SuccessRate = RateRenewed(s.SuccessRate),
                                                  !.Conditions = Renewed(s.Conditions)]
    BY DEF CamelAppStatusInto, New, Plain
<1>2. Renewed(status.Replicas) = Ref(c, Nil) /\ Renewed(status.Conditions) = Ref(c, Nil)
    BY ReferenceAssumption DEF CamelAppStatus, Ref
<1>3. PodsRenewed(status.Pods) = Ref(c, <<PodInfo(c)>>)
    BY ReferenceAssumption, PodsCopied DEF CamelAppStatus, Ref
<1>4. RateRenewed(status.SuccessRate) = Ref(c, SLIExchangeSuccessRate(c))
    BY ReferenceAssumption, RateCopied DEF CamelAppStatus, Ref
<1>5. status = [Pods |-> Ref(Cache, <<PodInfo(Cache)>>), Replicas |-> Ref(Cache, Nil),
                SuccessRate |-> Ref(Cache, SLIExchangeSuccessRate(Cache)), Conditions |-> Ref(Cache, Nil)]
    BY DEF CamelAppStatus
<1> HIDE DEF Renewed, PodsRenewed, RateRenewed, status
<1>6. CamelAppStatusInto(status, c)
        = [status EXCEPT !.Pods = Ref(c, <<PodInfo(c)>>), !.Replicas = Ref(c, Nil),
                         !.SuccessRate = Ref(c, SLIExchangeSuccessRate(c)), !.Conditions = Ref(c, Nil)]
    BY <1>1, <1>2, <1>3, <1>4
<1>7. CamelAppStatusInto(status, c) = CamelAppStatus(c)
    BY <1>5, <1>6, StatusSet DEF CamelAppStatus
<1> QED BY <1>7 DEF status

LEMMA AppCopied ==
    ASSUME NEW c
    PROVE  CamelAppInto(CamelApp(Cache), c) = CamelApp(c)
<1> DEFINE app == CamelApp(Cache)
           meta == [Annotations |-> Ref(c, Nil)]
<1>1. \A a : CamelAppInto(a, c) = [a EXCEPT !.ObjectMeta = ObjectMetaInto(a.ObjectMeta, c),
                                            !.Status = CamelAppStatusInto(a.Status, c)]
    BY DEF CamelAppInto
<1>2. ObjectMetaInto(app.ObjectMeta, c) = meta
    BY ReferenceAssumption DEF CamelApp, ObjectMetaInto, New, Plain, Ref
<1>3. CamelAppStatusInto(app.Status, c) = CamelAppStatus(c)
    BY StatusCopied DEF CamelApp
<1>4. app = [ObjectMeta |-> [Annotations |-> Ref(Cache, Nil)], Status |-> CamelAppStatus(Cache)]
    BY DEF CamelApp
<1> HIDE DEF app, meta
<1>5. CamelAppInto(app, c) = [app EXCEPT !.ObjectMeta = meta, !.Status = CamelAppStatus(c)]
    BY <1>1, <1>2, <1>3
<1>6. CamelAppInto(app, c) = [ObjectMeta |-> meta, Status |-> CamelAppStatus(c)]
    BY <1>4, <1>5, AppSet
<1> QED BY <1>6 DEF app, meta, CamelApp

LEMMA OneOwner ==
    ASSUME NEW c, NEW p \in DOMAIN Owners(CamelApp(Cache))
    PROVE  Owners(CamelApp(c))[p] = c
<1> DEFINE app == CamelApp(c)
           status == app.Status
           pod == status.Pods.content[1]
<1>1. app.ObjectMeta.Annotations.owner = c /\ status = CamelAppStatus(c)
    BY DEF CamelApp, Ref
<1>2. /\ status.Pods = Ref(c, <<PodInfo(c)>>) /\ status.Replicas = Ref(c, Nil)
      /\ status.SuccessRate = Ref(c, SLIExchangeSuccessRate(c)) /\ status.Conditions = Ref(c, Nil)
    BY <1>1 DEF CamelAppStatus
<1>3. /\ status.Pods.owner = c /\ status.Replicas.owner = c
      /\ status.SuccessRate.owner = c /\ status.Conditions.owner = c
      /\ status.SuccessRate.content = SLIExchangeSuccessRate(c) /\ pod = PodInfo(c)
    BY <1>2 DEF Ref
<1>4. /\ status.SuccessRate.content.SamplingIntervalDuration.owner = c
      /\ status.SuccessRate.content.LastTimestamp.owner = c
    BY <1>3 DEF SLIExchangeSuccessRate, Ref
<1>5. /\ pod.UptimeTimestamp.owner = c /\ pod.ObservabilityService.owner = c /\ pod.Runtime.owner = c
      /\ pod.Runtime.content = RuntimeInfo(c)
    BY <1>3 DEF PodInfo, Ref
<1>6. /\ pod.Runtime.content.Exchange.owner = c
      /\ pod.Runtime.content.Exchange.content.LastTimestamp.owner = c
    BY <1>5 DEF RuntimeInfo, ExchangeInfo, Ref
<1> HIDE DEF app
<1>7. p \in {"Annotations", "Pods", "UptimeTimestamp", "ObservabilityService", "Runtime", "Exchange",
             "LastExchange", "Replicas", "SuccessRate", "SamplingInterval", "LastMessage", "Conditions"}
    BY DEF Owners
<1>8. Owners(app)[p] = c
    BY <1>1, <1>3, <1>4, <1>5, <1>6, <1>7 DEF Owners
<1> QED BY <1>8 DEF app

(* Nothing of a copy is in the cache.                                      *)
LEMMA NothingShared ==
    ASSUME NEW c \in Callers
    PROVE  SharedPieces[c] = {}
<1>1. c # Cache
    BY CallersAssumption
<1>2. DeepCopy[c] = Owners(CamelApp(c))
    BY AppCopied DEF DeepCopy
<1>3. \A p \in Pieces : DeepCopy[c][p] # Cache
    BY <1>1, <1>2, OneOwner DEF Pieces
<1> QED BY <1>3 DEF SharedPieces

-----------------------------------------------------------------------------
(* The invariant holds.                                                    *)

LEMMA InitIInv ==
    ASSUME Init
    PROVE  IInv
<1> USE DEF Init, CallsInit, ClientsInit, FactoryInit, ApplierInit
<1>1. Cardinality(Callers) \in Nat /\ Cardinality(Kinds) \in Nat
    BY CallersAssumption, KindsAssumption, FS_CardinalityType
<1>2. Blank \in Contents /\ Initial \in Contents
    BY DEF Blank, Initial, Contents, Values
<1>3. CallsTypeOK
    <2>1. server \in ServerType
        BY <1>2 DEF ServerType
    <2>2. at \in [Callers -> Places]
        BY DEF Places
    <2>3. faults \in 0 .. MaxFaults
        BY FaultsAssumption
    <2>4. object \in [Callers -> Contents]
        BY <1>2
    <2> QED BY <2>1, <2>2, <2>3, <2>4 DEF CallsTypeOK, ServerType
<1>4. ClientsTypeOK
    BY DEF ClientsTypeOK
<1>5. FactoryTypeOK
    <2>1. wg \in 0 .. Cardinality(Kinds)
        BY <1>1
    <2>2. routine \in [Kinds -> {"none", "started", "running", "ended"}]
        OBVIOUS
    <2>3. wants \in [Callers -> Kinds \union {Nil}] /\ stopCh \in [Kinds -> Callers \union {Nil}]
        OBVIOUS
    <2>4. waiting \in [Callers -> SUBSET Kinds]
        OBVIOUS
    <2> QED BY <2>1, <2>2, <2>3, <2>4 DEF FactoryTypeOK
<1>6. ApplierTypeOK
    <2>1. waiters \in 0 .. Cardinality(Callers)
        BY <1>1
    <2>2. once \in [Callers -> BOOLEAN] /\ err \in [Callers -> BOOLEAN]
        OBVIOUS
    <2>3. seen \in [Callers -> Contents]
        BY <1>2
    <2> QED BY <2>1, <2>2, <2>3 DEF ApplierTypeOK
<1>7. TypeOK
    BY <1>2, <1>3, <1>4, <1>5, <1>6 DEF TypeOK
<1>8. \A c \in Callers : at[c] = "new"
    OBVIOUS
<1>9. SchemeInv
    BY <1>8 DEF SchemeInv, Creating
<1>10. MapperInv
    BY <1>8 DEF MapperInv, Unused, Creating, Applying, UsesScheme
<1>11. RoutineInv /\ WaitInv
    <2>1. Active = {}
        BY DEF Active
    <2> QED BY <1>8, <2>1, FS_EmptySet DEF RoutineInv, WaitInv
<1>12. OnceInv
    BY <1>8, AsleepFinite DEF OnceInv, Holding
<1>13. FaultlessInv
    <2>1. hasServerSideApply # TRUE
        BY NilAssumption
    <2> QED BY <1>8, <2>1 DEF FaultlessInv
<1>14. ApplyInv
    BY <1>8 DEF ApplyInv, CallInv, Probed, Applying, UsesScheme
<1> QED BY <1>7, <1>9, <1>10, <1>11, <1>12, <1>13, <1>14 DEF IInv

LEMMA OutcomeIsBoolean ==
    ASSUME NEW asIs, garbled' = (garbled \/ ~asIs)
    PROVE  garbled' \in BOOLEAN
OBVIOUS

LEMMA NextIInv ==
    ASSUME IInv, Next
    PROVE  IInv'
<1> USE DEF IInv
<1>1. /\ CallsTypeOK /\ ClientsTypeOK /\ FactoryTypeOK /\ ApplierTypeOK /\ AtType /\ faults \in Nat
      /\ garbled \in BOOLEAN /\ touched \subseteq Pieces
      /\ wanted \in [Callers -> Contents] /\ met \in [Callers -> SUBSET Fields]
      /\ object \in [Callers -> Contents]
    BY FaultsAssumption DEF TypeOK, CallsTypeOK, AtType
<1>2. History /\ wanted' \in [Callers -> Contents] /\ met' \in [Callers -> SUBSET Fields]
    BY <1>1, NextCases, HistoryTyped
<1>3. ASSUME NEW c \in Callers, ClientSteps(c), UNCHANGED <<factoryVars, applierVars, garbled, touched>>
      PROVE  IInv'
    <2>1. /\ UNCHANGED <<object, server>> /\ (faults' = 0 => faults = 0 /\ alive' = alive)
          /\ Fixed((Applying \ {"apply"}) \union FactoryPlaces)
        BY <1>1, <1>3, ClientMoves
    <2>2. /\ Fixed(Applying \ {"apply"}) /\ Fixed(Holding \union {"asleep"})
          /\ NoEntry({"unlock", "decide"}) /\ NoEntry(AskedPlaces)
        BY <2>1 DEF Fixed, NoEntry, Holding, Applying, UsesScheme, AskedPlaces, FactoryPlaces
    <2>3. CallsTypeOK' /\ ClientsTypeOK'
        BY <1>1, <1>3, ClientTyped
    <2>4. FactoryTypeOK' /\ ApplierTypeOK'
        BY <1>1, <1>3 DEF FactoryTypeOK, factoryVars, ApplierTypeOK, applierVars
    <2>5. TypeOK'
        BY <1>1, <1>2, <1>3, <2>3, <2>4 DEF TypeOK
    <2>6. SchemeInv' /\ MapperInv'
        BY <1>1, <1>3, SchemeStep, MapperStep
    <2>7. RoutineInv' /\ WaitInv'
        BY <1>3, <2>2, FactoryElsewhere
    <2>8. OnceInv' /\ FaultlessInv'
        BY <1>1, <1>3, <2>1, <2>2, OnceElsewhere, FaultlessElsewhere DEF applierVars
    <2>9. ApplyInv'
        BY <1>2, <1>3, <2>1, <2>2, ApplyElsewhere
    <2> QED BY <2>5, <2>6, <2>7, <2>8, <2>9
<1>4. ASSUME FactorySteps, UNCHANGED <<clientVars, applierVars, garbled, touched>>
      PROVE  IInv'
    <2>1. /\ UNCHANGED <<object, server, alive, faults>> /\ Fixed(Applying \union Unused \union {"map"})
        BY <1>1, <1>4, FactoryMoves
    <2>2. /\ Fixed(Applying \ {"apply"}) /\ Fixed(Holding \union {"asleep"})
          /\ Fixed(Creating \union {"new"}) /\ Fixed({"map"})
          /\ NoEntry({"unlock", "decide"})
          /\ \A c \in Callers : /\ at'[c] \in Unused => at[c] \in Unused
                                /\ at'[c] \in Applying => at[c] \in Applying
        BY <2>1 DEF Fixed, NoEntry, Holding, Applying, UsesScheme, Unused, Creating
    <2>3. RoutineInv' /\ WaitInv'
        BY <1>1, <1>4, FactoryStep
    <2>4. CallsTypeOK' /\ FactoryTypeOK'
        BY <1>1, <1>4, <2>3, FactoryCallsTyped, FactoryTyped
    <2>5. ClientsTypeOK' /\ ApplierTypeOK'
        BY <1>1, <1>4 DEF ClientsTypeOK, clientVars, ApplierTypeOK, applierVars
    <2>6. TypeOK'
        BY <1>1, <1>2, <1>4, <2>4, <2>5 DEF TypeOK
    <2>7. SchemeInv' /\ MapperInv'
        BY <1>4, <2>2, SchemeElsewhere, MapperElsewhere DEF clientVars
    <2>8. OnceInv' /\ FaultlessInv'
        BY <1>1, <1>4, <2>1, <2>2, OnceElsewhere, FaultlessElsewhere DEF applierVars
    <2>9. ApplyInv'
        BY <1>2, <1>4, <2>1, <2>2, ApplyElsewhere
    <2> QED BY <2>3, <2>6, <2>7, <2>8, <2>9
<1>5. ASSUME NEW c \in Callers, ApplierSteps(c), UNCHANGED <<clientVars, factoryVars, garbled, touched>>
      PROVE  IInv'
    <2>1. /\ Fixed(Unused \union FactoryPlaces \union {"map"})
          /\ \A d \in Callers : at'[d] \in Applying => at[d] \in Applying
        BY <1>1, <1>5, ApplierMoves
    <2>2. /\ Fixed(Creating \union {"new"}) /\ Fixed({"map"}) /\ NoEntry(AskedPlaces)
          /\ \A d \in Callers : /\ at'[d] \in Unused => at[d] \in Unused
                                /\ at'[d] \in Applying => at[d] \in Applying
        BY <2>1 DEF Fixed, NoEntry, Unused, Creating, AskedPlaces, FactoryPlaces
    <2>3. OnceInv' /\ FaultlessInv'
        BY <1>1, <1>5, OnceStep, FaultlessStep
    <2>4. ApplyInv'
        BY <1>1, <1>2, <1>5, ApplyStep
    <2>5. CallsTypeOK' /\ ApplierTypeOK'
        BY <1>1, <1>5, <2>3, ApplierCallsTyped, ApplierTyped
    <2>6. ClientsTypeOK' /\ FactoryTypeOK'
        BY <1>1, <1>5 DEF ClientsTypeOK, clientVars, FactoryTypeOK, factoryVars
    <2>7. TypeOK'
        BY <1>1, <1>2, <1>5, <2>5, <2>6 DEF TypeOK
    <2>8. SchemeInv' /\ MapperInv'
        BY <1>5, <2>2, SchemeElsewhere, MapperElsewhere DEF clientVars
    <2>9. RoutineInv' /\ WaitInv'
        BY <1>5, <2>2, FactoryElsewhere
    <2> QED BY <2>3, <2>4, <2>7, <2>8, <2>9
<1>6. ASSUME NEW c \in Callers, OwnSteps(c), UNCHANGED <<clientVars, factoryVars, applierVars>>,
             garbled' \in BOOLEAN, touched' \subseteq Pieces
      PROVE  IInv'
    <2>1. /\ UNCHANGED <<server, alive, faults>>
          /\ Fixed(Applying \union Creating \union {"new", "map"})
          /\ NoEntry((FactoryPlaces \ {"shutdown"}) \union {"prepare"})
          /\ \A d \in Callers : at'[d] \in Unused => at[d] \in Unused
        BY <1>1, <1>6, OwnMoves
    <2>2. /\ Fixed(Applying \ {"apply"}) /\ Fixed(Holding \union {"asleep"})
          /\ Fixed(Creating \union {"new"}) /\ Fixed({"map"})
          /\ NoEntry({"unlock", "decide"}) /\ NoEntry(AskedPlaces)
          /\ \A d \in Callers : /\ at'[d] \in Unused => at[d] \in Unused
                                /\ at'[d] \in Applying => at[d] \in Applying
        BY <2>1 DEF Fixed, NoEntry, Holding, Applying, UsesScheme, AskedPlaces, FactoryPlaces
    <2>3. \A d \in Callers : at[d] \in Applying => object'[d] = object[d]
        BY <1>1, <1>6 DEF OwnSteps, Configure, ListAndCopy, Prepare, Go, Applying, UsesScheme
    <2>4. CallsTypeOK'
        BY <1>1, <1>6, OwnTyped
    <2>5. ClientsTypeOK' /\ FactoryTypeOK' /\ ApplierTypeOK'
        BY <1>1, <1>6 DEF ClientsTypeOK, clientVars, FactoryTypeOK, factoryVars, ApplierTypeOK, applierVars
    <2>6. TypeOK'
        BY <1>2, <1>6, <2>4, <2>5 DEF TypeOK
    <2>7. SchemeInv' /\ MapperInv'
        BY <1>6, <2>2, SchemeElsewhere, MapperElsewhere DEF clientVars
    <2>8. RoutineInv' /\ WaitInv'
        BY <1>6, <2>2, FactoryElsewhere
    <2>9. OnceInv' /\ FaultlessInv'
        BY <1>1, <1>6, <2>1, <2>2, OnceElsewhere, FaultlessElsewhere DEF applierVars
    <2>10. ApplyInv'
        BY <1>2, <1>6, <2>1, <2>2, <2>3, ApplyElsewhere
    <2> QED BY <2>6, <2>7, <2>8, <2>9, <2>10
<1>7. ASSUME NEW c \in Callers, Configure(c), UNCHANGED <<clientVars, factoryVars, applierVars, touched>>
      PROVE  IInv'
    BY <1>1, <1>6, <1>7, OutcomeIsBoolean DEF Configure, OwnSteps
<1>8. ASSUME NEW c \in Callers, ListAndCopy(c) \/ Prepare(c),
             UNCHANGED <<clientVars, factoryVars, applierVars, garbled>>
      PROVE  IInv'
    <2>1. touched' \subseteq Pieces
        BY <1>1, <1>8 DEF ListAndCopy, Prepare
    <2> QED BY <1>1, <1>6, <1>8, <2>1 DEF OwnSteps
<1> QED BY <1>3, <1>4, <1>5, <1>7, <1>8, NextCases

LEMMA StutterIInv ==
    ASSUME IInv, UNCHANGED vars
    PROVE  IInv'
<1>1. UNCHANGED <<callVars, clientVars, factoryVars, applierVars, garbled, touched, wanted, met>>
    BY DEF vars
<1>2. TypeOK'
    BY <1>1 DEF IInv, TypeOK, CallsTypeOK, ClientsTypeOK, FactoryTypeOK, ApplierTypeOK,
                callVars, clientVars, factoryVars, applierVars
<1>3. SchemeInv' /\ MapperInv'
    BY <1>1 DEF IInv, SchemeInv, MapperInv, callVars, clientVars
<1>4. RoutineInv' /\ WaitInv'
    BY <1>1 DEF IInv, RoutineInv, WaitInv, Active, callVars, factoryVars
<1>5. OnceInv' /\ FaultlessInv'
    BY <1>1 DEF IInv, OnceInv, FaultlessInv, Asleep, callVars, applierVars
<1>6. ApplyInv'
    BY <1>1 DEF IInv, ApplyInv, CallInv, Covered, Probed, Blank, callVars, applierVars
<1> QED BY <1>2, <1>3, <1>4, <1>5, <1>6 DEF IInv

-----------------------------------------------------------------------------
(* The theorems.                                                           *)

(* The invariant holds in every state of every behaviour.                  *)
THEOREM Invariant == Spec => []IInv
<1>1. IInv /\ [Next]_vars => IInv'
    BY NextIInv, StutterIInv
<1> QED BY <1>1, InitIInv, PTL DEF Spec

(* Every variable keeps its type; the informers' wait group counts at most *)
(* one goroutine for each kind, and the mutex of the Once never knows of   *)
(* more sleepers than there are callers (factory.go:133, apply.go:61).     *)
THEOREM TypeCorrect == Spec => []TypeOK
<1>1. IInv => TypeOK
    BY DEF IInv
<1> QED BY <1>1, Invariant, PTL

(* The scheme all clients share is never written while another caller      *)
(* writes it or has a client that looks types up in it: the mutex and the  *)
(* check for the registered version are enough (client.go:110 to 124).     *)
THEOREM SchemeSafe == Spec => []SchemeStable
<1>1. IInv => SchemeStable
    <2> SUFFICES ASSUME SchemeInv, writers \subseteq Callers,
                        NEW c \in writers, NEW d \in Callers \ {c}
                 PROVE  d \notin writers /\ at[d] \notin UsesScheme
        BY DEF IInv, TypeOK, ClientsTypeOK, SchemeStable
    <2>1. at[c] = "registering" /\ newClientMutex = c /\ ~registered
        BY DEF SchemeInv, Creating
    <2>2. at[d] \in {"new", "register", "registering"} /\ at[d] \notin Creating
        BY <2>1 DEF SchemeInv
    <2> QED BY <2>2 DEF SchemeInv, Creating, UsesScheme
<1> QED BY <1>1, Invariant, PTL

(* No caller works with a mapper that lacks a group: the fast mapper is    *)
(* handed out when every goroutine that fills it is done (fastmapper.go:80).*)
THEOREM MapperFilled == Spec => []MapperComplete
<1>1. IInv => MapperComplete
    <2> SUFFICES ASSUME MapperInv, NEW c \in FastDiscovery, at[c] \in UsesScheme
                 PROVE  mapper[c] = Groups \intersect FastMapperAllowedAPIGroups
        BY DEF IInv, MapperComplete
    <2> QED BY DiscoveryAssumption DEF MapperInv, Applying
<1> QED BY <1>1, Invariant, PTL

(* A caller that waited for the caches lists from one that was filled,     *)
(* whoever started the informer, until the factory is shut down            *)
(* (factory.go:159).                                                       *)
THEOREM ListsFilledCaches == Spec => []ListsSynced
<1>1. IInv => ListsSynced
    <2> SUFFICES ASSUME WaitInv, NEW c \in Callers, at[c] = "list", ~shuttingDown
                 PROVE  wants[c] \in hasSynced
        BY DEF IInv, ListsSynced
    <2> QED BY DEF WaitInv
<1> QED BY <1>1, Invariant, PTL

(* Shutdown returns when the last informer has ended, and none is started  *)
(* after that, for any number of callers and kinds (factory.go:150).       *)
THEOREM ShutdownEndsAll == Spec => []ShutdownFinal
<1>1. IInv => ShutdownFinal
    <2> SUFFICES ASSUME IInv, NEW c \in Callers, at[c] = "returned"
                 PROVE  \A k \in Kinds : routine[k] \notin {"started", "running"}
        BY DEF ShutdownFinal
    <2>1. Cardinality(Active) = 0
        BY DEF IInv, RoutineInv
    <2>2. Active = {}
        <3>1. Active \in SUBSET Kinds
            BY DEF Active
        <3> QED BY <2>1, <3>1, ActiveFinite
    <2> QED BY <2>2 DEF Active
<1> QED BY <1>1, Invariant, PTL

(* A deep copy shares no piece of memory with the object of the cache it   *)
(* was made of, so that no caller ever writes to the cache                 *)
(* (zz_generated.deepcopy.go, camelapp.go:30).                             *)
THEOREM CacheSafe == Spec => []CacheUntouched
<1>1. Init => CacheUntouched
    BY DEF Init, CacheUntouched
<1>2. CacheUntouched /\ [Next]_vars => CacheUntouched'
    <2> SUFFICES ASSUME CacheUntouched, [Next]_vars
                 PROVE  CacheUntouched'
        OBVIOUS
    <2>1. CASE UNCHANGED touched
        BY <2>1 DEF CacheUntouched
    <2>2. CASE \E c \in Callers : ListAndCopy(c)
        BY <2>2, NothingShared DEF ListAndCopy, CacheUntouched
    <2> QED BY <2>1, <2>2, NextCases DEF vars, Prepare
<1> QED BY <1>1, <1>2, PTL DEF Spec

(* A typed client always encodes the configuration that the comments of    *)
(* the With functions promise for the calls that were made, whatever the   *)
(* calls, their order and their number (camelapp.go:152,                   *)
(* camelappstatus.go:70).                                                  *)
THEOREM ConfigurationsAsAsked == Spec => []BuiltAsAsked
<1>1. Init => BuiltAsAsked
    BY DEF Init, BuiltAsAsked
<1>2. BuiltAsAsked /\ [Next]_vars => BuiltAsAsked'
    <2> SUFFICES ASSUME BuiltAsAsked, [Next]_vars
                 PROVE  BuiltAsAsked'
        OBVIOUS
    <2>1. CASE UNCHANGED garbled
        BY <2>1 DEF BuiltAsAsked
    <2>2. ASSUME NEW c \in Callers, Configure(c)
          PROVE  BuiltAsAsked'
        <3>1. PICK asIs \in Outcomes : garbled' = (garbled \/ ~asIs)
            BY <2>2 DEF Configure
        <3>2. asIs = TRUE
            BY OutcomesGood
        <3> QED BY <3>1, <3>2 DEF BuiltAsAsked
    <2> QED BY <2>1, <2>2, NextCases DEF vars
<1> QED BY <1>1, <1>2, PTL DEF Spec

(* When Apply returns nil, each field of the object has been on the server *)
(* with its value during the call, whatever the other callers applied,     *)
(* which requests failed and however the Once was raced for (apply.go:53). *)
THEOREM ApplyKeepsItsPromise == Spec => []EveryFieldApplied
<1>1. IInv => EveryFieldApplied
    BY DEF IInv, ApplyInv, CallInv, Covered, EveryFieldApplied
<1> QED BY <1>1, Invariant, PTL

(* As long as no request has failed, no caller unlocks an unlocked mutex   *)
(* and none falls back to client side apply on a server that knows server  *)
(* side apply (apply.go:61 to 74).                                         *)
THEOREM OrderlyOnce == Spec => []OrderlyWithoutErrors
<1>1. IInv => OrderlyWithoutErrors
    BY DEF IInv, FaultlessInv, OrderlyWithoutErrors
<1> QED BY <1>1, Invariant, PTL

(* On a server without server side apply no step takes a field away from   *)
(* the object of the server (patch.go:58).                                 *)
THEOREM FieldsStay == Spec => ClientSideKeepsFields
<1>1. IInv /\ [Next]_vars =>
        (~capable => \A f \in Fields : server.fields[f] # Nil => server'.fields[f] # Nil)
    <2> SUFFICES ASSUME IInv, [Next]_vars, ~capable, NEW f \in Fields, server.fields[f] # Nil
                 PROVE  server'.fields[f] # Nil
        OBVIOUS
    <2>1. AtType /\ CallsTypeOK /\ ApplierTypeOK /\ ApplyInv
        BY DEF IInv, TypeOK, CallsTypeOK, AtType
    <2>2. CASE UNCHANGED server
        BY <2>2
    <2>3. ASSUME NEW c \in Callers, ApplierSteps(c)
          PROVE  server'.fields[f] # Nil
        <3>1. CASE ~server.exists
            BY <2>1, <3>1 DEF ApplyInv, Blank
        <3>2. CASE server' = Patched(seen[c], object[c])
            <4>1. server'.fields = Overlay(server.fields, MergePatch(seen[c], object[c]), object[c])
                BY <2>1, <3>2 DEF Patched, CallsTypeOK
            <4> QED BY <4>1 DEF Overlay, MergePatch
        <3> QED BY <2>2, <2>3, <3>1, <3>2, ServerCases
    <2>4. CASE UNCHANGED vars
        BY <2>2, <2>4 DEF vars, callVars
    <2>5. CASE Next
        <3>1. ASSUME NEW c \in Callers, ClientSteps(c)
              PROVE  UNCHANGED server
            BY <2>1, <3>1, ClientMoves
        <3>2. FactorySteps => UNCHANGED server
            BY <2>1, FactoryMoves
        <3>3. ASSUME NEW c \in Callers, OwnSteps(c)
              PROVE  UNCHANGED server
            BY <2>1, <3>3, OwnMoves
        <3> QED BY <2>2, <2>3, <2>5, <3>1, <3>2, <3>3, NextCases DEF OwnSteps
    <2> QED BY <2>4, <2>5
<1> QED BY <1>1, Invariant, PTL DEF Spec, ClientSideKeepsFields
=============================================================================
