--------------------------- MODULE SyntheticImport ---------------------------
(***************************************************************************)
(* The importer: one informer per kind of workload, filtered by the label  *)
(* that names the Camel application, whose add and delete handlers create  *)
(* and delete CamelApp objects.                                            *)
(*                                                                         *)
(* Every replica of the operator runs the importer, for it does not wait   *)
(* for the leader election.  The handlers of one informer run one after    *)
(* the other, those of different kinds and of different replicas           *)
(* concurrently.  A handler reads the CamelApp from a cache that lags, and *)
(* whatever it fails to do it logs and never tries again.                  *)
(***************************************************************************)
EXTENDS Integers, Sequences, FiniteSets, SequencesExt

CONSTANTS
    Workloads,    \* names of Deployments, CronJobs and Knative Services
    Kinds,        \* the kinds of workloads that have an informer
    KindOf,       \* the kind of each workload
    Names,        \* values of the label camel.apache.org/app
    ValidNames,   \* those the API server takes as the name of an object
    Operators,    \* replicas of the operator
    None,         \* no label, no CamelApp, no import under way
    MaxChanges,   \* bound on the steps of users
    MaxGaps,      \* bound on broken watches
    MaxFaults     \* bound on failed calls and restarts

ASSUME WorkloadsAssumption == IsFiniteSet(Workloads)
ASSUME OperatorsAssumption == Operators # {}
ASSUME KindAssumption == KindOf \in [Workloads -> Kinds]
ASSUME NamesAssumption == ValidNames \subseteq Names
ASSUME NoneAssumption == None \notin Names /\ None \notin [w : Workloads, uid : Nat, name : Names]
ASSUME BoundsAssumption == MaxChanges \in Nat /\ MaxGaps \in Nat /\ MaxFaults \in Nat

(* What brings a CamelApp about: the workload, its UID and its label.  The *)
(* owner reference of the CamelApp holds the first two, its name is the    *)
(* third.                                                                  *)
Imports == [w : Workloads, uid : Nat, name : Names]

(* uid 0 is a workload that does not exist, or that is not known.          *)
WorkloadState == [uid : Nat, label : Names \union {None}]

Absent == [uid |-> 0, label |-> None]

Events == [type : {"add", "delete", "tombstone"}, import : Imports]

Handlers == Operators \X Kinds

VARIABLES
    wl,       \* the workloads in the API server
    app,      \* for each name, the import its CamelApp comes from, or None
    seen,     \* what each informer's store holds of each workload
    notes,    \* events each handler has not been called with yet
    pc,       \* the import a handler is about to create, or None
    view,     \* the CamelApps each replica's cache holds
    down,     \* informers whose watch is broken
    missed,   \* history: imports skipped, refused or undone by a handler
    leaked,   \* history: removals of the label no handler acted upon
    changes,  \* steps of users
    gaps,     \* watches that broke
    faults    \* calls that failed and restarts

vars == <<wl, app, seen, notes, pc, view, down, missed, leaked, changes, gaps, faults>>

-----------------------------------------------------------------------------
(* The selector of the cache keeps the objects that carry the label.       *)
Selected(state) == state.label # None

ImportOf(w, state) == [w |-> w, uid |-> state.uid, name |-> state.label]

Labelled(i) == wl[i.w] = [uid |-> i.uid, label |-> i.name]

(* What an informer without an UpdateFunc passes on.  A change the watch   *)
(* reports is a delete when the object leaves the selector; one found by   *)
(* listing again is a tombstone.                                           *)
Passed(w, old, new, removal) ==
    CASE Selected(new) /\ ~Selected(old) ->
            <<[type |-> "add", import |-> ImportOf(w, new)]>>
      [] Selected(old) /\ ~Selected(new) ->
            <<[type |-> removal, import |-> ImportOf(w, old)]>>
      [] OTHER -> <<>>

(* The update of an object that stays selected is dropped, and with it a   *)
(* new label and a new UID.                                                *)
Dropped(old, new) == Selected(old) /\ Selected(new) /\ old # new

-----------------------------------------------------------------------------
Init ==
    /\ wl = [w \in Workloads |-> Absent]
    /\ app = [n \in Names |-> None]
    /\ seen = [o \in Operators |-> wl]
    /\ notes = [h \in Handlers |-> <<>>]
    /\ pc = [h \in Handlers |-> None]
    /\ view = [o \in Operators |-> {}]
    /\ down = {}
    /\ missed = {}
    /\ leaked = {}
    /\ changes = 0
    /\ gaps = 0
    /\ faults = 0

-----------------------------------------------------------------------------
(* Users.  A change of a workload reaches at once the store and the        *)
(* handler queue of every informer whose watch works; the handler runs     *)
(* later.  A labelled workload starts over: earlier losses are forgotten   *)
(* when every replica hears of the label.                                  *)
Write(w, new) ==
    LET old == wl[w]
        hearing == {o \in Operators : <<o, KindOf[w]>> \notin down}
        dropped == hearing # {} /\ Dropped(old, new)
        fresh == IF hearing = Operators /\ Selected(new) THEN {ImportOf(w, new)} ELSE {}
    IN  /\ changes < MaxChanges
        /\ changes' = changes + 1
        /\ wl' = [wl EXCEPT ![w] = new]
        /\ seen' = [o \in Operators |->
                IF o \in hearing THEN [seen[o] EXCEPT ![w] = new] ELSE seen[o]]
        /\ notes' = [h \in Handlers |->
                IF h[1] \in hearing /\ h[2] = KindOf[w]
                THEN notes[h] \o Passed(w, seen[h[1]][w], new, "delete") ELSE notes[h]]
        /\ missed' = IF dropped THEN missed \union {ImportOf(w, new)} ELSE missed \ fresh
        /\ leaked' = (leaked \ fresh) \union (IF dropped THEN {ImportOf(w, old)} ELSE {})
        /\ UNCHANGED <<app, pc, view, down, gaps, faults>>

CreateWorkload(w) ==
    /\ wl[w] = Absent
    /\ \E l \in Names \union {None} : Write(w, [uid |-> changes + 1, label |-> l])

SetLabel(w) ==
    /\ wl[w] # Absent
    /\ \E l \in (Names \union {None}) \ {wl[w].label} : Write(w, [wl[w] EXCEPT !.label = l])

DeleteWorkload(w) ==
    /\ wl[w] # Absent
    /\ Write(w, Absent)

-----------------------------------------------------------------------------
(* Watches, caches and the garbage collector.                              *)

Disconnect(h) ==
    /\ gaps < MaxGaps
    /\ gaps' = gaps + 1
    /\ h \notin down
    /\ down' = down \union {h}
    /\ UNCHANGED <<wl, app, seen, notes, pc, view, missed, leaked, changes, faults>>

OfKind(k) == {w \in Workloads : KindOf[w] = k}

(* The informer lists its kind again, in any order, and passes on the      *)
(* difference with its store.                                              *)
Relist(h) ==
    LET o == h[1]
        stale == {w \in OfKind(h[2]) : seen[o][w] # wl[w]}
        moved == {w \in stale : Selected(seen[o][w]) # Selected(wl[w])}
        lost == {w \in stale : Dropped(seen[o][w], wl[w])}
    IN  /\ h \in down
        /\ down' = down \ {h}
        /\ seen' = [seen EXCEPT ![o] = [w \in Workloads |->
                IF w \in stale THEN wl[w] ELSE seen[o][w]]]
        /\ \E order \in SetToSeqs(moved) :
                notes' = [notes EXCEPT ![h] = @ \o [i \in DOMAIN order |->
                    Passed(order[i], seen[o][order[i]], wl[order[i]], "tombstone")[1]]]
        /\ missed' = missed \union {ImportOf(w, wl[w]) : w \in lost}
        /\ leaked' = leaked \union {ImportOf(w, seen[o][w]) : w \in lost}
        /\ UNCHANGED <<wl, app, pc, view, changes, gaps, faults>>

ViewSync(o) ==
    /\ view[o] # {n \in Names : app[n] # None}
    /\ view' = [view EXCEPT ![o] = {n \in Names : app[n] # None}]
    /\ UNCHANGED <<wl, app, seen, notes, pc, down, missed, leaked, changes, gaps, faults>>

(* External: Kubernetes removes an object whose owner is gone.             *)
CollectGarbage(n) ==
    /\ app[n] # None
    /\ wl[app[n].w].uid # app[n].uid
    /\ app' = [app EXCEPT ![n] = None]
    /\ UNCHANGED <<wl, seen, notes, pc, view, down, missed, leaked, changes, gaps, faults>>

-----------------------------------------------------------------------------
(* The handlers.                                                           *)

Fault ==
    /\ faults < MaxFaults
    /\ faults' = faults + 1

Take(h, type) ==
    /\ pc[h] = None
    /\ notes[h] # <<>>
    /\ Head(notes[h]).type = type
    /\ notes' = [notes EXCEPT ![h] = Tail(@)]

(* A handler ends without having created the CamelApp.                     *)
Miss(i) == missed' = IF app[i.name] = i THEN missed ELSE missed \union {i}

(* The cache holds a CamelApp of that name: already imported.              *)
OnAddSkips(h) ==
    LET i == Head(notes[h]).import
    IN  /\ Take(h, "add")
        /\ i.name \in view[h[1]]
        /\ Miss(i)
        /\ UNCHANGED <<wl, app, seen, pc, view, down, leaked, changes, gaps, faults>>

OnAddGetFails(h) ==
    LET i == Head(notes[h]).import
    IN  /\ Take(h, "add")
        /\ Fault
        /\ Miss(i)
        /\ UNCHANGED <<wl, app, seen, pc, view, down, leaked, changes, gaps>>

(* Mutant: nothing is created for an event whose CamelApp is not found.    *)
OnAddIgnores(h) ==
    /\ Take(h, "add")
    /\ Head(notes[h]).import.name \notin view[h[1]]
    /\ UNCHANGED <<wl, app, seen, pc, view, down, missed, leaked, changes, gaps, faults>>

OnAddFindsNone(h) ==
    LET i == Head(notes[h]).import
    IN  /\ Take(h, "add")
        /\ i.name \notin view[h[1]]
        /\ pc' = [pc EXCEPT ![h] = i]
        /\ UNCHANGED <<wl, app, seen, view, down, missed, leaked, changes, gaps, faults>>

(* Mutant: the object is put in place of whatever has that name.           *)
PutApp(h) ==
    LET i == pc[h]
    IN  /\ pc[h] # None
        /\ app' = [app EXCEPT ![i.name] = i]
        /\ pc' = [pc EXCEPT ![h] = None]
        /\ missed' = missed \ {i}
        /\ UNCHANGED <<wl, seen, notes, view, down, leaked, changes, gaps, faults>>

CreateApp(h) ==
    LET i == pc[h]
    IN  /\ pc[h] # None
        /\ i.name \in ValidNames
        /\ app[i.name] = None
        /\ app' = [app EXCEPT ![i.name] = i]
        /\ pc' = [pc EXCEPT ![h] = None]
        /\ missed' = missed \ {i}
        /\ UNCHANGED <<wl, seen, notes, view, down, leaked, changes, gaps, faults>>

(* AlreadyExists, or a label that is not the name of an object.            *)
CreateRefused(h) ==
    LET i == pc[h]
    IN  /\ pc[h] # None
        /\ i.name \notin ValidNames \/ app[i.name] # None
        /\ Miss(i)
        /\ pc' = [pc EXCEPT ![h] = None]
        /\ UNCHANGED <<wl, app, seen, notes, view, down, leaked, changes, gaps, faults>>

CreateFails(h) ==
    /\ pc[h] # None
    /\ Fault
    /\ Miss(pc[h])
    /\ pc' = [pc EXCEPT ![h] = None]
    /\ UNCHANGED <<wl, app, seen, notes, view, down, leaked, changes, gaps>>

(* Mutant: a CamelApp the cache lacks is not deleted.                      *)
OnDeleteIfCached(h) ==
    LET n == Head(notes[h]).import.name
    IN  /\ Take(h, "delete")
        /\ app' = IF n \in view[h[1]] THEN [app EXCEPT ![n] = None] ELSE app
        /\ missed' = missed \union ({app[n]} \ {None})
        /\ UNCHANGED <<wl, seen, pc, view, down, leaked, changes, gaps, faults>>

(* The CamelApp is deleted by name, whatever workload it came from.        *)
OnDelete(h) ==
    LET n == Head(notes[h]).import.name
    IN  /\ Take(h, "delete")
        /\ app' = [app EXCEPT ![n] = None]
        /\ missed' = missed \union ({app[n]} \ {None})
        /\ UNCHANGED <<wl, seen, pc, view, down, leaked, changes, gaps, faults>>

OnDeleteFails(h) ==
    /\ Take(h, "delete")
    /\ Fault
    /\ leaked' = leaked \union {Head(notes[h]).import}
    /\ UNCHANGED <<wl, app, seen, pc, view, down, missed, changes, gaps>>

(* A tombstone is not an object: the type assertion fails.                 *)
OnTombstone(h) ==
    /\ Take(h, "tombstone")
    /\ leaked' = leaked \union {Head(notes[h]).import}
    /\ UNCHANGED <<wl, app, seen, pc, view, down, missed, changes, gaps, faults>>

(* The replica ends and starts again: its first list has every workload    *)
(* that carries the label, and nothing of those that lost it meanwhile.    *)
Restart(o) ==
    LET own == {o} \X Kinds
        unhandled == {e \in UNION {ToSet(notes[h]) : h \in own} : e.type # "add"}
        unseen == {w \in Workloads : seen[o][w] # wl[w] /\ Selected(seen[o][w])}
        listed(k) == {w \in OfKind(k) : Selected(wl[w])}
    IN  /\ Fault
        /\ seen' = [seen EXCEPT ![o] = wl]
        /\ \E order \in [Kinds -> UNION {SetToSeqs(listed(k)) : k \in Kinds}] :
                /\ \A k \in Kinds : order[k] \in SetToSeqs(listed(k))
                /\ notes' = [h \in Handlers |->
                    IF h[1] # o THEN notes[h]
                    ELSE [j \in DOMAIN order[h[2]] |->
                            [type |-> "add",
                             import |-> ImportOf(order[h[2]][j], wl[order[h[2]][j]])]]]
        /\ pc' = [h \in Handlers |-> IF h[1] = o THEN None ELSE pc[h]]
        /\ view' = [view EXCEPT ![o] = {n \in Names : app[n] # None}]
        /\ down' = down \ own
        /\ missed' = {}
        /\ leaked' = leaked \union {e.import : e \in unhandled}
                            \union {ImportOf(w, seen[o][w]) : w \in unseen}
        /\ UNCHANGED <<wl, app, changes, gaps>>

-----------------------------------------------------------------------------
Users(w) == CreateWorkload(w) \/ SetLabel(w) \/ DeleteWorkload(w)

Handle(h) ==
    \/ OnAddSkips(h) \/ OnAddGetFails(h) \/ OnAddFindsNone(h)
    \/ CreateApp(h) \/ CreateRefused(h) \/ CreateFails(h)
    \/ OnDelete(h) \/ OnDeleteFails(h) \/ OnTombstone(h)

Next ==
    \/ \E w \in Workloads : Users(w)
    \/ \E h \in Handlers : Disconnect(h) \/ Relist(h) \/ Handle(h)
    \/ \E o \in Operators : ViewSync(o) \/ Restart(o)
    \/ \E n \in Names : CollectGarbage(n)

Spec == Init /\ [][Next]_vars

(* Informers connect again, caches follow, handlers are called for every   *)
(* event in their queue, and Kubernetes collects what has lost its owner.  *)
Fairness ==
    /\ \A h \in Handlers : WF_vars(Relist(h)) /\ WF_vars(Handle(h))
    /\ \A o \in Operators : WF_vars(ViewSync(o))
    /\ \A n \in Names : WF_vars(CollectGarbage(n))

FairSpec == Spec /\ Fairness

-----------------------------------------------------------------------------
(* Properties.                                                             *)

(* The state has its types, and a CamelApp has the name its import gives.  *)
TypeOK ==
    /\ wl \in [Workloads -> WorkloadState]
    /\ app \in [Names -> Imports \union {None}]
    /\ \A n \in Names : app[n] # None => app[n].name = n /\ n \in ValidNames
    /\ seen \in [Operators -> [Workloads -> WorkloadState]]
    /\ notes \in [Handlers -> Seq(Events)]
    /\ pc \in [Handlers -> Imports \union {None}]
    /\ view \in [Operators -> SUBSET Names]
    /\ down \subseteq Handlers
    /\ missed \subseteq Imports
    /\ leaked \subseteq Imports
    /\ changes \in Nat /\ gaps \in Nat /\ faults \in Nat

(* Some replica has still to be told of the present state of a workload.   *)
Unheard(w) == \E o \in Operators : seen[o][w] # wl[w]

ImportPending(i) ==
    \E h \in Handlers :
        \/ pc[h] = i
        \/ \E e \in ToSet(notes[h]) : e.type = "add" /\ e.import = i

RemovalPending(i) ==
    \E h \in Handlers : \E e \in ToSet(notes[h]) : e.type # "add" /\ e.import = i

(* No import is lost silently: a workload that carries a usable label has  *)
(* its CamelApp, or a replica still has the event or the list that brings  *)
(* it, or a handler gave it up: skipped it on a stale cache, had it        *)
(* refused, failed, ignored an update, or deleted the CamelApp by its name *)
(* (onAdd, onDelete, ManageSyntheticCamelApps).                            *)
ImportTracked ==
    \A w \in Workloads : wl[w].label \in ValidNames =>
        LET i == ImportOf(w, wl[w])
        IN  app[i.name] = i \/ i \in missed \/ ImportPending(i) \/ Unheard(w)

(* No CamelApp outlives its label silently: one whose workload does not    *)
(* carry its name any more is about to be collected with its owner, or a   *)
(* replica still has the event or the list that ends it, or no handler     *)
(* acted upon the removal: it was a tombstone, an update, a failed call or *)
(* fell into a restart (onDelete, ManageSyntheticCamelApps).               *)
RemovalTracked ==
    \A n \in Names : app[n] # None /\ ~Labelled(app[n]) =>
        \/ wl[app[n].w].uid # app[n].uid
        \/ app[n] \in leaked
        \/ RemovalPending(app[n])
        \/ Unheard(app[n].w)

(* Imports settle: once users are quiet every usable label has its         *)
(* CamelApp for good, unless a handler gave the import up.                 *)
ImportsSettle ==
    \A w \in Workloads : <>[](wl[w].label \in ValidNames =>
        LET i == ImportOf(w, wl[w]) IN app[i.name] = i \/ i \in missed)

(* Removals settle: once users are quiet no CamelApp is left without the   *)
(* label it was imported for, unless no handler acted upon the removal.    *)
RemovalsSettle ==
    \A n \in Names : <>[](app[n] # None => Labelled(app[n]) \/ app[n] \in leaked)

(* "when the user label the resource, then it is considered as an add"     *)
(* (synthetic.go:46): a workload that keeps a usable label ends with its   *)
(* CamelApp.  The handler that is called for the add skips it as long as   *)
(* its cache still holds the CamelApp it deleted.                          *)
LabelImports ==
    \A w \in Workloads : <>[](wl[w].label \in ValidNames => app[wl[w].label] # None)
=============================================================================
