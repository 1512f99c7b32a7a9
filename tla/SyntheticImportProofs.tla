------------------------ MODULE SyntheticImportProofs ------------------------
(***************************************************************************)
(* The importer of SyntheticImport keeps its types and loses neither an    *)
(* import nor a removal silently, for every finite set of workloads, every *)
(* number of replicas and every bound.  TypeOK is inductive.  ImportInv    *)
(* and RemovalInv strengthen ImportTracked and RemovalTracked with what    *)
(* informers have seen and what their queues still hold.                   *)
(***************************************************************************)
EXTENDS SyntheticImport, SequenceTheorems, FiniteSetTheorems, FunctionTheorems, TLAPS

-----------------------------------------------------------------------------
(* Sequences as sets of events.                                            *)

(* Taking the head off a sequence takes at most that element away.         *)
LEMMA TakeHead ==
    ASSUME NEW S, NEW s \in Seq(S), s # <<>>
    PROVE  /\ Head(s) \in S
           /\ Tail(s) \in Seq(S)
           /\ ToSet(s) = {Head(s)} \union ToSet(Tail(s))
<1>1. /\ Head(s) \in S /\ Tail(s) \in Seq(S) /\ Len(Tail(s)) = Len(s) - 1
      /\ \A i \in 1 .. Len(Tail(s)) : Tail(s)[i] = s[i + 1]
    BY HeadTailProperties
<1>2. Len(s) \in Nat /\ Len(s) # 0 /\ DOMAIN s = 1 .. Len(s) /\ Head(s) = s[1]
    BY LenProperties, EmptySeq
<1>3. DOMAIN Tail(s) = 1 .. Len(Tail(s))
    BY <1>1, LenProperties
<1>4. ToSet(s) \subseteq {Head(s)} \union ToSet(Tail(s))
    <2> SUFFICES ASSUME NEW e \in ToSet(s) PROVE e \in {Head(s)} \union ToSet(Tail(s))
        OBVIOUS
    <2>1. PICK i \in 1 .. Len(s) : e = s[i]
        BY <1>2 DEF ToSet
    <2>2. CASE i = 1
        BY <2>1, <2>2, <1>2
    <2>3. CASE i # 1
        <3>1. i - 1 \in 1 .. Len(Tail(s)) /\ Tail(s)[i - 1] = s[i]
            BY <2>3, <1>1, <1>2
        <3> QED
            BY <3>1, <2>1, <1>3 DEF ToSet
    <2> QED
        BY <2>2, <2>3
<1>5. {Head(s)} \union ToSet(Tail(s)) \subseteq ToSet(s)
    <2> SUFFICES ASSUME NEW e \in {Head(s)} \union ToSet(Tail(s)) PROVE e \in ToSet(s)
        OBVIOUS
    <2>1. CASE e = Head(s)
        <3>1. 1 \in DOMAIN s
            BY <1>2
        <3> QED
            BY <2>1, <3>1, <1>2 DEF ToSet
    <2>2. CASE e \in ToSet(Tail(s))
        <3>1. PICK i \in 1 .. Len(Tail(s)) : e = Tail(s)[i]
            BY <2>2, <1>3 DEF ToSet
        <3>2. i + 1 \in DOMAIN s /\ e = s[i + 1]
            BY <3>1, <1>1, <1>2
        <3> QED
            BY <3>2 DEF ToSet
    <2> QED
        BY <2>1, <2>2
<1> QED
    BY <1>1, <1>4, <1>5

(* Appending a sequence adds its elements.                                 *)
LEMMA AppendSet ==
    ASSUME NEW S, NEW s \in Seq(S), NEW t \in Seq(S)
    PROVE  s \o t \in Seq(S) /\ ToSet(s \o t) = ToSet(s) \union ToSet(t)
<1>1. /\ s \o t \in Seq(S)
      /\ Len(s \o t) = Len(s) + Len(t)
      /\ \A i \in 1 .. Len(s) + Len(t) :
            (s \o t)[i] = IF i <= Len(s) THEN s[i] ELSE t[i - Len(s)]
    BY ConcatProperties
<1>2. /\ Len(s) \in Nat /\ DOMAIN s = 1 .. Len(s)
      /\ Len(t) \in Nat /\ DOMAIN t = 1 .. Len(t)
      /\ DOMAIN (s \o t) = 1 .. Len(s) + Len(t)
    BY <1>1, LenProperties
<1>3. ToSet(s \o t) \subseteq ToSet(s) \union ToSet(t)
    <2> SUFFICES ASSUME NEW e \in ToSet(s \o t) PROVE e \in ToSet(s) \union ToSet(t)
        OBVIOUS
    <2>1. PICK i \in 1 .. Len(s) + Len(t) : e = (s \o t)[i]
        BY <1>2 DEF ToSet
    <2>2. CASE i <= Len(s)
        <3>1. i \in DOMAIN s /\ e = s[i]
            BY <2>1, <2>2, <1>1, <1>2
        <3> QED
            BY <3>1 DEF ToSet
    <2>3. CASE ~(i <= Len(s))
        <3>1. i - Len(s) \in DOMAIN t /\ e = t[i - Len(s)]
            BY <2>1, <2>3, <1>1, <1>2
        <3> QED
            BY <3>1 DEF ToSet
    <2> QED
        BY <2>2, <2>3
<1>4. ToSet(s) \subseteq ToSet(s \o t)
    <2> SUFFICES ASSUME NEW e \in ToSet(s) PROVE e \in ToSet(s \o t)
        OBVIOUS
    <2>1. PICK i \in 1 .. Len(s) : e = s[i]
        BY <1>2 DEF ToSet
    <2>2. i \in DOMAIN (s \o t) /\ (s \o t)[i] = e
        BY <2>1, <1>1, <1>2
    <2> QED
        BY <2>2 DEF ToSet
<1>5. ToSet(t) \subseteq ToSet(s \o t)
    <2> SUFFICES ASSUME NEW e \in ToSet(t) PROVE e \in ToSet(s \o t)
        OBVIOUS
    <2>1. PICK i \in 1 .. Len(t) : e = t[i]
        BY <1>2 DEF ToSet
    <2>2. i + Len(s) \in DOMAIN (s \o t) /\ (s \o t)[i + Len(s)] = e
        BY <2>1, <1>1, <1>2
    <2> QED
        BY <2>2 DEF ToSet
<1> QED
    BY <1>1, <1>3, <1>4, <1>5

(* An order of a finite set is a sequence of all its elements.             *)
LEMMA OrderOfSet ==
    ASSUME NEW S, IsFiniteSet(S), NEW order \in SetToSeqs(S)
    PROVE  /\ Cardinality(S) \in Nat
           /\ order \in [1 .. Cardinality(S) -> S]
           /\ \A x \in S : \E i \in 1 .. Cardinality(S) : order[i] = x
<1> DEFINE n == Cardinality(S)
           D == 1 .. n
<1>1. n \in Nat
    BY FS_CardinalityType
<1>2. order \in [D -> S] /\ \A i, j \in D : i # j => order[i] # order[j]
    BY DEF SetToSeqs
<1>3. order \in Injection(D, S)
    BY <1>2 DEF Injection, IsInjective
<1>4. IsFiniteSet(D) /\ Cardinality(D) = n
    BY <1>1, FS_Interval
<1>5. order \in Surjection(D, S)
    BY <1>3, <1>4, FS_Injection
<1> QED
    BY <1>1, <1>2, <1>5 DEF Surjection

-----------------------------------------------------------------------------
(* What informers pass on.                                                 *)

(* The event of an object that entered or left the selector.               *)
Moved(w, old, new, removal) ==
    IF Selected(new) THEN [type |-> "add", import |-> ImportOf(w, new)]
    ELSE [type |-> removal, import |-> ImportOf(w, old)]

(* The import of a selected workload is one.                               *)
LEMMA ImportOfType ==
    ASSUME NEW w \in Workloads, NEW state \in WorkloadState, Selected(state)
    PROVE  ImportOf(w, state) \in Imports
BY DEF ImportOf, Imports, WorkloadState, Selected

(* An object that crosses the selector gives one event, any other none.    *)
LEMMA PassedType ==
    ASSUME NEW w \in Workloads, NEW old \in WorkloadState, NEW new \in WorkloadState,
           NEW removal \in {"delete", "tombstone"}
    PROVE  /\ Selected(new) # Selected(old) =>
                /\ Passed(w, old, new, removal) = <<Moved(w, old, new, removal)>>
                /\ Moved(w, old, new, removal) \in Events
           /\ Selected(new) = Selected(old) => Passed(w, old, new, removal) = <<>>
           /\ Passed(w, old, new, removal) \in Seq(Events)
<1>1. CASE Selected(new) /\ ~Selected(old)
    <2>1. ImportOf(w, new) \in Imports
        BY <1>1, ImportOfType
    <2>2. Moved(w, old, new, removal) \in Events
        BY <1>1, <2>1 DEF Moved, Events
    <2>3. Passed(w, old, new, removal) = <<Moved(w, old, new, removal)>>
        BY <1>1, Zenon DEF Passed, Moved
    <2> QED
        BY <1>1, <2>2, <2>3 DEF Selected
<1>2. CASE Selected(old) /\ ~Selected(new)
    <2>1. ImportOf(w, old) \in Imports
        BY <1>2, ImportOfType
    <2>2. Moved(w, old, new, removal) \in Events
        BY <1>2, <2>1 DEF Moved, Events
    <2>3. Passed(w, old, new, removal) = <<Moved(w, old, new, removal)>>
        BY <1>2, Zenon DEF Passed, Moved
    <2> QED
        BY <1>2, <2>2, <2>3 DEF Selected
<1>3. CASE Selected(new) = Selected(old)
    <2>1. Passed(w, old, new, removal) = <<>>
        BY <1>3, Zenon DEF Passed, Selected
    <2> QED
        BY <1>3, <2>1
<1> QED
    BY <1>1, <1>2, <1>3 DEF Selected

Mapped(order, f) == [i \in DOMAIN order |-> f[order[i]]]

(* Mapping an order of a set gives a sequence of the images of the set.    *)
LEMMA MapOrder ==
    ASSUME NEW S, IsFiniteSet(S), NEW order \in SetToSeqs(S), NEW E, NEW f \in [S -> E]
    PROVE  Mapped(order, f) \in Seq(E) /\ ToSet(Mapped(order, f)) = Range(f)
<1> DEFINE n == Cardinality(S)
           t == Mapped(order, f)
<1>1. /\ n \in Nat /\ order \in [1 .. n -> S]
      /\ \A x \in S : \E i \in 1 .. n : order[i] = x
    BY OrderOfSet
<1>2. t \in [1 .. n -> E] /\ DOMAIN t = 1 .. n
    BY <1>1 DEF Mapped
<1>3. t \in Seq(E)
    BY <1>1, <1>2, SeqDef
<1>4. ToSet(t) = {t[i] : i \in 1 .. n}
    BY <1>2 DEF ToSet
<1>5. \A i \in 1 .. n : t[i] = f[order[i]]
    BY <1>1 DEF Mapped
<1>6. ToSet(t) = Range(f)
    <2> HIDE DEF t, n
    <2> QED
        BY <1>1, <1>4, <1>5 DEF Range
<1> QED
    BY <1>3, <1>6

-----------------------------------------------------------------------------
(* Type correctness.                                                       *)

(* What an informer finds when it lists its kind again, as one event for   *)
(* each workload that crossed the selector.                                *)
Found(o, w) == Moved(w, seen[o][w], wl[w], "tombstone")

Crossed(o, k) ==
    {w \in OfKind(k) : seen[o][w] # wl[w] /\ Selected(seen[o][w]) # Selected(wl[w])}

(* The events a handler gets from a list after a gap.                      *)
LEMMA RelistNotes ==
    ASSUME TypeOK, NEW h \in Handlers, Relist(h)
    PROVE  \E t \in Seq(Events) :
                /\ notes' = [notes EXCEPT ![h] = @ \o t]
                /\ ToSet(t) = {Found(h[1], w) : w \in Crossed(h[1], h[2])}
<1> DEFINE o == h[1]
           stale == {w \in OfKind(h[2]) : seen[o][w] # wl[w]}
           moved == {w \in stale : Selected(seen[o][w]) # Selected(wl[w])}
           f == [w \in moved |-> Found(o, w)]
<1>1. h[1] \in Operators
    BY DEF Handlers
<1>2. moved = Crossed(h[1], h[2]) /\ moved \subseteq Workloads
    BY DEF Crossed, OfKind
<1>3. IsFiniteSet(moved)
    BY <1>2, WorkloadsAssumption, FS_Subset
<1>4. \A w \in moved :
        /\ Passed(w, seen[o][w], wl[w], "tombstone") = <<Found(o, w)>>
        /\ Found(o, w) \in Events
    <2> TAKE w \in moved
    <2>1. w \in Workloads /\ seen[o][w] \in WorkloadState /\ wl[w] \in WorkloadState
        BY <1>1, <1>2 DEF TypeOK
    <2>2. Selected(wl[w]) # Selected(seen[o][w])
        OBVIOUS
    <2> QED
        BY <2>1, <2>2, PassedType DEF Found
<1>5. f \in [moved -> Events]
    BY <1>4
<1>6. PICK order \in SetToSeqs(moved) :
        notes' = [notes EXCEPT ![h] = @ \o [i \in DOMAIN order |->
                    Passed(order[i], seen[o][order[i]], wl[order[i]], "tombstone")[1]]]
    BY DEF Relist
<1>7. \A i \in DOMAIN order :
        Passed(order[i], seen[o][order[i]], wl[order[i]], "tombstone")[1] = f[order[i]]
    <2> TAKE i \in DOMAIN order
    <2>1. order[i] \in moved
        BY <1>3, OrderOfSet
    <2> HIDE DEF moved
    <2> QED
        BY <2>1, <1>4
<1>8. Mapped(order, f) \in Seq(Events) /\ ToSet(Mapped(order, f)) = Range(f)
    BY <1>3, <1>5, MapOrder
<1>9. Range(f) = {Found(h[1], w) : w \in Crossed(h[1], h[2])}
    BY <1>2 DEF Range
<1>10. notes' = [notes EXCEPT ![h] = @ \o Mapped(order, f)]
    BY <1>6, <1>7 DEF Mapped
<1> QED
    BY <1>8, <1>9, <1>10

(* The events of the first list of a replica that starts again: one add    *)
(* for each workload that carries the label.                               *)
LEMMA RestartNotes ==
    ASSUME TypeOK, NEW o \in Operators, Restart(o)
    PROVE  /\ notes' \in [Handlers -> Seq(Events)]
           /\ \A h \in Handlers : h[1] # o => notes'[h] = notes[h]
           /\ \A h \in Handlers : h[1] = o =>
                ToSet(notes'[h]) = {[type |-> "add", import |-> ImportOf(w, wl[w])] :
                                        w \in {v \in OfKind(h[2]) : Selected(wl[v])}}
<1> DEFINE listed(k) == {w \in OfKind(k) : Selected(wl[w])}
           add(w) == [type |-> "add", import |-> ImportOf(w, wl[w])]
<1>1. PICK order \in [Kinds -> UNION {SetToSeqs(listed(k)) : k \in Kinds}] :
        /\ \A k \in Kinds : order[k] \in SetToSeqs(listed(k))
        /\ notes' = [h \in Handlers |->
                IF h[1] # o THEN notes[h]
                ELSE [j \in DOMAIN order[h[2]] |-> add(order[h[2]][j])]]
    BY DEF Restart
<1>2. \A k \in Kinds :
        /\ [j \in DOMAIN order[k] |-> add(order[k][j])] \in Seq(Events)
        /\ ToSet([j \in DOMAIN order[k] |-> add(order[k][j])]) = {add(w) : w \in listed(k)}
    <2> SUFFICES ASSUME NEW k \in Kinds
                 PROVE  /\ [j \in DOMAIN order[k] |-> add(order[k][j])] \in Seq(Events)
                        /\ ToSet([j \in DOMAIN order[k] |-> add(order[k][j])])
                            = {add(w) : w \in listed(k)}
        OBVIOUS
    <2> DEFINE S == listed(k)
               f == [w \in S |-> add(w)]
               s == order[k]
    <2>1. IsFiniteSet(S)
        BY WorkloadsAssumption, FS_Subset DEF OfKind
    <2>2. f \in [S -> Events]
        <3>1. \A w \in S : add(w) \in Events
            BY ImportOfType DEF OfKind, TypeOK, Events
        <3> QED
            BY <3>1
    <2>3. s \in SetToSeqs(S)
        BY <1>1
    <2>4. \A j \in DOMAIN s : s[j] \in S
        BY <2>1, <2>3, OrderOfSet
    <2>5. Mapped(s, f) = [j \in DOMAIN s |-> add(s[j])]
        BY <2>4 DEF Mapped
    <2>6. Range(f) = {add(w) : w \in S}
        BY DEF Range
    <2>7. Mapped(s, f) \in Seq(Events) /\ ToSet(Mapped(s, f)) = Range(f)
        BY <2>1, <2>2, <2>3, MapOrder
    <2> QED
        BY <2>5, <2>6, <2>7
<1>3. \A h \in Handlers : h[1] \in Operators /\ h[2] \in Kinds
    BY DEF Handlers
<1> HIDE DEF add, listed
<1>4. \A h \in Handlers : h[1] = o => notes'[h] = [j \in DOMAIN order[h[2]] |-> add(order[h[2]][j])]
    BY <1>1
<1>5. \A h \in Handlers : h[1] # o => notes'[h] = notes[h]
    BY <1>1
<1>6. notes' \in [Handlers -> Seq(Events)]
    <2>1. \A h \in Handlers : notes'[h] \in Seq(Events)
        BY <1>2, <1>3, <1>4, <1>5 DEF TypeOK
    <2>2. notes' = [h \in Handlers |-> notes'[h]]
        BY <1>1
    <2> QED
        BY <2>1, <2>2
<1>7. \A h \in Handlers : h[1] = o => ToSet(notes'[h]) = {add(w) : w \in listed(h[2])}
    BY <1>2, <1>3, <1>4
<1> QED
    BY <1>5, <1>6, <1>7 DEF add, listed

(* The head of a handler's queue is an event, and taking it leaves a queue *)
(* with the other events.                                                  *)
LEMMA TakeNotes ==
    ASSUME TypeOK, NEW h \in Handlers, NEW type, Take(h, type)
    PROVE  /\ Head(notes[h]) \in Events
           /\ Head(notes[h]).import \in Imports
           /\ Head(notes[h]).type = type
           /\ pc[h] = None
           /\ notes' \in [Handlers -> Seq(Events)]
           /\ \A g \in Handlers \ {h} : notes'[g] = notes[g]
           /\ ToSet(notes[h]) = {Head(notes[h])} \union ToSet(notes'[h])
<1>1. notes[h] \in Seq(Events) /\ notes[h] # <<>>
    BY DEF TypeOK, Take
<1>2. /\ Head(notes[h]) \in Events
      /\ Tail(notes[h]) \in Seq(Events)
      /\ ToSet(notes[h]) = {Head(notes[h])} \union ToSet(Tail(notes[h]))
    BY <1>1, TakeHead
<1>3. notes' = [notes EXCEPT ![h] = Tail(@)] /\ notes \in [Handlers -> Seq(Events)]
    BY DEF Take, TypeOK
<1>4. notes'[h] = Tail(notes[h])
    BY <1>3
<1>5. notes' \in [Handlers -> Seq(Events)] /\ \A g \in Handlers \ {h} : notes'[g] = notes[g]
    BY <1>2, <1>3
<1>6. Head(notes[h]).import \in Imports
    BY <1>2 DEF Events
<1> QED
    BY <1>2, <1>4, <1>5, <1>6 DEF Take

(* What a change of a workload leaves in the queues.                       *)
LEMMA WriteNotes ==
    ASSUME TypeOK, NEW w \in Workloads, NEW new \in WorkloadState, Write(w, new)
    PROVE  /\ notes' \in [Handlers -> Seq(Events)]
           /\ \A h \in Handlers :
                IF h \notin down /\ h[2] = KindOf[w]
                THEN ToSet(notes'[h]) = ToSet(notes[h])
                        \union ToSet(Passed(w, seen[h[1]][w], new, "delete"))
                ELSE notes'[h] = notes[h]
<1> DEFINE hears(h) == h[1] \in {o \in Operators : <<o, KindOf[w]>> \notin down} /\ h[2] = KindOf[w]
           more(h) == Passed(w, seen[h[1]][w], new, "delete")
<1>1. notes' = [h \in Handlers |-> IF hears(h) THEN notes[h] \o more(h) ELSE notes[h]]
    BY DEF Write
<1>2. \A h \in Handlers : h[1] \in Operators /\ h = <<h[1], h[2]>>
    BY DEF Handlers
<1>3. \A h \in Handlers : hears(h) <=> h \notin down /\ h[2] = KindOf[w]
    BY <1>2
<1>4. \A h \in Handlers : notes[h] \in Seq(Events) /\ more(h) \in Seq(Events)
    BY <1>2, PassedType DEF TypeOK
<1> HIDE DEF hears, more
<1>5. \A h \in Handlers :
        /\ notes[h] \o more(h) \in Seq(Events)
        /\ ToSet(notes[h] \o more(h)) = ToSet(notes[h]) \union ToSet(more(h))
    BY <1>4, AppendSet
<1>6. notes' \in [Handlers -> Seq(Events)]
    BY <1>1, <1>4, <1>5
<1>7. \A h \in Handlers :
        IF hears(h) THEN ToSet(notes'[h]) = ToSet(notes[h]) \union ToSet(more(h))
        ELSE notes'[h] = notes[h]
    BY <1>1, <1>5
<1> QED
    BY <1>3, <1>6, <1>7 DEF more

(* The system starts with its types.                                       *)
LEMMA InitTypeOK == Init => TypeOK
<1> SUFFICES ASSUME Init PROVE TypeOK
    OBVIOUS
<1>1. Absent \in WorkloadState
    BY DEF Absent, WorkloadState
<1>2. <<>> \in Seq(Events)
    BY EmptySeq
<1> QED
    BY <1>1, <1>2 DEF Init, TypeOK

(* A change of a workload keeps the types.                                 *)
LEMMA WriteTypeOK ==
    ASSUME TypeOK, NEW w \in Workloads, NEW new \in WorkloadState, Write(w, new)
    PROVE  TypeOK'
<1>1. notes' \in [Handlers -> Seq(Events)]
    BY WriteNotes
<1>2. Selected(new) => ImportOf(w, new) \in Imports
    BY ImportOfType
<1>3. Dropped(wl[w], new) => ImportOf(w, new) \in Imports /\ ImportOf(w, wl[w]) \in Imports
    BY ImportOfType DEF Dropped, TypeOK
<1>4. missed' \subseteq Imports /\ leaked' \subseteq Imports
    BY <1>2, <1>3 DEF Write, TypeOK
<1>5. /\ wl' = [wl EXCEPT ![w] = new]
      /\ \A o \in Operators : seen'[o] \in {seen[o], [seen[o] EXCEPT ![w] = new]}
      /\ seen' = [o \in Operators |-> seen'[o]]
    BY DEF Write
<1>6. wl' \in [Workloads -> WorkloadState] /\ seen' \in [Operators -> [Workloads -> WorkloadState]]
    <2>1. wl' \in [Workloads -> WorkloadState]
        BY <1>5 DEF TypeOK
    <2>2. \A o \in Operators : seen'[o] \in [Workloads -> WorkloadState]
        BY <1>5 DEF TypeOK
    <2> QED
        BY <2>1, <2>2, <1>5
<1>7. changes' \in Nat /\ UNCHANGED <<app, pc, view, down, gaps, faults>>
    BY DEF Write, TypeOK
<1> QED
    BY <1>1, <1>4, <1>6, <1>7 DEF TypeOK

(* UIDs are handed out one after the other, and what has none has no       *)
(* label.                                                                  *)
Known(state) == state.uid <= changes /\ (state.uid = 0 => state.label = None)

(* A change of users is a Write of a state with the old UID, a new one or  *)
(* none.                                                                   *)
LEMMA UsersWrite ==
    ASSUME TypeOK, NEW w \in Workloads, Users(w)
    PROVE  \E new \in WorkloadState :
                /\ Write(w, new)
                /\ new # wl[w]
                /\ new.uid \in {wl[w].uid, changes + 1, 0}
                /\ Known(wl[w]) /\ new.uid = 0 => new.label = None
<1>1. CASE CreateWorkload(w)
    <2>1. PICK l \in Names \union {None} : Write(w, [uid |-> changes + 1, label |-> l])
        BY <1>1 DEF CreateWorkload
    <2> DEFINE new == [uid |-> changes + 1, label |-> l]
    <2>2. new \in WorkloadState /\ new.uid = changes + 1 /\ changes \in Nat
        BY DEF WorkloadState, TypeOK
    <2>3. wl[w].uid = 0
        BY <1>1 DEF CreateWorkload, Absent
    <2> HIDE DEF new
    <2> QED
        BY <2>1, <2>2, <2>3 DEF new
<1>2. CASE SetLabel(w)
    <2>1. PICK l \in (Names \union {None}) \ {wl[w].label} : Write(w, [wl[w] EXCEPT !.label = l])
        BY <1>2 DEF SetLabel
    <2> DEFINE new == [wl[w] EXCEPT !.label = l]
    <2>2. wl[w] \in WorkloadState /\ wl[w] # Absent
        BY <1>2 DEF SetLabel, TypeOK
    <2>3. new \in WorkloadState /\ new.uid = wl[w].uid /\ new.label # wl[w].label
        BY <2>2 DEF WorkloadState
    <2>4. Known(wl[w]) => wl[w].uid # 0
        BY <2>2 DEF WorkloadState, Absent, Known
    <2> HIDE DEF new
    <2> QED
        BY <2>1, <2>3, <2>4 DEF new
<1>3. CASE DeleteWorkload(w)
    <2>1. Absent \in WorkloadState /\ Absent.uid = 0 /\ Absent.label = None
        BY DEF Absent, WorkloadState
    <2>2. Write(w, Absent) /\ Absent # wl[w]
        BY <1>3 DEF DeleteWorkload
    <2> QED
        BY <2>1, <2>2
<1> QED
    BY <1>1, <1>2, <1>3 DEF Users

(* Every step keeps the types.                                             *)
LEMMA NextTypeOK == TypeOK /\ [Next]_vars => TypeOK'
<1> SUFFICES ASSUME TypeOK, [Next]_vars PROVE TypeOK'
    OBVIOUS
<1>1. ASSUME NEW w \in Workloads, Users(w) PROVE TypeOK'
    BY <1>1, UsersWrite, WriteTypeOK
<1>2. ASSUME NEW h \in Handlers, Disconnect(h) PROVE TypeOK'
    BY <1>2 DEF Disconnect, TypeOK
<1>3. ASSUME NEW h \in Handlers, Relist(h) PROVE TypeOK'
    <2> DEFINE o == h[1]
               stale == {w \in OfKind(h[2]) : seen[o][w] # wl[w]}
               lost == {w \in stale : Dropped(seen[o][w], wl[w])}
    <2>1. o \in Operators
        BY DEF Handlers
    <2>2. \A w \in lost : ImportOf(w, wl[w]) \in Imports /\ ImportOf(w, seen[o][w]) \in Imports
        BY <2>1, ImportOfType DEF Dropped, OfKind, TypeOK
    <2>3. missed' \subseteq Imports /\ leaked' \subseteq Imports
        BY <1>3, <2>2 DEF Relist, TypeOK
    <2>4. notes' \in [Handlers -> Seq(Events)]
        <3>1. PICK t \in Seq(Events) : notes' = [notes EXCEPT ![h] = @ \o t]
            BY <1>3, RelistNotes
        <3>2. notes[h] \o t \in Seq(Events)
            BY <3>1, AppendSet DEF TypeOK
        <3> QED
            BY <3>1, <3>2 DEF TypeOK
    <2>5. seen' \in [Operators -> [Workloads -> WorkloadState]]
        BY <1>3, <2>1 DEF Relist, TypeOK
    <2> QED
        BY <1>3, <2>3, <2>4, <2>5 DEF Relist, TypeOK
<1>4. ASSUME NEW o \in Operators, ViewSync(o) PROVE TypeOK'
    BY <1>4 DEF ViewSync, TypeOK
<1>5. ASSUME NEW n \in Names, CollectGarbage(n) PROVE TypeOK'
    BY <1>5 DEF CollectGarbage, TypeOK
<1>6. ASSUME NEW h \in Handlers, Handle(h) PROVE TypeOK'
    <2>1. CASE OnAddSkips(h)
        BY <2>1, TakeNotes DEF OnAddSkips, Miss, TypeOK
    <2>2. CASE OnAddGetFails(h)
        BY <2>2, TakeNotes DEF OnAddGetFails, Miss, Fault, TypeOK
    <2>3. CASE OnAddFindsNone(h)
        BY <2>3, TakeNotes DEF OnAddFindsNone, TypeOK
    <2>4. CASE CreateApp(h)
        <3>1. pc[h] \in Imports /\ pc[h].name \in Names
            BY <2>4 DEF CreateApp, TypeOK, Imports
        <3> QED
            BY <2>4, <3>1 DEF CreateApp, TypeOK
    <2>5. CASE CreateRefused(h)
        BY <2>5 DEF CreateRefused, Miss, TypeOK
    <2>6. CASE CreateFails(h)
        BY <2>6 DEF CreateFails, Miss, Fault, TypeOK
    <2>7. CASE OnDelete(h)
        <3>1. Head(notes[h]).import.name \in Names
            BY <2>7, TakeNotes DEF OnDelete, Imports
        <3> QED
            BY <2>7, <3>1, TakeNotes DEF OnDelete, TypeOK
    <2>8. CASE OnDeleteFails(h)
        BY <2>8, TakeNotes DEF OnDeleteFails, Fault, TypeOK
    <2>9. CASE OnTombstone(h)
        BY <2>9, TakeNotes DEF OnTombstone, TypeOK
    <2> QED
        BY <1>6, <2>1, <2>2, <2>3, <2>4, <2>5, <2>6, <2>7, <2>8, <2>9 DEF Handle
<1>7. ASSUME NEW o \in Operators, Restart(o) PROVE TypeOK'
    <2>1. notes' \in [Handlers -> Seq(Events)]
        BY <1>7, RestartNotes
    <2>2. leaked' \subseteq Imports
        <3> DEFINE own == {o} \X Kinds
                   unhandled == {e \in UNION {ToSet(notes[h]) : h \in own} : e.type # "add"}
                   unseen == {w \in Workloads : seen[o][w] # wl[w] /\ Selected(seen[o][w])}
        <3>1. \A h \in Handlers : \A e \in ToSet(notes[h]) : e.import \in Imports
            <4> TAKE h \in Handlers
            <4> TAKE e \in ToSet(notes[h])
            <4>1. notes[h] \in Seq(Events)
                BY DEF TypeOK
            <4>2. PICK j \in 1 .. Len(notes[h]) : e = notes[h][j]
                BY <4>1, LenProperties DEF ToSet
            <4>3. e \in Events
                BY <4>1, <4>2, ElementOfSeq
            <4> QED
                BY <4>3 DEF Events
        <3>2. \A e \in unhandled : e.import \in Imports
            BY <3>1 DEF Handlers
        <3>3. \A w \in unseen : ImportOf(w, seen[o][w]) \in Imports
            BY ImportOfType DEF TypeOK
        <3>4. leaked' = leaked \union {e.import : e \in unhandled}
                            \union {ImportOf(w, seen[o][w]) : w \in unseen}
            BY <1>7 DEF Restart
        <3> HIDE DEF unhandled, unseen
        <3> QED
            BY <3>2, <3>3, <3>4 DEF TypeOK
    <2>3. seen' \in [Operators -> [Workloads -> WorkloadState]]
        BY <1>7 DEF Restart, TypeOK
    <2>4. pc' \in [Handlers -> Imports \union {None}] /\ view' \in [Operators -> SUBSET Names]
        BY <1>7 DEF Restart, TypeOK
    <2>5. down' \subseteq Handlers /\ missed' \subseteq Imports /\ faults' \in Nat
        BY <1>7 DEF Restart, Fault, TypeOK
    <2> QED
        BY <1>7, <2>1, <2>2, <2>3, <2>4, <2>5 DEF Restart, TypeOK
<1>8. CASE UNCHANGED vars
    BY <1>8 DEF vars, TypeOK
<1> QED
    BY <1>1, <1>2, <1>3, <1>4, <1>5, <1>6, <1>7, <1>8 DEF Next

(* The state of the importer has its types, for every set of workloads,    *)
(* names and replicas (SyntheticImport).                                   *)
THEOREM TypeCorrect == Spec => []TypeOK
<1> QED
    BY InitTypeOK, NextTypeOK, PTL DEF Spec

-----------------------------------------------------------------------------
(* Imports are tracked.                                                    *)

(* An informer whose watch works has seen the present state.               *)
UpToDate ==
    \A o \in Operators, w \in Workloads : <<o, KindOf[w]>> \notin down => seen[o][w] = wl[w]

KnownStates == \A w \in Workloads : Known(wl[w]) /\ \A o \in Operators : Known(seen[o][w])

Tracked(i) == app[i.name] = i \/ i \in missed \/ ImportPending(i)

Agreed(w, state) == \A o \in Operators : seen[o][w] = state

(* What every replica has seen is tracked, be it the present state or an   *)
(* earlier one of a workload that is still there.                          *)
Brought ==
    \A w \in Workloads, o \in Operators :
        LET state == seen[o][w]
        IN  state.label \in ValidNames /\ state.uid = wl[w].uid /\ Agreed(w, state)
                => Tracked(ImportOf(w, state))

ImportInv == TypeOK /\ UpToDate /\ KnownStates /\ Brought

(* The strengthening implies ImportTracked: if no replica has still to be  *)
(* told, all of them have seen the present state.                          *)
LEMMA ImportInvTracks == ImportInv => ImportTracked
<1> SUFFICES ASSUME ImportInv, NEW w \in Workloads, wl[w].label \in ValidNames, ~Unheard(w)
             PROVE  Tracked(ImportOf(w, wl[w]))
    BY DEF ImportTracked, Tracked
<1>1. Agreed(w, wl[w])
    BY DEF Unheard, Agreed
<1>2. PICK o \in Operators : seen[o][w] = wl[w]
    BY <1>1, OperatorsAssumption DEF Agreed
<1> QED
    BY <1>1, <1>2 DEF ImportInv, Brought

(* It holds initially: nothing carries a label.                            *)
LEMMA InitImportInv == Init => ImportInv
<1> SUFFICES ASSUME Init PROVE ImportInv
    OBVIOUS
<1>1. \A w \in Workloads : wl[w] = Absent /\ \A o \in Operators : seen[o][w] = Absent
    BY DEF Init
<1>2. Absent.uid = 0 /\ Absent.label = None /\ None \notin ValidNames /\ changes = 0
    BY NoneAssumption, NamesAssumption DEF Absent, Init
<1>3. UpToDate
    BY <1>1 DEF UpToDate
<1>4. KnownStates
    BY <1>1, <1>2 DEF KnownStates, Known
<1>5. Brought
    BY <1>1, <1>2 DEF Brought
<1> QED
    BY <1>3, <1>4, <1>5, InitTypeOK DEF ImportInv

(* A handler that takes the add of an import off its queue must answer for *)
(* that import, and for no other.                                          *)
LEMMA TakePending ==
    ASSUME TypeOK, NEW h \in Handlers, NEW type, Take(h, type),
           NEW i \in Imports, ImportPending(i),
           \A g \in Handlers \ {h} : pc'[g] = pc[g]
    PROVE  ImportPending(i)' \/ (type = "add" /\ i = Head(notes[h]).import)
<1>1. PICK g \in Handlers :
        \/ pc[g] = i
        \/ \E e \in ToSet(notes[g]) : e.type = "add" /\ e.import = i
    BY DEF ImportPending
<1>2. i # None
    BY NoneAssumption DEF Imports
<1>3. CASE g # h
    <2>1. pc'[g] = pc[g] /\ notes'[g] = notes[g]
        BY <1>3, TakeNotes
    <2> QED
        BY <1>1, <2>1 DEF ImportPending
<1>4. CASE g = h
    <2>1. PICK e \in ToSet(notes[h]) : e.type = "add" /\ e.import = i
        BY <1>1, <1>2, <1>4, TakeNotes
    <2>2. e = Head(notes[h]) \/ e \in ToSet(notes'[h])
        BY <2>1, TakeNotes
    <2>3. Head(notes[h]).type = type
        BY TakeNotes
    <2> QED
        BY <2>1, <2>2, <2>3 DEF ImportPending
<1> QED
    BY <1>3, <1>4

(* A step of a handler keeps every tracked import tracked.                 *)
LEMMA HandleTracks ==
    ASSUME TypeOK, NEW h \in Handlers, Handle(h), NEW i \in Imports, Tracked(i)
    PROVE  Tracked(i)'
<1> DEFINE j == Head(notes[h]).import
<1>0. i # None /\ i.name \in Names
    BY NoneAssumption DEF Imports
<1>1. CASE OnAddSkips(h)
    <2>1. j \in Imports /\ app' = app /\ missed \subseteq missed' /\ pc' = pc
        BY <1>1, TakeNotes DEF OnAddSkips, Miss
    <2>2. app[j.name] = j \/ j \in missed'
        BY <1>1 DEF OnAddSkips, Miss
    <2>3. ImportPending(i) => ImportPending(i)' \/ i = j
        BY <1>1, <2>1, TakePending DEF OnAddSkips
    <2> QED
        BY <2>1, <2>2, <2>3 DEF Tracked
<1>2. CASE OnAddGetFails(h)
    <2>1. j \in Imports /\ app' = app /\ missed \subseteq missed' /\ pc' = pc
        BY <1>2, TakeNotes DEF OnAddGetFails, Miss
    <2>2. app[j.name] = j \/ j \in missed'
        BY <1>2 DEF OnAddGetFails, Miss
    <2>3. ImportPending(i) => ImportPending(i)' \/ i = j
        BY <1>2, <2>1, TakePending DEF OnAddGetFails
    <2> QED
        BY <2>1, <2>2, <2>3 DEF Tracked
<1>3. CASE OnAddFindsNone(h)
    <2>1. app' = app /\ missed' = missed /\ pc' = [pc EXCEPT ![h] = j]
        BY <1>3 DEF OnAddFindsNone
    <2>2. ImportPending(i) => ImportPending(i)' \/ i = j
        BY <1>3, <2>1, TakePending DEF OnAddFindsNone, TypeOK
    <2>3. i = j => ImportPending(i)'
        BY <2>1 DEF ImportPending, TypeOK
    <2> QED
        BY <2>1, <2>2, <2>3 DEF Tracked
<1>4. ASSUME pc[h] # None, notes' = notes, pc' = [pc EXCEPT ![h] = None], ImportPending(i), i # pc[h]
      PROVE  ImportPending(i)'
    <2>1. PICK g \in Handlers :
            \/ pc[g] = i
            \/ \E e \in ToSet(notes[g]) : e.type = "add" /\ e.import = i
        BY <1>4 DEF ImportPending
    <2>2. pc[g] = i => pc'[g] = i
        BY <1>4, <2>1 DEF TypeOK
    <2> QED
        BY <1>4, <2>1, <2>2 DEF ImportPending
<1>5. CASE CreateApp(h)
    <2> DEFINE k == pc[h]
    <2>1. /\ k \in Imports /\ k.name \in Names /\ app[k.name] = None
          /\ app' = [app EXCEPT ![k.name] = k]
          /\ missed' = missed \ {k}
        BY <1>5 DEF CreateApp, TypeOK, Imports
    <2>2. app'[k.name] = k
        BY <2>1 DEF TypeOK
    <2>3. CASE i = k
        BY <2>2, <2>3 DEF Tracked
    <2>4. CASE i # k
        <3>1. app[i.name] = i => app'[i.name] = i
            BY <1>0, <2>1, <2>4 DEF TypeOK
        <3>2. ImportPending(i) => ImportPending(i)'
            BY <1>4, <1>5, <2>4 DEF CreateApp
        <3> QED
            BY <2>1, <2>4, <3>1, <3>2 DEF Tracked
    <2> QED
        BY <2>3, <2>4
<1>6. ASSUME pc[h] # None, app' = app, notes' = notes, pc' = [pc EXCEPT ![h] = None], Miss(pc[h])
      PROVE  Tracked(i)'
    <2>1. app[pc[h].name] = pc[h] \/ pc[h] \in missed'
        BY <1>6 DEF Miss
    <2>2. missed \subseteq missed'
        BY <1>6 DEF Miss
    <2>3. ImportPending(i) => ImportPending(i)' \/ i = pc[h]
        BY <1>4, <1>6
    <2> QED
        BY <1>6, <2>1, <2>2, <2>3 DEF Tracked
<1>7. CASE CreateRefused(h)
    BY <1>6, <1>7 DEF CreateRefused
<1>8. CASE CreateFails(h)
    BY <1>6, <1>8 DEF CreateFails
<1>9. CASE OnDelete(h)
    <2>1. /\ j.name \in Names /\ app' = [app EXCEPT ![j.name] = None]
          /\ missed' = missed \union ({app[j.name]} \ {None})
        BY <1>9, TakeNotes DEF OnDelete, Imports
    <2>2. app[i.name] = i => app'[i.name] = i \/ i \in missed'
        BY <1>0, <2>1 DEF TypeOK
    <2>3. ImportPending(i) => ImportPending(i)'
        BY <1>9, TakePending DEF OnDelete
    <2> QED
        BY <2>1, <2>2, <2>3 DEF Tracked
<1>10. CASE OnDeleteFails(h)
    <2>1. ImportPending(i) => ImportPending(i)'
        BY <1>10, TakePending DEF OnDeleteFails
    <2> QED
        BY <1>10, <2>1 DEF OnDeleteFails, Tracked
<1>11. CASE OnTombstone(h)
    <2>1. ImportPending(i) => ImportPending(i)'
        BY <1>11, TakePending DEF OnTombstone
    <2> QED
        BY <1>11, <2>1 DEF OnTombstone, Tracked
<1> QED
    BY <1>1, <1>2, <1>3, <1>5, <1>7, <1>8, <1>9, <1>10, <1>11 DEF Handle

(* A change of a workload keeps tracked what it does not itself forget.    *)
LEMMA WriteTracks ==
    ASSUME TypeOK, NEW w \in Workloads, NEW new \in WorkloadState, Write(w, new),
           NEW i \in Imports, Tracked(i), i \in missed => i \in missed'
    PROVE  Tracked(i)'
<1>1. app' = app /\ pc' = pc
    BY DEF Write
<1>2. \A h \in Handlers : ToSet(notes[h]) \subseteq ToSet(notes'[h])
    BY WriteNotes
<1>3. ImportPending(i) => ImportPending(i)'
    BY <1>1, <1>2 DEF ImportPending
<1> QED
    BY <1>1, <1>3 DEF Tracked

(* A change of a workload preserves the strengthening.                     *)
LEMMA WriteImportInv ==
    ASSUME ImportInv, NEW w \in Workloads, NEW new \in WorkloadState, Write(w, new),
           new # wl[w], new.uid \in {wl[w].uid, changes + 1, 0}, new.uid = 0 => new.label = None
    PROVE  ImportInv'
<1> DEFINE hearing == {o \in Operators : <<o, KindOf[w]>> \notin down}
<1>0. TypeOK /\ UpToDate /\ KnownStates /\ Brought /\ changes \in Nat
    BY DEF ImportInv, TypeOK
<1>1. /\ wl' = [wl EXCEPT ![w] = new]
      /\ changes' = changes + 1
      /\ UNCHANGED <<app, pc, down>>
      /\ seen' = [o \in Operators |->
                IF o \in hearing THEN [seen[o] EXCEPT ![w] = new] ELSE seen[o]]
    BY DEF Write
<1>2. \A v \in Workloads :
        /\ wl'[v] = IF v = w THEN new ELSE wl[v]
        /\ \A o \in Operators :
            seen'[o][v] = IF v = w /\ o \in hearing THEN new ELSE seen[o][v]
    BY <1>0, <1>1 DEF TypeOK
<1>3. UpToDate'
    BY <1>0, <1>1, <1>2 DEF UpToDate
<1>4. KnownStates'
    <2> DEFINE still(state) == state.uid <= changes' /\ (state.uid = 0 => state.label = None)
    <2>1. \A state \in WorkloadState : Known(state) => still(state)
        BY <1>0, <1>1 DEF Known, WorkloadState
    <2>2. still(new)
        <3>1. wl[w].uid \in Nat /\ wl[w].uid <= changes
            BY <1>0 DEF Known, KnownStates, WorkloadState, TypeOK
        <3> QED
            BY <1>0, <1>1, <3>1 DEF WorkloadState
    <2>3. \A v \in Workloads :
            still(wl[v]) /\ \A o \in Operators : still(seen[o][v])
        BY <1>0, <2>1 DEF TypeOK, KnownStates
    <2> HIDE DEF still
    <2>4. \A v \in Workloads :
            still(wl'[v]) /\ \A o \in Operators : still(seen'[o][v])
        BY <1>2, <2>2, <2>3
    <2> QED
        BY <2>4 DEF KnownStates, Known, still
<1>5. Brought'
    <2> SUFFICES ASSUME NEW v \in Workloads, NEW o \in Operators, NEW state,
                        state = seen'[o][v], state.label \in ValidNames,
                        state.uid = wl'[v].uid, \A q \in Operators : seen'[q][v] = state
                 PROVE  Tracked(ImportOf(v, state))'
        BY DEF Brought, Agreed
    <2>0. state \in WorkloadState /\ Selected(state) /\ ImportOf(v, state) \in Imports
        <3>1. state \in WorkloadState
            BY <1>0, <1>2 DEF TypeOK
        <3> QED
            BY <3>1, ImportOfType, NoneAssumption, NamesAssumption DEF Selected
    <2>1. CASE v # w
        <3>1. Tracked(ImportOf(v, state))
            BY <1>0, <1>2, <2>1 DEF Brought, Agreed
        <3>2. ImportOf(v, state) # ImportOf(w, new)
            BY <2>1 DEF ImportOf
        <3>3. ImportOf(v, state) \in missed => ImportOf(v, state) \in missed'
            BY <3>2 DEF Write
        <3> QED
            BY <1>0, <2>0, <3>1, <3>3, WriteTracks
    <2>2. CASE v = w /\ hearing = {}
        <3>1. \A q \in Operators : seen[q][w] = state
            BY <1>2, <2>2
        <3>2. state.uid = wl[w].uid
            BY <1>0, <1>2, <2>0, <2>2, <3>1, NoneAssumption, NamesAssumption
            DEF KnownStates, Known, WorkloadState
        <3>3. Tracked(ImportOf(w, state))
            BY <1>0, <2>2, <3>1, <3>2 DEF Brought, Agreed
        <3>4. hearing # Operators
            BY <2>2, OperatorsAssumption
        <3>5. missed' = missed
            BY <2>2, <3>4 DEF Write
        <3> QED
            BY <1>0, <2>0, <2>2, <3>3, <3>5, WriteTracks
    <2>3. CASE v = w /\ hearing # {}
        <3>1. PICK q \in hearing : TRUE
            BY <2>3
        <3>2. state = new /\ seen[q][w] = wl[w]
            BY <1>0, <1>2, <2>3, <3>1 DEF UpToDate
        <3>3. CASE Selected(wl[w])
            <4>1. Dropped(wl[w], new)
                BY <2>0, <3>2, <3>3 DEF Dropped
            <4>2. ImportOf(w, new) \in missed'
                BY <2>3, <4>1 DEF Write
            <4> QED
                BY <2>3, <3>2, <4>2 DEF Tracked
        <3>4. CASE ~Selected(wl[w])
            <4> DEFINE e == [type |-> "add", import |-> ImportOf(w, new)]
                       h == <<q, KindOf[w]>>
            <4>1. h \in Handlers \ down /\ h[1] = q /\ h[2] = KindOf[w]
                BY <3>1, KindAssumption DEF Handlers
            <4>2. Passed(w, seen[q][w], new, "delete") = <<e>>
                <5>1. Selected(new) /\ ~Selected(seen[q][w])
                    BY <2>0, <3>2, <3>4
                <5> QED
                    BY <5>1, Zenon DEF Passed
            <4>3. e \in ToSet(notes'[h])
                <5>1. e \in ToSet(<<e>>)
                    BY DEF ToSet
                <5> HIDE DEF e, h
                <5> QED
                    BY <1>0, <4>1, <4>2, <5>1, WriteNotes
            <4>4. e.type = "add" /\ e.import = ImportOf(w, new)
                OBVIOUS
            <4> HIDE DEF e, h
            <4>5. \E g \in Handlers : \E d \in ToSet(notes'[g]) :
                        d.type = "add" /\ d.import = ImportOf(w, new)
                BY <4>1, <4>3, <4>4
            <4>6. ImportPending(ImportOf(v, state))'
                BY <2>3, <3>2, <4>5 DEF ImportPending, ImportOf
            <4> QED
                BY <4>6 DEF Tracked
        <3> QED
            BY <3>3, <3>4
    <2> QED
        BY <2>1, <2>2, <2>3
<1> QED
    BY <1>0, <1>3, <1>4, <1>5, WriteTypeOK DEF ImportInv

(* A list after a gap preserves it: what the list adds to the store of the *)
(* informer is an event or a dropped update.                               *)
LEMMA RelistImportInv == ASSUME ImportInv, NEW h \in Handlers, Relist(h) PROVE ImportInv'
<1> DEFINE o == h[1]
           stale == {w \in OfKind(h[2]) : seen[o][w] # wl[w]}
<1>0. TypeOK /\ UpToDate /\ KnownStates /\ Brought
    BY DEF ImportInv
<1>1. /\ UNCHANGED <<wl, app, pc, changes>>
      /\ down' = down \ {h}
      /\ seen' = [seen EXCEPT ![o] = [w \in Workloads |->
                IF w \in stale THEN wl[w] ELSE seen[o][w]]]
      /\ missed' = missed \union {ImportOf(w, wl[w]) : w \in {v \in stale : Dropped(seen[o][v], wl[v])}}
    BY DEF Relist
<1>2. o \in Operators /\ h[2] \in Kinds /\ h = <<o, h[2]>>
    BY DEF Handlers
<1>3. /\ \A w \in Workloads : seen'[o][w] = IF w \in stale THEN wl[w] ELSE seen[o][w]
      /\ \A q \in Operators \ {o} : seen'[q] = seen[q]
    BY <1>0, <1>1, <1>2 DEF TypeOK
<1>4. PICK t \in Seq(Events) :
        /\ notes' = [notes EXCEPT ![h] = @ \o t]
        /\ ToSet(t) = {Found(o, w) : w \in Crossed(o, h[2])}
    BY <1>0, RelistNotes
<1>5. /\ ToSet(notes'[h]) = ToSet(notes[h]) \union ToSet(t)
      /\ \A g \in Handlers \ {h} : notes'[g] = notes[g]
    <2>1. notes[h] \in Seq(Events) /\ notes'[h] = notes[h] \o t
        BY <1>0, <1>4 DEF TypeOK
    <2> QED
        BY <1>0, <1>4, <2>1, AppendSet DEF TypeOK
<1>6. UpToDate'
    <2> SUFFICES ASSUME NEW q \in Operators, NEW w \in Workloads, <<q, KindOf[w]>> \notin down'
                 PROVE  seen'[q][w] = wl'[w]
        BY DEF UpToDate
    <2>1. CASE <<q, KindOf[w]>> = h
        <3>1. q = o /\ w \in OfKind(h[2])
            BY <1>2, <2>1 DEF OfKind
        <3> QED
            BY <1>1, <1>3, <3>1
    <2>2. CASE <<q, KindOf[w]>> # h
        <3>1. seen[q][w] = wl[w]
            BY <1>0, <1>1, <2>2 DEF UpToDate
        <3> QED
            BY <1>1, <1>3, <3>1
    <2> QED
        BY <2>1, <2>2
<1>7. KnownStates'
    BY <1>0, <1>1, <1>3 DEF KnownStates, Known
<1>8. Brought'
    <2> SUFFICES ASSUME NEW v \in Workloads, NEW p \in Operators, NEW state,
                        state = seen'[p][v], state.label \in ValidNames,
                        state.uid = wl'[v].uid, \A q \in Operators : seen'[q][v] = state
                 PROVE  Tracked(ImportOf(v, state))'
        BY DEF Brought, Agreed
    <2>1. CASE v \in stale
        <3>1. state = wl[v] /\ Selected(state)
            BY <1>2, <1>3, <2>1, NoneAssumption, NamesAssumption DEF Selected
        <3>2. CASE Selected(seen[o][v])
            <4>1. ImportOf(v, state) \in missed'
                BY <1>1, <2>1, <3>1, <3>2 DEF Dropped
            <4> QED
                BY <4>1 DEF Tracked
        <3>3. CASE ~Selected(seen[o][v])
            <4>1. v \in Crossed(o, h[2])
                BY <2>1, <3>1, <3>3 DEF Crossed
            <4>2. Found(o, v) \in ToSet(notes'[h])
                BY <1>4, <1>5, <4>1
            <4>3. Found(o, v).type = "add" /\ Found(o, v).import = ImportOf(v, state)
                BY <3>1 DEF Found, Moved
            <4> HIDE DEF stale
            <4>4. ImportPending(ImportOf(v, state))'
                BY <4>2, <4>3 DEF ImportPending, ImportOf
            <4> QED
                BY <4>4 DEF Tracked
        <3> QED
            BY <3>2, <3>3
    <2>2. CASE v \notin stale
        <3>1. \A q \in Operators : seen'[q][v] = seen[q][v]
            BY <1>3, <2>2
        <3>2. Tracked(ImportOf(v, state))
            BY <1>0, <1>1, <3>1 DEF Brought, Agreed
        <3>3. ImportPending(ImportOf(v, state)) => ImportPending(ImportOf(v, state))'
            BY <1>1, <1>5 DEF ImportPending, ImportOf
        <3> QED
            BY <1>1, <3>2, <3>3 DEF Tracked, ImportOf
    <2> QED
        BY <2>1, <2>2
<1> QED
    BY <1>0, <1>6, <1>7, <1>8, NextTypeOK DEF ImportInv, Next

(* A restart preserves it: the first list brings every labelled workload.  *)
LEMMA RestartImportInv == ASSUME ImportInv, NEW o \in Operators, Restart(o) PROVE ImportInv'
<1>0. TypeOK /\ UpToDate /\ KnownStates
    BY DEF ImportInv
<1>1. /\ UNCHANGED <<wl, app, changes>>
      /\ seen' = [seen EXCEPT ![o] = wl]
      /\ down' = down \ ({o} \X Kinds)
    BY DEF Restart
<1>2. \A w \in Workloads : seen'[o][w] = wl[w] /\ \A q \in Operators \ {o} : seen'[q][w] = seen[q][w]
    BY <1>0, <1>1 DEF TypeOK
<1>3. UpToDate'
    BY <1>0, <1>1, <1>2 DEF UpToDate
<1>4. KnownStates'
    BY <1>0, <1>1, <1>2 DEF KnownStates, Known
<1>5. Brought'
    <2> SUFFICES ASSUME NEW v \in Workloads, NEW p \in Operators, NEW state,
                        state = seen'[p][v], state.label \in ValidNames,
                        state.uid = wl'[v].uid, \A q \in Operators : seen'[q][v] = state
                 PROVE  Tracked(ImportOf(v, state))'
        BY DEF Brought, Agreed
    <2>0. state = wl[v]
        BY <1>2
    <2> DEFINE h == <<o, KindOf[v]>>
    <2>1. h \in Handlers /\ h[1] = o /\ h[2] = KindOf[v] /\ v \in OfKind(h[2])
        BY KindAssumption DEF Handlers, OfKind
    <2>2. Selected(state)
        BY NoneAssumption, NamesAssumption DEF Selected
    <2> DEFINE e == [type |-> "add", import |-> ImportOf(v, state)]
    <2>3. e \in ToSet(notes'[h])
        BY <1>0, <2>0, <2>1, <2>2, RestartNotes
    <2>4. e.type = "add" /\ e.import = ImportOf(v, state)
        OBVIOUS
    <2> HIDE DEF e, h
    <2>5. ImportPending(ImportOf(v, state))'
        BY <1>1, <2>1, <2>3, <2>4 DEF ImportPending, ImportOf
    <2> QED
        BY <2>5 DEF Tracked
<1> QED
    BY <1>0, <1>3, <1>4, <1>5, NextTypeOK DEF ImportInv, Next

(* Every step preserves the strengthening.                                 *)
LEMMA NextImportInv == ImportInv /\ [Next]_vars => ImportInv'
<1> SUFFICES ASSUME ImportInv, [Next]_vars PROVE ImportInv'
    OBVIOUS
<1>0. TypeOK /\ UpToDate /\ KnownStates /\ Brought /\ TypeOK'
    BY NextTypeOK DEF ImportInv
<1>1. ASSUME NEW w \in Workloads, Users(w) PROVE ImportInv'
    BY <1>0, <1>1, UsersWrite, WriteImportInv DEF KnownStates
<1>2. ASSUME UNCHANGED <<wl, seen, down, changes>>,
             \A i \in Imports : i.uid = wl[i.w].uid /\ Tracked(i) => Tracked(i)'
      PROVE  ImportInv'
    <2>1. UpToDate' /\ KnownStates'
        BY <1>0, <1>2 DEF UpToDate, KnownStates, Known
    <2>2. Brought'
        <3> SUFFICES ASSUME NEW v \in Workloads, NEW p \in Operators, NEW state,
                            state = seen'[p][v], state.label \in ValidNames,
                            state.uid = wl'[v].uid, \A q \in Operators : seen'[q][v] = state
                     PROVE  Tracked(ImportOf(v, state))'
            BY DEF Brought, Agreed
        <3>1. state \in WorkloadState /\ Selected(state)
            BY <1>0, <1>2, NoneAssumption, NamesAssumption DEF Selected, TypeOK
        <3>2. ImportOf(v, state) \in Imports
            BY <3>1, ImportOfType
        <3>3. Tracked(ImportOf(v, state))
            BY <1>0, <1>2 DEF Brought, Agreed
        <3>4. ImportOf(v, state).w = v /\ ImportOf(v, state).uid = wl[v].uid
            BY <1>2 DEF ImportOf
        <3> QED
            BY <1>2, <3>2, <3>3, <3>4
    <2> QED
        BY <1>0, <2>1, <2>2 DEF ImportInv
<1>3. ASSUME NEW h \in Handlers, Disconnect(h) PROVE ImportInv'
    <2>1. UNCHANGED <<wl, app, seen, notes, pc, missed, changes>> /\ down \subseteq down'
        BY <1>3 DEF Disconnect
    <2> QED
        BY <1>0, <2>1 DEF ImportInv, UpToDate, KnownStates, Known, Brought, Agreed, Tracked,
                        ImportPending, ImportOf
<1>4. ASSUME NEW h \in Handlers, Relist(h) PROVE ImportInv'
    BY <1>4, RelistImportInv
<1>5. ASSUME NEW h \in Handlers, Handle(h) PROVE ImportInv'
    <2>1. UNCHANGED <<wl, seen, down, changes>>
        BY <1>5 DEF Handle, OnAddSkips, OnAddGetFails, OnAddFindsNone, CreateApp, CreateRefused,
                    CreateFails, OnDelete, OnDeleteFails, OnTombstone
    <2>2. \A i \in Imports : Tracked(i) => Tracked(i)'
        BY <1>0, <1>5, HandleTracks
    <2> QED
        BY <1>2, <2>1, <2>2
<1>6. ASSUME NEW o \in Operators, ViewSync(o) PROVE ImportInv'
    <2>1. UNCHANGED <<wl, app, seen, notes, pc, down, missed, changes>>
        BY <1>6 DEF ViewSync
    <2>2. \A i \in Imports : Tracked(i) => Tracked(i)'
        BY <2>1 DEF Tracked, ImportPending
    <2> QED
        BY <1>2, <2>1, <2>2
<1>7. ASSUME NEW o \in Operators, Restart(o) PROVE ImportInv'
    BY <1>7, RestartImportInv
<1>8. ASSUME NEW n \in Names, CollectGarbage(n) PROVE ImportInv'
    <2>1. /\ UNCHANGED <<wl, seen, notes, pc, down, missed, changes>>
          /\ app' = [app EXCEPT ![n] = None]
          /\ wl[app[n].w].uid # app[n].uid
        BY <1>8 DEF CollectGarbage
    <2>2. ASSUME NEW i \in Imports, i.uid = wl[i.w].uid, Tracked(i) PROVE Tracked(i)'
        <3>1. app[i.name] = i => app'[i.name] = i
            BY <1>0, <2>1, <2>2 DEF TypeOK, Imports
        <3>2. ImportPending(i) => ImportPending(i)'
            BY <2>1 DEF ImportPending
        <3> QED
            BY <2>1, <2>2, <3>1, <3>2 DEF Tracked
    <2> QED
        BY <1>2, <2>1, <2>2
<1>9. CASE UNCHANGED vars
    <2>1. UNCHANGED <<wl, app, seen, notes, pc, down, missed, changes>>
        BY <1>9 DEF vars
    <2>2. \A i \in Imports : Tracked(i) => Tracked(i)'
        BY <2>1 DEF Tracked, ImportPending
    <2> QED
        BY <1>2, <2>1, <2>2
<1> QED
    BY <1>1, <1>3, <1>4, <1>5, <1>6, <1>7, <1>8, <1>9 DEF Next

(* No import is lost silently (onAdd, onDelete, ManageSyntheticCamelApps): *)
(* for every set of workloads, names and replicas, every labelled workload *)
(* has its CamelApp, is about to get it, or a handler gave it up.          *)
THEOREM NoImportLost == Spec => []ImportTracked
<1> QED
    BY InitImportInv, NextImportInv, ImportInvTracks, PTL DEF Spec

-----------------------------------------------------------------------------
(* Removals are tracked.                                                   *)

Adds(e, i) == e.type = "add" /\ e.import = i

Removes(e, i) == e.type # "add" /\ e.import = i

(* Every add of i in a queue is followed by a removal of i.                *)
Covered(s, i) ==
    \A j \in DOMAIN s : Adds(s[j], i) => \E k \in DOMAIN s : k > j /\ Removes(s[k], i)

(* A queue stays covered when its head is taken, and when the head is an   *)
(* add its removal is still there.                                         *)
LEMMA CoveredTail ==
    ASSUME NEW s \in Seq(Events), s # <<>>, NEW i, Covered(s, i)
    PROVE  /\ Covered(Tail(s), i)
           /\ Adds(Head(s), i) => \E e \in ToSet(Tail(s)) : Removes(e, i)
<1>1. /\ Tail(s) \in Seq(Events) /\ Len(Tail(s)) = Len(s) - 1
      /\ \A j \in 1 .. Len(Tail(s)) : Tail(s)[j] = s[j + 1]
    BY HeadTailProperties
<1>2. /\ Len(s) \in Nat /\ Len(s) # 0 /\ DOMAIN s = 1 .. Len(s)
      /\ DOMAIN Tail(s) = 1 .. Len(s) - 1 /\ Head(s) = s[1]
    BY <1>1, LenProperties, EmptySeq
<1>3. ASSUME NEW j \in 1 .. Len(s), Adds(s[j], i)
      PROVE  \E k \in DOMAIN Tail(s) : k > j - 1 /\ Removes(Tail(s)[k], i)
    <2>1. PICK k \in 1 .. Len(s) : k > j /\ Removes(s[k], i)
        BY <1>2, <1>3 DEF Covered
    <2>2. k - 1 \in DOMAIN Tail(s) /\ Tail(s)[k - 1] = s[k] /\ k - 1 > j - 1
        BY <1>1, <1>2, <2>1
    <2> QED
        BY <2>1, <2>2
<1>4. Covered(Tail(s), i)
    <2> SUFFICES ASSUME NEW j \in DOMAIN Tail(s), Adds(Tail(s)[j], i)
                 PROVE  \E k \in DOMAIN Tail(s) : k > j /\ Removes(Tail(s)[k], i)
        BY DEF Covered
    <2>1. j + 1 \in 1 .. Len(s) /\ Adds(s[j + 1], i) /\ (j + 1) - 1 = j
        BY <1>1, <1>2
    <2> QED
        BY <1>3, <2>1
<1>5. Adds(Head(s), i) => \E e \in ToSet(Tail(s)) : Removes(e, i)
    <2> SUFFICES ASSUME Adds(s[1], i) PROVE \E e \in ToSet(Tail(s)) : Removes(e, i)
        BY <1>2
    <2>1. 1 \in 1 .. Len(s)
        BY <1>2
    <2>2. PICK k \in DOMAIN Tail(s) : Removes(Tail(s)[k], i)
        BY <1>3, <2>1
    <2> QED
        BY <2>2 DEF ToSet
<1> QED
    BY <1>4, <1>5

(* A queue is covered when what is appended adds nothing, and either it    *)
(* was covered before or the removal is appended.                          *)
LEMMA CoveredAppend ==
    ASSUME NEW s \in Seq(Events), NEW t \in Seq(Events), NEW i,
           \A e \in ToSet(t) : ~Adds(e, i),
           Covered(s, i) \/ \E e \in ToSet(t) : Removes(e, i)
    PROVE  Covered(s \o t, i)
<1>1. /\ Len(s \o t) = Len(s) + Len(t)
      /\ \A j \in 1 .. Len(s) + Len(t) :
            (s \o t)[j] = IF j <= Len(s) THEN s[j] ELSE t[j - Len(s)]
      /\ s \o t \in Seq(Events)
    BY ConcatProperties
<1>2. /\ Len(s) \in Nat /\ DOMAIN s = 1 .. Len(s)
      /\ Len(t) \in Nat /\ DOMAIN t = 1 .. Len(t)
      /\ DOMAIN (s \o t) = 1 .. Len(s) + Len(t)
    BY <1>1, LenProperties
<1> SUFFICES ASSUME NEW j \in 1 .. Len(s) + Len(t), Adds((s \o t)[j], i)
             PROVE  \E k \in 1 .. Len(s) + Len(t) : k > j /\ Removes((s \o t)[k], i)
    BY <1>2 DEF Covered
<1>3. j <= Len(s)
    <2> SUFFICES ASSUME j > Len(s) PROVE FALSE
        BY <1>2
    <2>1. j - Len(s) \in DOMAIN t /\ (s \o t)[j] = t[j - Len(s)]
        BY <1>1, <1>2
    <2>2. t[j - Len(s)] \in ToSet(t)
        BY <2>1 DEF ToSet
    <2> QED
        BY <2>1, <2>2
<1>4. j \in DOMAIN s /\ Adds(s[j], i)
    BY <1>1, <1>2, <1>3
<1>5. CASE Covered(s, i)
    <2>1. PICK k \in DOMAIN s : k > j /\ Removes(s[k], i)
        BY <1>4, <1>5 DEF Covered
    <2>2. k \in 1 .. Len(s) + Len(t) /\ (s \o t)[k] = s[k]
        BY <1>1, <1>2, <2>1
    <2> QED
        BY <2>1, <2>2
<1>6. CASE \E e \in ToSet(t) : Removes(e, i)
    <2>1. PICK m \in DOMAIN t : Removes(t[m], i)
        BY <1>6 DEF ToSet
    <2>2. Len(s) + m \in 1 .. Len(s) + Len(t) /\ Len(s) + m > j /\ (s \o t)[Len(s) + m] = t[m]
        BY <1>1, <1>2, <1>3, <2>1
    <2> QED
        BY <2>1, <2>2
<1> QED
    BY <1>5, <1>6

(* UIDs of imports have been handed out, and a handler is called for the   *)
(* workloads of its kind.                                                  *)
Used(i) == 0 < i.uid /\ i.uid <= changes

Familiar ==
    /\ \A n \in Names : app[n] # None => Used(app[n])
    /\ \A h \in Handlers :
        /\ pc[h] # None => Used(pc[h]) /\ KindOf[pc[h].w] = h[2]
        /\ \A e \in ToSet(notes[h]) : Used(e.import) /\ KindOf[e.import.w] = h[2]

(* An import needs no removal as long as a replica sees its label, nor     *)
(* when its workload is gone or its removal is known to be lost.           *)
Gone(i) == wl[i.w].uid # i.uid

Sees(o, i) == seen[o][i.w] = [uid |-> i.uid, label |-> i.name]

Excused(o, i) == Gone(i) \/ i \in leaked \/ Sees(o, i)

(* What a handler is about to create, or will be, is excused or followed   *)
(* by its removal in the handler's own queue.                              *)
Followed ==
    \A h \in Handlers, i \in Imports :
        /\ Excused(h[1], i) \/ Covered(notes[h], i)
        /\ pc[h] = i => Excused(h[1], i) \/ \E e \in ToSet(notes[h]) : Removes(e, i)

(* What was created is excused, or some handler has its removal.           *)
Ended ==
    \A n \in Names : app[n] # None =>
        RemovalPending(app[n]) \/ \E o \in Operators : Excused(o, app[n])

RemovalInv == ImportInv /\ Familiar /\ Followed /\ Ended

(* The strengthening implies RemovalTracked: no CamelApp outlives its      *)
(* label silently, since a replica that still sees the label has to be     *)
(* told.                                                                   *)
LEMMA RemovalInvTracks == RemovalInv => RemovalTracked
<1> SUFFICES ASSUME RemovalInv, NEW n \in Names, app[n] # None, ~Labelled(app[n]),
                    ~Gone(app[n]), app[n] \notin leaked, ~RemovalPending(app[n])
             PROVE  Unheard(app[n].w)
    BY DEF RemovalTracked, Gone
<1>1. PICK o \in Operators : Sees(o, app[n])
    BY DEF RemovalInv, Ended, Excused
<1> QED
    BY <1>1 DEF Sees, Labelled, Unheard

(* It holds initially: there is no event and no CamelApp.                  *)
LEMMA InitRemovalInv == Init => RemovalInv
<1> SUFFICES ASSUME Init PROVE RemovalInv
    OBVIOUS
<1>1. ImportInv
    BY InitImportInv
<1>2. \A h \in Handlers : notes[h] = <<>> /\ pc[h] = None
    BY DEF Init
<1>3. ToSet(<<>>) = {} /\ \A i : Covered(<<>>, i)
    BY DEF ToSet, Covered
<1>4. \A i \in Imports : i # None
    BY NoneAssumption DEF Imports
<1>5. Familiar /\ Ended
    BY <1>2, <1>3 DEF Familiar, Ended, Init
<1>6. Followed
    BY <1>2, <1>3, <1>4 DEF Followed
<1> QED
    BY <1>1, <1>5, <1>6 DEF RemovalInv

(* UIDs that have been handed out stay so, and a workload that is gone     *)
(* does not come back.                                                     *)
LEMMA GoneForGood ==
    ASSUME TypeOK, changes' \in Nat, changes <= changes',
           \A w \in Workloads : wl'[w].uid \in {wl[w].uid, changes + 1, 0},
           NEW i \in Imports, Used(i)
    PROVE  Used(i)' /\ (Gone(i) => Gone(i)')
<1>1. i.uid \in Nat /\ i.w \in Workloads /\ wl[i.w].uid \in Nat /\ changes \in Nat
    BY DEF Imports, TypeOK, WorkloadState
<1> QED
    BY <1>1 DEF Used, Gone

(* Steps that only append to the queues preserve the strengthening, when   *)
(* what they append and what they show the informers fit together.         *)
LEMMA GrowRemovalInv ==
    ASSUME RemovalInv, changes' \in Nat, changes <= changes', UNCHANGED <<app, pc>>,
           \A w \in Workloads : wl'[w].uid \in {wl[w].uid, changes + 1, 0},
           NEW T \in [Handlers -> Seq(Events)],
           \A h \in Handlers : notes'[h] = notes[h] \o T[h],
           \A h \in Handlers : \A e \in ToSet(T[h]) :
                Used(e.import)' /\ KindOf[e.import.w] = h[2],
           \A o \in Operators, i \in Imports : i \in leaked => i \in leaked' \/ Sees(o, i)',
           \A h \in Handlers, i \in Imports : KindOf[i.w] = h[2] =>
                /\ Sees(h[1], i) => \/ Sees(h[1], i)' \/ i \in leaked'
                                    \/ \E e \in ToSet(T[h]) : Removes(e, i)
                /\ \A e \in ToSet(T[h]) : Adds(e, i) => Sees(h[1], i)'
    PROVE  Familiar' /\ Followed' /\ Ended'
<1>0. TypeOK /\ Familiar /\ Followed /\ Ended
    BY DEF RemovalInv, ImportInv
<1>1. \A h \in Handlers :
        /\ notes[h] \in Seq(Events) /\ T[h] \in Seq(Events)
        /\ ToSet(notes'[h]) = ToSet(notes[h]) \union ToSet(T[h])
        /\ h[1] \in Operators
    <2> TAKE h \in Handlers
    <2>1. notes[h] \in Seq(Events) /\ T[h] \in Seq(Events) /\ notes'[h] = notes[h] \o T[h]
        BY <1>0 DEF TypeOK
    <2>2. h[1] \in Operators
        BY DEF Handlers
    <2> QED
        BY <2>1, <2>2, AppendSet
<1>2. \A i \in Imports : Used(i) => Used(i)' /\ (Gone(i) => Gone(i)')
    BY <1>0, GoneForGood
<1>3. \A h \in Handlers, i \in Imports :
        Used(i) /\ KindOf[i.w] = h[2] /\ Excused(h[1], i)
            => Excused(h[1], i)' \/ \E e \in ToSet(T[h]) : Removes(e, i)
    BY <1>1, <1>2 DEF Excused
<1>4. \A h \in Handlers : \A e \in ToSet(notes[h]) : e.import \in Imports
    <2> TAKE h \in Handlers
    <2> TAKE e \in ToSet(notes[h])
    <2>1. PICK j \in 1 .. Len(notes[h]) : e = notes[h][j]
        BY <1>1, LenProperties DEF ToSet
    <2>2. e \in Events
        BY <1>1, <2>1, ElementOfSeq
    <2> QED
        BY <2>2 DEF Events
<1>5. Familiar'
    <2> DEFINE used(i) == 0 < i.uid /\ i.uid <= changes'
    <2>0. \A i \in Imports : Used(i) => used(i)
        BY <1>2 DEF Used
    <2>1. \A n \in Names : app[n] # None => used(app[n])
        BY <1>0, <2>0 DEF Familiar, TypeOK
    <2>2. \A h \in Handlers : pc[h] # None => used(pc[h]) /\ KindOf[pc[h].w] = h[2]
        BY <1>0, <2>0 DEF Familiar, TypeOK
    <2>3. \A h \in Handlers : \A e \in ToSet(notes'[h]) : used(e.import) /\ KindOf[e.import.w] = h[2]
        BY <1>0, <1>1, <1>4, <2>0 DEF Familiar, Used
    <2> QED
        BY <2>1, <2>2, <2>3 DEF Familiar, Used
<1>6. ASSUME NEW h \in Handlers, NEW i \in Imports
      PROVE  Excused(h[1], i)' \/ Covered(notes'[h], i)
    <2>1. CASE \E e \in ToSet(T[h]) : Adds(e, i)
        <3>1. KindOf[i.w] = h[2]
            BY <2>1 DEF Adds
        <3> QED
            BY <2>1, <3>1 DEF Excused
    <2>2. CASE (\A e \in ToSet(T[h]) : ~Adds(e, i))
                /\ (Covered(notes[h], i) \/ \E e \in ToSet(T[h]) : Removes(e, i))
        <3>1. notes[h] \in Seq(Events) /\ T[h] \in Seq(Events) /\ notes'[h] = notes[h] \o T[h]
            BY <1>1
        <3>2. Covered(notes[h] \o T[h], i)
            BY <2>2, <3>1, CoveredAppend
        <3> QED
            BY <3>1, <3>2
    <2>3. CASE ~Covered(notes[h], i)
        <3>1. Excused(h[1], i)
            BY <1>0, <2>3 DEF Followed
        <3>2. PICK j \in DOMAIN notes[h] : Adds(notes[h][j], i)
            BY <2>3 DEF Covered
        <3>3. notes[h][j] \in ToSet(notes[h])
            BY <3>2 DEF ToSet
        <3>4. Used(i) /\ KindOf[i.w] = h[2]
            BY <1>0, <3>2, <3>3 DEF Familiar, Adds
        <3>5. Excused(h[1], i)' \/ \E e \in ToSet(T[h]) : Removes(e, i)
            BY <1>3, <3>1, <3>4
        <3> QED
            BY <2>1, <2>2, <3>5
    <2> QED
        BY <2>1, <2>2, <2>3
<1>7. ASSUME NEW h \in Handlers, NEW i \in Imports, pc'[h] = i
      PROVE  Excused(h[1], i)' \/ \E e \in ToSet(notes'[h]) : Removes(e, i)
    <2>1. pc[h] = i /\ pc[h] # None
        BY <1>7, NoneAssumption DEF Imports
    <2>2. Used(i) /\ KindOf[i.w] = h[2]
        BY <1>0, <2>1 DEF Familiar
    <2>3. Excused(h[1], i) \/ \E e \in ToSet(notes[h]) : Removes(e, i)
        BY <1>0, <2>1 DEF Followed
    <2> QED
        BY <1>1, <1>3, <2>2, <2>3
<1>8. Followed'
    BY <1>6, <1>7 DEF Followed
<1>9. Ended'
    <2> SUFFICES ASSUME NEW n \in Names, NEW i, i = app[n], i # None
                 PROVE  RemovalPending(i)' \/ \E o \in Operators : Excused(o, i)'
        BY DEF Ended
    <2>1. i \in Imports /\ Used(i) /\ KindOf[i.w] \in Kinds
        BY <1>0, KindAssumption DEF TypeOK, Familiar, Imports
    <2>2. RemovalPending(i) => RemovalPending(i)'
        BY <1>1 DEF RemovalPending
    <2>3. ASSUME NEW o \in Operators, Excused(o, i)
          PROVE  RemovalPending(i)' \/ Excused(o, i)'
        <3> DEFINE h == <<o, KindOf[i.w]>>
        <3>1. h \in Handlers /\ h[1] = o /\ h[2] = KindOf[i.w]
            BY <2>1 DEF Handlers
        <3> HIDE DEF h
        <3>2. Excused(o, i)' \/ \E e \in ToSet(T[h]) : Removes(e, i)
            BY <1>3, <2>1, <2>3, <3>1
        <3> QED
            BY <1>1, <3>1, <3>2 DEF RemovalPending, Removes
    <2> QED
        BY <1>0, <2>2, <2>3 DEF Ended
<1> QED
    BY <1>5, <1>8, <1>9

(* A state and the import it gives determine each other.                   *)
LEMMA StateOfImport ==
    ASSUME NEW state \in WorkloadState, NEW i \in Imports
    PROVE  state = [uid |-> i.uid, label |-> i.name] <=> ImportOf(i.w, state) = i
<1>1. state = [uid |-> state.uid, label |-> state.label]
    BY DEF WorkloadState
<1>2. i = [w |-> i.w, uid |-> i.uid, name |-> i.name]
    BY DEF Imports
<1> QED
    BY <1>1, <1>2 DEF ImportOf

(* The import of a known and selected state has a UID that was handed out. *)
LEMMA KnownUsed ==
    ASSUME TypeOK, NEW w \in Workloads, NEW state \in WorkloadState,
           Known(state), Selected(state)
    PROVE  Used(ImportOf(w, state))
BY DEF TypeOK, WorkloadState, Known, Selected, Used, ImportOf

(* What an informer passes on is the one event of a crossing.              *)
LEMMA PassedElements ==
    ASSUME NEW w \in Workloads, NEW old \in WorkloadState, NEW new \in WorkloadState,
           NEW removal \in {"delete", "tombstone"},
           NEW e \in ToSet(Passed(w, old, new, removal))
    PROVE  e = Moved(w, old, new, removal) /\ Selected(new) # Selected(old)
<1>1. Selected(new) # Selected(old)
    <2> SUFFICES ASSUME Selected(new) = Selected(old) PROVE FALSE
        OBVIOUS
    <2>1. Passed(w, old, new, removal) = <<>>
        BY PassedType
    <2> QED
        BY <2>1 DEF ToSet
<1>2. Passed(w, old, new, removal) = <<Moved(w, old, new, removal)>>
    BY <1>1, PassedType
<1>3. e = Moved(w, old, new, removal)
    BY <1>2 DEF ToSet
<1> QED
    BY <1>1, <1>3

(* A change of a workload preserves the strengthening.                     *)
LEMMA WriteRemovalInv ==
    ASSUME RemovalInv, ImportInv', NEW w \in Workloads, NEW new \in WorkloadState,
           Write(w, new), new.uid \in {wl[w].uid, changes + 1, 0}
    PROVE  RemovalInv'
<1> DEFINE hears(h) == h \notin down /\ h[2] = KindOf[w]
           P(h) == Passed(w, seen[h[1]][w], new, "delete")
           T == [h \in Handlers |-> IF hears(h) THEN P(h) ELSE <<>>]
           hearing == {o \in Operators : <<o, KindOf[w]>> \notin down}
<1>0. /\ TypeOK /\ UpToDate /\ KnownStates /\ Familiar /\ Followed /\ Ended
      /\ TypeOK' /\ KnownStates' /\ changes \in Nat
    BY DEF RemovalInv, ImportInv, TypeOK
<1>1. /\ wl' = [wl EXCEPT ![w] = new]
      /\ changes' = changes + 1
      /\ UNCHANGED <<app, pc, down>>
      /\ seen' = [o \in Operators |->
                IF o \in hearing THEN [seen[o] EXCEPT ![w] = new] ELSE seen[o]]
    BY DEF Write
<1>2. \A h \in Handlers : h[1] \in Operators /\ (hears(h) => h[1] \in hearing)
                            /\ (h[1] \in hearing /\ h[2] = KindOf[w] => hears(h))
    BY DEF Handlers
<1>3. \A v \in Workloads :
        /\ wl'[v] = IF v = w THEN new ELSE wl[v]
        /\ \A o \in Operators :
            seen'[o][v] = IF v = w /\ o \in hearing THEN new ELSE seen[o][v]
    BY <1>0, <1>1 DEF TypeOK
<1>4. T \in [Handlers -> Seq(Events)]
    <2>1. \A h \in Handlers : P(h) \in Seq(Events)
        <3> TAKE h \in Handlers
        <3>1. seen[h[1]][w] \in WorkloadState
            BY <1>0, <1>2 DEF TypeOK
        <3> QED
            BY <3>1, PassedType
    <2>2. <<>> \in Seq(Events)
        BY EmptySeq
    <2> HIDE DEF P, hears
    <2> QED
        BY <2>1, <2>2
<1>5. \A h \in Handlers : notes'[h] = notes[h] \o T[h]
    <2> TAKE h \in Handlers
    <2>1. notes[h] \in Seq(Events)
        BY <1>0 DEF TypeOK
    <2>2. CASE hears(h)
        BY <1>2, <2>2 DEF Write
    <2>3. CASE ~hears(h)
        <3>1. notes'[h] = notes[h] /\ T[h] = <<>>
            BY <1>2, <2>3 DEF Write
        <3> QED
            BY <2>1, <3>1, ConcatEmptySeq
    <2> QED
        BY <2>2, <2>3
<1>6. ASSUME NEW h \in Handlers, NEW e \in ToSet(T[h])
      PROVE  /\ hears(h) /\ seen[h[1]][w] = wl[w]
             /\ e = Moved(w, wl[w], new, "delete")
             /\ Selected(new) # Selected(wl[w])
    <2>1. hears(h)
        <3> SUFFICES ASSUME ~hears(h) PROVE FALSE
            OBVIOUS
        <3>1. T[h] = <<>>
            OBVIOUS
        <3> QED
            BY <1>6, <3>1 DEF ToSet
    <2>2. seen[h[1]][w] = wl[w] /\ wl[w] \in WorkloadState
        BY <1>0, <1>2, <2>1 DEF UpToDate, TypeOK
    <2>3. e \in ToSet(Passed(w, wl[w], new, "delete"))
        BY <1>6, <2>1, <2>2
    <2> QED
        BY <2>1, <2>2, <2>3, PassedElements
<1>7. \A h \in Handlers : \A e \in ToSet(T[h]) : Used(e.import)' /\ KindOf[e.import.w] = h[2]
    <2> SUFFICES ASSUME NEW h \in Handlers, NEW e \in ToSet(T[h])
                 PROVE  Used(e.import)' /\ KindOf[e.import.w] = h[2]
        OBVIOUS
    <2>1. hears(h) /\ e = Moved(w, wl[w], new, "delete") /\ Selected(new) # Selected(wl[w])
        BY <1>6
    <2>2. CASE Selected(new)
        <3>1. e.import = ImportOf(w, new)
            BY <2>1, <2>2 DEF Moved
        <3>2. Known(new)'
            BY <1>0, <1>3 DEF KnownStates, Known
        <3>3. 0 < new.uid /\ new.uid <= changes'
            BY <2>2, <3>2 DEF Known, Selected, WorkloadState
        <3> QED
            BY <2>1, <3>1, <3>3 DEF Used, ImportOf
    <2>3. CASE ~Selected(new)
        <3>1. e.import = ImportOf(w, wl[w]) /\ Selected(wl[w])
            BY <2>1, <2>3 DEF Moved, Selected
        <3>2. Used(ImportOf(w, wl[w]))
            BY <1>0, <3>1, KnownUsed DEF KnownStates, TypeOK
        <3>3. e.import.uid \in Nat /\ e.import.w = w
            BY <1>0, <3>1 DEF ImportOf, TypeOK, WorkloadState
        <3> QED
            BY <1>0, <1>1, <2>1, <3>1, <3>2, <3>3 DEF Used
    <2> QED
        BY <2>2, <2>3
<1>8. \A o \in Operators, i \in Imports : i \in leaked => i \in leaked' \/ Sees(o, i)'
    <2> SUFFICES ASSUME NEW o \in Operators, NEW i \in Imports, i \in leaked, i \notin leaked'
                 PROVE  Sees(o, i)'
        OBVIOUS
    <2>1. hearing = Operators /\ i = ImportOf(w, new)
        BY DEF Write
    <2>2. i.w = w /\ i.uid = new.uid /\ i.name = new.label
        BY <2>1 DEF ImportOf
    <2>3. seen'[o][w] = new
        BY <1>3, <2>1
    <2> QED
        BY <2>1, <2>2, <2>3, StateOfImport DEF Sees
<1>9. ASSUME NEW h \in Handlers, NEW i \in Imports, KindOf[i.w] = h[2], Sees(h[1], i)
      PROVE  Sees(h[1], i)' \/ i \in leaked' \/ \E e \in ToSet(T[h]) : Removes(e, i)
    <2>0. i.w \in Workloads
        BY DEF Imports
    <2>1. CASE i.w # w \/ h[1] \notin hearing
        BY <1>2, <1>3, <1>9, <2>0, <2>1 DEF Sees
    <2>2. CASE i.w = w /\ h[1] \in hearing
        <3>1. hears(h)
            BY <1>2, <1>9, <2>2
        <3>2. seen[h[1]][w] = wl[w] /\ wl[w] \in WorkloadState
            BY <1>0, <1>2, <2>2 DEF UpToDate, TypeOK
        <3>3. ImportOf(w, wl[w]) = i /\ Selected(wl[w])
            BY <1>9, <2>2, <3>2, StateOfImport, NoneAssumption DEF Sees, Selected, Imports
        <3>4. CASE Selected(new) /\ new = wl[w]
            BY <1>2, <1>3, <1>9, <2>2, <3>2, <3>4 DEF Sees
        <3>5. CASE Selected(new) /\ new # wl[w]
            BY <2>2, <3>3, <3>5 DEF Write, Dropped
        <3>6. CASE ~Selected(new)
            <4> DEFINE d == [type |-> "delete", import |-> ImportOf(w, wl[w])]
            <4>1. P(h) = <<d>>
                BY <3>2, <3>3, <3>6, Zenon DEF Passed
            <4>2. T[h] = <<d>>
                BY <3>1, <4>1
            <4>3. d \in ToSet(T[h]) /\ Removes(d, i)
                BY <3>3, <4>2 DEF ToSet, Removes
            <4> QED
                BY <4>3
        <3> QED
            BY <3>4, <3>5, <3>6
    <2> QED
        BY <2>1, <2>2
<1>10. ASSUME NEW h \in Handlers, NEW i \in Imports, NEW e \in ToSet(T[h]), Adds(e, i)
       PROVE  Sees(h[1], i)'
    <2>1. hears(h) /\ e = Moved(w, wl[w], new, "delete")
        BY <1>6
    <2>2. e.import = ImportOf(w, new)
        BY <1>10, <2>1 DEF Adds, Moved
    <2>3. i = ImportOf(w, new) /\ i.w = w
        BY <1>10, <2>2 DEF Adds, ImportOf
    <2>4. seen'[h[1]][w] = new
        BY <1>2, <1>3, <2>1
    <2> QED
        BY <2>3, <2>4, StateOfImport DEF Sees
<1>11. \A v \in Workloads : wl'[v].uid \in {wl[v].uid, changes + 1, 0}
    BY <1>3
<1>12. changes' \in Nat /\ changes <= changes'
    BY <1>0, <1>1
<1> HIDE DEF T, hears, P, hearing
<1>13. Familiar' /\ Followed' /\ Ended'
    BY <1>1, <1>4, <1>5, <1>7, <1>8, <1>9, <1>10, <1>11, <1>12, GrowRemovalInv
<1> QED
    BY <1>13 DEF RemovalInv

(* A list after a gap preserves it: a label the list does not show any     *)
(* more is a tombstone in the queue or a dropped update.                   *)
LEMMA RelistRemovalInv ==
    ASSUME RemovalInv, ImportInv', NEW h \in Handlers, Relist(h) PROVE RemovalInv'
<1> DEFINE o == h[1]
           stale == {w \in OfKind(h[2]) : seen[o][w] # wl[w]}
<1>0. TypeOK /\ KnownStates
    BY DEF RemovalInv, ImportInv
<1>1. /\ UNCHANGED <<wl, app, pc, changes>>
      /\ seen' = [seen EXCEPT ![o] = [w \in Workloads |->
                IF w \in stale THEN wl[w] ELSE seen[o][w]]]
      /\ leaked' = leaked \union
            {ImportOf(w, seen[o][w]) : w \in {v \in stale : Dropped(seen[o][v], wl[v])}}
    BY DEF Relist
<1>2. o \in Operators /\ \A g \in Handlers : g[1] = o /\ g[2] = h[2] => g = h
    BY DEF Handlers
<1>3. /\ \A w \in Workloads : seen'[o][w] = IF w \in stale THEN wl[w] ELSE seen[o][w]
      /\ \A q \in Operators \ {o} : seen'[q] = seen[q]
    BY <1>0, <1>1, <1>2 DEF TypeOK
<1>4. PICK t \in Seq(Events) :
        /\ notes' = [notes EXCEPT ![h] = @ \o t]
        /\ ToSet(t) = {Found(o, w) : w \in Crossed(o, h[2])}
    BY <1>0, RelistNotes
<1> DEFINE T == [g \in Handlers |-> IF g = h THEN t ELSE <<>>]
<1>5. T \in [Handlers -> Seq(Events)]
    BY EmptySeq
<1>6. \A g \in Handlers : notes'[g] = notes[g] \o T[g]
    <2> TAKE g \in Handlers
    <2>1. notes[g] \in Seq(Events) /\ notes \in [Handlers -> Seq(Events)]
        BY <1>0 DEF TypeOK
    <2>2. CASE g = h
        BY <1>4, <2>1, <2>2
    <2>3. CASE g # h
        <3>1. notes'[g] = notes[g] /\ T[g] = <<>>
            BY <1>4, <2>1, <2>3
        <3> QED
            BY <2>1, <3>1, ConcatEmptySeq
    <2> QED
        BY <2>2, <2>3
<1>7. ASSUME NEW g \in Handlers, NEW e \in ToSet(T[g])
      PROVE  g = h /\ \E w \in Crossed(o, h[2]) : e = Found(o, w)
    <2>1. g = h
        <3> SUFFICES ASSUME g # h PROVE FALSE
            OBVIOUS
        <3>1. T[g] = <<>>
            OBVIOUS
        <3> QED
            BY <1>7, <3>1 DEF ToSet
    <2> QED
        BY <1>4, <1>7, <2>1
<1>8. \A w \in Crossed(o, h[2]) :
        /\ w \in Workloads /\ w \in stale /\ KindOf[w] = h[2]
        /\ seen[o][w] \in WorkloadState /\ wl[w] \in WorkloadState
        /\ Known(seen[o][w]) /\ Known(wl[w])
        /\ Selected(seen[o][w]) # Selected(wl[w])
    BY <1>0, <1>2 DEF Crossed, OfKind, TypeOK, KnownStates
<1>9. \A g \in Handlers : \A e \in ToSet(T[g]) : Used(e.import)' /\ KindOf[e.import.w] = g[2]
    <2> SUFFICES ASSUME NEW g \in Handlers, NEW e \in ToSet(T[g])
                 PROVE  Used(e.import)' /\ KindOf[e.import.w] = g[2]
        OBVIOUS
    <2>1. PICK w \in Crossed(o, h[2]) : e = Found(o, w)
        BY <1>7
    <2>2. Used(e.import) /\ e.import.w = w
        <3>1. CASE Selected(wl[w])
            <4>1. e.import = ImportOf(w, wl[w])
                BY <2>1, <3>1 DEF Found, Moved
            <4> QED
                BY <1>0, <1>8, <3>1, <4>1, KnownUsed DEF ImportOf
        <3>2. CASE ~Selected(wl[w])
            <4>1. e.import = ImportOf(w, seen[o][w]) /\ Selected(seen[o][w])
                BY <1>8, <2>1, <3>2 DEF Found, Moved, Selected
            <4> QED
                BY <1>0, <1>8, <4>1, KnownUsed DEF ImportOf
        <3> QED
            BY <3>1, <3>2
    <2> QED
        BY <1>1, <1>7, <1>8, <2>2 DEF Used
<1>10. \A q \in Operators, i \in Imports : i \in leaked => i \in leaked' \/ Sees(q, i)'
    BY <1>1
<1>11. ASSUME NEW g \in Handlers, NEW i \in Imports, KindOf[i.w] = g[2], Sees(g[1], i)
       PROVE  Sees(g[1], i)' \/ i \in leaked' \/ \E e \in ToSet(T[g]) : Removes(e, i)
    <2>0. i.w \in Workloads /\ g[1] \in Operators
        BY DEF Imports, Handlers
    <2>1. CASE g[1] # o \/ i.w \notin stale
        BY <1>3, <1>11, <2>0, <2>1 DEF Sees
    <2>2. CASE g[1] = o /\ i.w \in stale
        <3>0. i.w \in OfKind(h[2]) /\ seen[o][i.w] # wl[i.w] /\ KindOf[i.w] = h[2]
            BY <2>2 DEF OfKind
        <3>1. g = h /\ i.w \in OfKind(h[2]) /\ seen[o][i.w] # wl[i.w]
            <4> HIDE DEF o
            <4> QED
                BY <1>2, <1>11, <2>2, <3>0
        <3>2. seen[o][i.w] \in WorkloadState
            BY <1>0, <1>2, <2>0 DEF TypeOK
        <3>3. ImportOf(i.w, seen[o][i.w]) = i /\ Selected(seen[o][i.w])
            BY <1>11, <2>2, <3>2, StateOfImport, NoneAssumption DEF Sees, Selected, Imports
        <3>4. CASE Selected(wl[i.w])
            <4>1. i \in leaked'
                BY <1>1, <2>2, <3>1, <3>3, <3>4 DEF Dropped
            <4> QED
                BY <4>1
        <3>5. CASE ~Selected(wl[i.w])
            <4>1. i.w \in Crossed(o, h[2])
                BY <3>1, <3>3, <3>5 DEF Crossed
            <4>2. Found(o, i.w) \in ToSet(T[g])
                BY <1>4, <3>1, <4>1
            <4>3. Removes(Found(o, i.w), i)
                BY <3>3, <3>5 DEF Found, Moved, Removes
            <4> QED
                BY <4>2, <4>3
        <3> QED
            BY <3>4, <3>5
    <2> QED
        BY <2>1, <2>2
<1>12. ASSUME NEW g \in Handlers, NEW i \in Imports, NEW e \in ToSet(T[g]), Adds(e, i)
       PROVE  Sees(g[1], i)'
    <2>1. g = h
        BY <1>7
    <2>2. PICK w \in Crossed(o, h[2]) : e = Found(o, w)
        BY <1>7
    <2>3. e.import = ImportOf(w, wl[w])
        BY <1>12, <2>2 DEF Adds, Found, Moved
    <2>4. i = ImportOf(w, wl[w]) /\ i.w = w
        BY <1>12, <2>3 DEF Adds, ImportOf
    <2>5. seen'[o][w] = wl[w] /\ wl[w] \in WorkloadState
        BY <1>3, <1>8
    <2> QED
        BY <2>1, <2>4, <2>5, StateOfImport DEF Sees
<1>13. \A v \in Workloads : wl'[v].uid \in {wl[v].uid, changes + 1, 0}
    BY <1>1
<1>14. changes' \in Nat /\ changes <= changes'
    BY <1>0, <1>1 DEF TypeOK
<1> HIDE DEF T, stale, o
<1>15. Familiar' /\ Followed' /\ Ended'
    BY <1>1, <1>5, <1>6, <1>9, <1>10, <1>11, <1>12, <1>13, <1>14, GrowRemovalInv
<1> QED
    BY <1>15 DEF RemovalInv

(* A step that takes the head off a queue preserves it, when a removal at  *)
(* the head ends the CamelApp or is known to be lost.                      *)
LEMMA TakeRemovalInv ==
    ASSUME RemovalInv, NEW h \in Handlers, NEW type, Take(h, type),
           UNCHANGED <<wl, seen, changes>>, leaked \subseteq leaked',
           \A g \in Handlers : \/ pc'[g] = pc[g]
                               \/ g = h /\ type = "add" /\ pc'[g] = Head(notes[h]).import,
           \A n \in Names : app'[n] \in {app[n], None},
           \A n \in Names : app'[n] # None /\ app'[n] = Head(notes[h]).import =>
                type = "add" \/ app'[n] \in leaked'
    PROVE  Familiar' /\ Followed' /\ Ended'
<1> DEFINE e0 == Head(notes[h])
<1>0. TypeOK /\ Familiar /\ Followed /\ Ended
    BY DEF RemovalInv, ImportInv
<1>1. /\ e0.type = type /\ e0.import \in Imports /\ pc[h] = None
      /\ \A g \in Handlers \ {h} : notes'[g] = notes[g]
      /\ ToSet(notes[h]) = {e0} \union ToSet(notes'[h])
    BY <1>0, TakeNotes
<1>2. notes[h] \in Seq(Events) /\ notes[h] # <<>> /\ notes'[h] = Tail(notes[h])
    BY <1>0 DEF TypeOK, Take
<1>3. \A g \in Handlers : ToSet(notes'[g]) \subseteq ToSet(notes[g])
    BY <1>1
<1>4. \A o \in Operators, i \in Imports : Excused(o, i) => Excused(o, i)'
    BY DEF Excused, Gone, Sees
<1> HIDE DEF e0
<1>5. Familiar'
    <2>1. \A n \in Names : app'[n] # None => Used(app'[n])
        BY <1>0 DEF Familiar
    <2>2. Used(e0.import) /\ KindOf[e0.import.w] = h[2]
        BY <1>0, <1>1 DEF Familiar
    <2>3. \A g \in Handlers : pc'[g] # None => Used(pc'[g]) /\ KindOf[pc'[g].w] = g[2]
        BY <1>0, <2>2 DEF Familiar, e0
    <2>4. \A g \in Handlers : \A e \in ToSet(notes'[g]) :
            Used(e.import) /\ KindOf[e.import.w] = g[2]
        BY <1>0, <1>3 DEF Familiar
    <2> QED
        BY <2>1, <2>3, <2>4 DEF Familiar, Used
<1>6. ASSUME NEW g \in Handlers, NEW i \in Imports
      PROVE  /\ Excused(g[1], i)' \/ Covered(notes'[g], i)
             /\ pc'[g] = i => Excused(g[1], i)' \/ \E e \in ToSet(notes'[g]) : Removes(e, i)
    <2>0. g[1] \in Operators /\ i # None
        BY NoneAssumption DEF Handlers, Imports
    <2>1. CASE Excused(g[1], i)
        BY <1>4, <2>0, <2>1
    <2>2. CASE ~Excused(g[1], i) /\ g # h
        BY <1>0, <1>1, <2>2 DEF Followed
    <2>3. CASE ~Excused(g[1], i) /\ g = h
        <3>1. Covered(notes[h], i)
            BY <1>0, <2>3 DEF Followed
        <3>2. /\ Covered(notes'[h], i)
              /\ Adds(e0, i) => \E e \in ToSet(notes'[h]) : Removes(e, i)
            BY <1>2, <3>1, CoveredTail DEF e0
        <3>3. pc'[h] = i => Adds(e0, i)
            BY <1>1, <2>0 DEF Adds, e0
        <3> QED
            BY <2>3, <3>2, <3>3
    <2> QED
        BY <2>1, <2>2, <2>3
<1>7. Followed'
    BY <1>6 DEF Followed
<1>8. Ended'
    <2> SUFFICES ASSUME NEW n \in Names, NEW i, i = app'[n], i # None
                 PROVE  RemovalPending(i)' \/ \E o \in Operators : Excused(o, i)'
        BY DEF Ended
    <2>1. i = app[n] /\ i \in Imports
        BY <1>0 DEF TypeOK
    <2>2. CASE \E o \in Operators : Excused(o, i)
        BY <1>4, <2>1, <2>2
    <2>3. CASE RemovalPending(i)
        <3>0. PICK g \in Handlers : \E e \in ToSet(notes[g]) : e.type # "add" /\ e.import = i
            BY <2>3 DEF RemovalPending
        <3>1. PICK e \in ToSet(notes[g]) : e.type # "add" /\ e.import = i
            BY <3>0
        <3>2. CASE e \in ToSet(notes'[g])
            BY <3>1, <3>2 DEF RemovalPending
        <3>3. CASE e \notin ToSet(notes'[g])
            <4>1. g = h /\ e = e0
                BY <1>1, <3>1, <3>3
            <4>2. i \in leaked' /\ h[1] \in Operators
                BY <1>1, <3>1, <4>1 DEF e0, Handlers
            <4> QED
                BY <4>2 DEF Excused
        <3> QED
            BY <3>2, <3>3
    <2> QED
        BY <1>0, <2>1, <2>2, <2>3 DEF Ended
<1> QED
    BY <1>5, <1>7, <1>8

(* A step that leaves queues and informers alone preserves it: what it     *)
(* creates is what a handler was about to create.                          *)
LEMMA CalmRemovalInv ==
    ASSUME RemovalInv, UNCHANGED <<wl, seen, notes, leaked, changes>>,
           \A g \in Handlers : pc'[g] \in {pc[g], None},
           \A n \in Names : \/ app'[n] \in {app[n], None}
                            \/ \E h \in Handlers : app'[n] = pc[h]
    PROVE  Familiar' /\ Followed' /\ Ended'
<1>0. TypeOK /\ Familiar /\ Followed /\ Ended
    BY DEF RemovalInv, ImportInv
<1>1. \A o, i : Excused(o, i) <=> Excused(o, i)'
    BY DEF Excused, Gone, Sees
<1>2. Familiar'
    <2>1. \A n \in Names : app'[n] # None => Used(app'[n])
        BY <1>0 DEF Familiar
    <2> QED
        BY <1>0, <2>1 DEF Familiar, Used
<1>3. Followed'
    <2>1. \A i \in Imports : i # None
        BY NoneAssumption DEF Imports
    <2> QED
        BY <1>0, <1>1, <2>1 DEF Followed
<1>4. Ended'
    <2> SUFFICES ASSUME NEW n \in Names, NEW i, i = app'[n], i # None
                 PROVE  RemovalPending(i)' \/ \E o \in Operators : Excused(o, i)'
        BY DEF Ended
    <2>1. RemovalPending(i) <=> RemovalPending(i)'
        BY DEF RemovalPending
    <2>2. CASE i = app[n]
        BY <1>0, <1>1, <2>1, <2>2 DEF Ended
    <2>3. CASE \E h \in Handlers : i = pc[h]
        <3>1. PICK h \in Handlers : i = pc[h]
            BY <2>3
        <3>2. i \in Imports /\ h[1] \in Operators
            BY <1>0, <3>1 DEF TypeOK, Handlers
        <3>3. Excused(h[1], i) \/ \E e \in ToSet(notes[h]) : Removes(e, i)
            BY <1>0, <3>1, <3>2 DEF Followed
        <3> QED
            BY <1>1, <2>1, <3>2, <3>3 DEF RemovalPending, Removes
    <2> QED
        BY <2>2, <2>3
<1> QED
    BY <1>2, <1>3, <1>4

(* Steps of the handlers preserve it.                                      *)
LEMMA HandleRemovalInv ==
    ASSUME RemovalInv, ImportInv', NEW h \in Handlers, Handle(h) PROVE RemovalInv'
<1> DEFINE i == Head(notes[h]).import
<1>0. TypeOK
    BY DEF RemovalInv, ImportInv
<1>1. CASE OnAddSkips(h) \/ OnAddGetFails(h)
    <2>1. Take(h, "add") /\ UNCHANGED <<wl, app, seen, pc, leaked, changes>>
        BY <1>1 DEF OnAddSkips, OnAddGetFails
    <2>2. Familiar' /\ Followed' /\ Ended'
        BY <2>1, TakeRemovalInv
    <2> QED
        BY <2>2 DEF RemovalInv
<1>2. CASE OnAddFindsNone(h)
    <2>1. /\ Take(h, "add") /\ UNCHANGED <<wl, app, seen, leaked, changes>>
          /\ pc' = [pc EXCEPT ![h] = i]
        BY <1>2 DEF OnAddFindsNone
    <2>2. \A g \in Handlers : pc'[g] = pc[g] \/ (g = h /\ pc'[g] = i)
        BY <1>0, <2>1 DEF TypeOK
    <2>3. Familiar' /\ Followed' /\ Ended'
        BY <2>1, <2>2, TakeRemovalInv
    <2> QED
        BY <2>3 DEF RemovalInv
<1>3. CASE CreateApp(h)
    <2>1. /\ UNCHANGED <<wl, seen, notes, leaked, changes>>
          /\ app' = [app EXCEPT ![pc[h].name] = pc[h]]
          /\ pc' = [pc EXCEPT ![h] = None]
        BY <1>3 DEF CreateApp
    <2>2. /\ \A g \in Handlers : pc'[g] \in {pc[g], None}
          /\ \A n \in Names : app'[n] = app[n] \/ app'[n] = pc[h]
        BY <1>0, <2>1 DEF TypeOK
    <2>3. Familiar' /\ Followed' /\ Ended'
        BY <2>1, <2>2, CalmRemovalInv
    <2> QED
        BY <2>3 DEF RemovalInv
<1>4. CASE CreateRefused(h) \/ CreateFails(h)
    <2>1. UNCHANGED <<wl, app, seen, notes, leaked, changes>> /\ pc' = [pc EXCEPT ![h] = None]
        BY <1>4 DEF CreateRefused, CreateFails
    <2>2. \A g \in Handlers : pc'[g] \in {pc[g], None}
        BY <1>0, <2>1 DEF TypeOK
    <2>3. Familiar' /\ Followed' /\ Ended'
        BY <2>1, <2>2, CalmRemovalInv
    <2> QED
        BY <2>3 DEF RemovalInv
<1>5. CASE OnDelete(h)
    <2>1. /\ Take(h, "delete") /\ UNCHANGED <<wl, seen, pc, leaked, changes>>
          /\ app' = [app EXCEPT ![i.name] = None]
        BY <1>5 DEF OnDelete
    <2>2. i \in Imports
        BY <1>0, <2>1, TakeNotes
    <2>3. \A n \in Names : app'[n] = IF n = i.name THEN None ELSE app[n]
        BY <1>0, <2>1 DEF TypeOK
    <2>4. ASSUME NEW n \in Names, app'[n] # None, app'[n] = i PROVE FALSE
        BY <1>0, <2>3, <2>4 DEF TypeOK
    <2>5. Familiar' /\ Followed' /\ Ended'
        BY <2>1, <2>3, <2>4, TakeRemovalInv
    <2> QED
        BY <2>5 DEF RemovalInv
<1>6. CASE OnDeleteFails(h) \/ OnTombstone(h)
    <2>1. PICK type : Take(h, type)
        BY <1>6 DEF OnDeleteFails, OnTombstone
    <2>2. /\ UNCHANGED <<wl, app, seen, pc, changes>>
          /\ leaked' = leaked \union {i}
        BY <1>6 DEF OnDeleteFails, OnTombstone
    <2>3. Familiar' /\ Followed' /\ Ended'
        BY <2>1, <2>2, TakeRemovalInv
    <2> QED
        BY <2>3 DEF RemovalInv
<1> QED
    BY <1>1, <1>2, <1>3, <1>4, <1>5, <1>6 DEF Handle

(* A restart preserves it: the queue starts over with what the replica     *)
(* sees, and what it had not seen or not handled is lost.                  *)
LEMMA RestartRemovalInv ==
    ASSUME RemovalInv, ImportInv', NEW o \in Operators, Restart(o) PROVE RemovalInv'
<1> DEFINE own == {o} \X Kinds
           unhandled == {e \in UNION {ToSet(notes[h]) : h \in own} : e.type # "add"}
           unseen == {w \in Workloads : seen[o][w] # wl[w] /\ Selected(seen[o][w])}
<1>0. TypeOK /\ KnownStates /\ Familiar /\ Followed /\ Ended
    BY DEF RemovalInv, ImportInv
<1>1. /\ UNCHANGED <<wl, app, changes>>
      /\ seen' = [seen EXCEPT ![o] = wl]
      /\ pc' = [h \in Handlers |-> IF h[1] = o THEN None ELSE pc[h]]
      /\ leaked' = leaked \union {e.import : e \in unhandled}
                          \union {ImportOf(w, seen[o][w]) : w \in unseen}
    BY DEF Restart
<1>2. /\ \A h \in Handlers : h[1] # o => notes'[h] = notes[h]
      /\ \A h \in Handlers : h[1] = o =>
            ToSet(notes'[h]) = {[type |-> "add", import |-> ImportOf(w, wl[w])] :
                                    w \in {v \in OfKind(h[2]) : Selected(wl[v])}}
    BY <1>0, RestartNotes
<1>3. seen'[o] = wl /\ \A q \in Operators \ {o} : seen'[q] = seen[q]
    BY <1>0, <1>1 DEF TypeOK
<1>4. \A h \in Handlers : h[1] \in Operators /\ (h[1] = o => h \in own)
    BY DEF Handlers
<1>5. ASSUME NEW h \in Handlers, h[1] = o, NEW e \in ToSet(notes'[h])
      PROVE  \E w \in Workloads :
                /\ e = [type |-> "add", import |-> ImportOf(w, wl[w])]
                /\ KindOf[w] = h[2] /\ Selected(wl[w])
                /\ wl[w] \in WorkloadState
    <2>1. PICK w \in {v \in OfKind(h[2]) : Selected(wl[v])} :
            e = [type |-> "add", import |-> ImportOf(w, wl[w])]
        BY <1>2, <1>5
    <2>2. w \in Workloads /\ KindOf[w] = h[2] /\ Selected(wl[w])
        BY <2>1 DEF OfKind
    <2>3. wl[w] \in WorkloadState
        BY <1>0, <2>2 DEF TypeOK
    <2> QED
        BY <2>1, <2>2, <2>3
<1>6. ASSUME NEW q \in Operators, NEW i \in Imports, Excused(q, i) PROVE Excused(q, i)'
    <2>1. CASE Gone(i) \/ i \in leaked
        BY <1>1, <2>1 DEF Excused, Gone
    <2>2. CASE Sees(q, i) /\ (q # o \/ seen[o][i.w] = wl[i.w])
        BY <1>3, <2>2 DEF Excused, Sees
    <2>3. CASE Sees(q, i) /\ q = o /\ seen[o][i.w] # wl[i.w]
        <3>1. i.w \in Workloads /\ seen[o][i.w] \in WorkloadState
            BY <1>0 DEF Imports, TypeOK
        <3>2. ImportOf(i.w, seen[o][i.w]) = i /\ Selected(seen[o][i.w])
            BY <2>3, <3>1, StateOfImport, NoneAssumption DEF Sees, Selected, Imports
        <3>3. i \in leaked'
            BY <1>1, <2>3, <3>1, <3>2
        <3> QED
            BY <3>3 DEF Excused
    <2> QED
        BY <1>6, <2>1, <2>2, <2>3 DEF Excused
<1> HIDE DEF own, unhandled, unseen
<1>7. Familiar'
    <2>1. \A h \in Handlers : pc'[h] # None => Used(pc'[h]) /\ KindOf[pc'[h].w] = h[2]
        BY <1>0, <1>1 DEF Familiar
    <2>2. ASSUME NEW h \in Handlers, NEW e \in ToSet(notes'[h])
          PROVE  Used(e.import) /\ KindOf[e.import.w] = h[2]
        <3>1. CASE h[1] # o
            BY <1>0, <1>2, <2>2, <3>1 DEF Familiar
        <3>2. CASE h[1] = o
            <4>1. PICK w \in Workloads :
                    /\ e = [type |-> "add", import |-> ImportOf(w, wl[w])]
                    /\ KindOf[w] = h[2] /\ Selected(wl[w])
                    /\ wl[w] \in WorkloadState
                BY <1>5, <2>2, <3>2
            <4>2. Used(ImportOf(w, wl[w]))
                BY <1>0, <4>1, KnownUsed DEF KnownStates
            <4>3. e.import = ImportOf(w, wl[w]) /\ e.import.w = w
                BY <4>1 DEF ImportOf
            <4> QED
                BY <4>1, <4>2, <4>3
        <3> QED
            BY <3>1, <3>2
    <2> QED
        BY <1>0, <1>1, <2>1, <2>2 DEF Familiar, Used
<1>8. ASSUME NEW h \in Handlers, NEW i \in Imports
      PROVE  /\ Excused(h[1], i)' \/ Covered(notes'[h], i)
             /\ pc'[h] = i => Excused(h[1], i)' \/ \E e \in ToSet(notes'[h]) : Removes(e, i)
    <2>1. CASE h[1] # o
        <3>1. notes'[h] = notes[h] /\ pc'[h] = pc[h]
            BY <1>1, <1>2, <2>1
        <3> QED
            BY <1>0, <1>4, <1>6, <3>1 DEF Followed
    <2>2. CASE h[1] = o
        <3>1. pc'[h] # i
            BY <1>1, <2>2, NoneAssumption DEF Imports
        <3>2. ASSUME ~Covered(notes'[h], i) PROVE Sees(o, i)'
            <4>1. PICK e \in ToSet(notes'[h]) : Adds(e, i)
                BY <3>2 DEF Covered, ToSet
            <4>2. PICK w \in Workloads :
                    /\ e = [type |-> "add", import |-> ImportOf(w, wl[w])]
                    /\ wl[w] \in WorkloadState
                BY <1>5, <2>2
            <4>3. i = ImportOf(w, wl[w]) /\ i.w = w
                BY <4>1, <4>2 DEF Adds, ImportOf
            <4> QED
                BY <1>3, <4>2, <4>3, StateOfImport DEF Sees
        <3> QED
            BY <2>2, <3>1, <3>2 DEF Excused
    <2> QED
        BY <2>1, <2>2
<1>9. Followed'
    BY <1>8 DEF Followed
<1>10. Ended'
    <2> SUFFICES ASSUME NEW n \in Names, NEW i, i = app[n], i # None
                 PROVE  RemovalPending(i)' \/ \E q \in Operators : Excused(q, i)'
        BY <1>1 DEF Ended
    <2>1. i \in Imports
        BY <1>0 DEF TypeOK
    <2>2. ASSUME RemovalPending(i) PROVE RemovalPending(i)' \/ i \in leaked'
        <3>1. PICK h \in Handlers : \E e \in ToSet(notes[h]) : e.type # "add" /\ e.import = i
            BY <2>2 DEF RemovalPending
        <3>2. CASE h[1] # o
            BY <1>2, <3>1, <3>2 DEF RemovalPending
        <3>3. CASE h[1] = o
            BY <1>1, <1>4, <3>1, <3>3 DEF unhandled
        <3> QED
            BY <3>2, <3>3
    <2> QED
        BY <1>0, <1>6, <2>1, <2>2 DEF Ended, Excused
<1> QED
    BY <1>7, <1>9, <1>10 DEF RemovalInv

(* Every step preserves the strengthening.                                 *)
LEMMA NextRemovalInv == RemovalInv /\ [Next]_vars => RemovalInv'
<1> SUFFICES ASSUME RemovalInv, [Next]_vars PROVE RemovalInv'
    OBVIOUS
<1>0. TypeOK /\ KnownStates /\ ImportInv'
    BY NextImportInv DEF RemovalInv, ImportInv
<1>1. ASSUME NEW w \in Workloads, Users(w) PROVE RemovalInv'
    BY <1>0, <1>1, UsersWrite, WriteRemovalInv DEF KnownStates
<1>2. ASSUME NEW h \in Handlers, Relist(h) PROVE RemovalInv'
    BY <1>0, <1>2, RelistRemovalInv
<1>3. ASSUME NEW h \in Handlers, Handle(h) PROVE RemovalInv'
    BY <1>0, <1>3, HandleRemovalInv
<1>4. ASSUME NEW o \in Operators, Restart(o) PROVE RemovalInv'
    BY <1>0, <1>4, RestartRemovalInv
<1>5. ASSUME UNCHANGED <<wl, seen, notes, pc, leaked, changes>>,
             \A n \in Names : app'[n] \in {app[n], None}
      PROVE  RemovalInv'
    <2>1. Familiar' /\ Followed' /\ Ended'
        BY <1>5, CalmRemovalInv
    <2> QED
        BY <1>0, <2>1 DEF RemovalInv
<1>6. ASSUME NEW n \in Names, CollectGarbage(n) PROVE RemovalInv'
    <2>1. UNCHANGED <<wl, seen, notes, pc, leaked, changes>>
        BY <1>6 DEF CollectGarbage
    <2>2. \A m \in Names : app'[m] \in {app[m], None}
        BY <1>0, <1>6 DEF CollectGarbage, TypeOK
    <2> QED
        BY <1>5, <2>1, <2>2
<1>7. CASE (\E h \in Handlers : Disconnect(h)) \/ (\E o \in Operators : ViewSync(o))
            \/ UNCHANGED vars
    <2>1. UNCHANGED <<wl, app, seen, notes, pc, leaked, changes>>
        BY <1>7 DEF Disconnect, ViewSync, vars
    <2> QED
        BY <1>5, <2>1
<1> QED
    BY <1>1, <1>2, <1>3, <1>4, <1>6, <1>7 DEF Next

(* No CamelApp outlives its label silently (onDelete and                   *)
(* ManageSyntheticCamelApps): for every set of workloads, names and        *)
(* replicas, one whose workload does not carry its name any more is about  *)
(* to be ended, or its removal is one no handler acted upon.               *)
THEOREM NoRemovalLost == Spec => []RemovalTracked
<1> QED
    BY InitRemovalInv, NextRemovalInv, RemovalInvTracks, PTL DEF Spec
=============================================================================
