----------------------- MODULE ApplyConfigurationsProofs -----------------------
(***************************************************************************)
(* The builders keep what their comments promise for every series of       *)
(* calls, of any length.                                                   *)
(*                                                                         *)
(* The fold over the calls becomes a run: the configurations after each    *)
(* call.  A field changes from call to call in one of three ways, and each *)
(* has a lemma that says what the field holds after k calls.  The encoding *)
(* then follows the pointers from the last configurations.                 *)
(***************************************************************************)
EXTENDS ApplyConfigurations, Sums, SequenceTheorems

(* Counting up from zero, for facts that are members of a set of numbers. *)
LEMMA CountUp ==
    ASSUME NEW n \in Nat, NEW good, 0 \in good,
           \A k \in 1 .. n : k - 1 \in good => k \in good
    PROVE  \A k \in 0 .. n : k \in good
<1> DEFINE Bad == {k \in 0 .. n : k \notin good}
           T == {0 .. k : k \in Bad}
<1>1. SUFFICES ASSUME Bad # {} PROVE FALSE
    OBVIOUS
<1>2. IsFiniteSet(0 .. n)
    BY FS_Interval
<1>3. T \in SUBSET SUBSET (0 .. n) /\ T # {}
    BY <1>1
<1>4. PICK least \in T : \A s \in T : s \subseteq least => s = least
    <2> DEFINE set == 0 .. n
    <2>1. IsFiniteSet(set) /\ T \in SUBSET SUBSET set /\ T # {}
        BY <1>2, <1>3
    <2> HIDE DEF T, set
    <2> QED BY <2>1, LeastSubset
<1>5. PICK k \in Bad : least = 0 .. k
    OBVIOUS
<1>6. k # 0 /\ k \in 1 .. n
    BY <1>5
<1>7. k - 1 \in Bad
    BY <1>6
<1>8. 0 .. (k - 1) \in T /\ 0 .. (k - 1) \subseteq least
    BY <1>5, <1>6, <1>7
<1>9. 0 .. (k - 1) = 0 .. k
    BY <1>4, <1>5, <1>8
<1> QED BY <1>6, <1>9

-----------------------------------------------------------------------------
(* The fold over a series of calls.                                        *)

(* The configurations after each call.                                     *)
IsRun(state, calls, n) ==
    /\ state[0] = Constructed
    /\ \A k \in 1 .. n : state[k] = With(state[k - 1], calls[k])

(* The fold of the library is a function on sets of numbers, largest       *)
(* first.                                                                  *)
FoldStep(fold, calls, s) ==
    IF s = {} THEN Constructed ELSE With(fold[s \ {Max(s)}], calls[Max(s)])

IsFold(fold, calls, n) == fold = [s \in SUBSET (1 .. n) |-> FoldStep(fold, calls, s)]

(* What the largest number of a set is.                                    *)
LEMMA MaxIs ==
    ASSUME NEW S \in SUBSET Int, NEW m \in S, \A x \in S : m >= x
    PROVE  Max(S) = m
<1> DEFINE Largest(x) == x \in S /\ \A y \in S : x >= y
<1>1. Largest(m)
    OBVIOUS
<1>2. Max(S) = CHOOSE x : Largest(x)
    BY DEF Max
<1>3. Largest(Max(S))
    BY <1>1, <1>2
<1>4. Max(S) \in Int /\ m \in Int
    BY <1>3
<1> QED BY <1>3, <1>4

(* The recursive function of the library is there: each number of calls    *)
(* adds to the function of one call less.                                  *)
LEMMA FoldExists ==
    ASSUME NEW n \in Nat, NEW calls
    PROVE  \E fold : IsFold(fold, calls, n)
<1> DEFINE good == {m \in 0 .. n : \E fold : IsFold(fold, calls, m)}
<1>1. 0 \in good
    <2> DEFINE fold == [s \in SUBSET (1 .. 0) |-> Constructed]
    <2>1. SUBSET (1 .. 0) = {{}}
        OBVIOUS
    <2>2. IsFold(fold, calls, 0)
        BY <2>1 DEF IsFold, FoldStep
    <2> QED BY <2>2
<1>2. ASSUME NEW m \in 1 .. n, m - 1 \in good PROVE m \in good
    <2>1. PICK fold : IsFold(fold, calls, m - 1)
        BY <1>2
    <2> DEFINE more == [s \in SUBSET (1 .. m) |->
                  IF m \in s THEN With(fold[s \ {m}], calls[m]) ELSE fold[s]]
    <2>2. ASSUME NEW s \in SUBSET (1 .. m) PROVE more[s] = FoldStep(more, calls, s)
        <3>1. CASE m \in s
            <4>1. Max(s) = m
                <5>1. s \in SUBSET Int /\ \A x \in s : m >= x
                    OBVIOUS
                <5> QED BY <3>1, <5>1, MaxIs
            <4>2. s \ {m} \in SUBSET (1 .. m) /\ m \notin s \ {m} /\ s # {}
                BY <3>1
            <4>3. more[s \ {m}] = fold[s \ {m}]
                BY <4>2
            <4>4. more[s] = With(fold[s \ {m}], calls[m])
                BY <3>1
            <4> HIDE DEF more
            <4> QED BY <4>1, <4>2, <4>3, <4>4 DEF FoldStep
        <3>2. CASE m \notin s
            <4>1. s \in SUBSET (1 .. m - 1)
                BY <3>2
            <4>2. s \ {Max(s)} \in SUBSET (1 .. m) /\ m \notin s \ {Max(s)}
                BY <3>2
            <4>3. more[s] = fold[s] /\ more[s \ {Max(s)}] = fold[s \ {Max(s)}]
                BY <3>2, <4>2
            <4>4. fold[s] = FoldStep(fold, calls, s)
                BY <2>1, <4>1 DEF IsFold
            <4> HIDE DEF more
            <4> QED BY <4>3, <4>4 DEF FoldStep
        <3> QED BY <3>1, <3>2
    <2>3. IsFold(more, calls, m)
        <3>1. more = [s \in SUBSET (1 .. m) |-> more[s]]
            OBVIOUS
        <3> HIDE DEF more
        <3> QED BY <2>2, <3>1 DEF IsFold
    <2> QED BY <2>3
<1>3. n \in good
    <2> HIDE DEF good
    <2> QED BY <1>1, <1>2, CountUp
<1> QED BY <1>3

(* So the fold ends where a run of the calls, one by one, ends.            *)
LEMMA CallsFold ==
    ASSUME NEW n \in Nat, NEW calls \in [1 .. n -> Calls]
    PROVE  \E state : IsRun(state, calls, n) /\ FoldLeft(With, Constructed, calls) = state[n]
<1> DEFINE fold == CHOOSE f : IsFold(f, calls, n)
           state == [k \in 0 .. n |-> fold[1 .. k]]
<1>1. IsFold(fold, calls, n)
    BY FoldExists
<1>2. DOMAIN calls = 1 .. n
    OBVIOUS
<1>3. FoldLeft(With, Constructed, calls) = fold[1 .. n]
    BY <1>2 DEF FoldLeft, MapThenFoldSet, IsFold, FoldStep
<1> HIDE DEF fold
<1>4. state[0] = Constructed
    <2>1. {} \in SUBSET (1 .. n) /\ 1 .. 0 = {}
        OBVIOUS
    <2>2. fold[{}] = FoldStep(fold, calls, {})
        BY <1>1, <2>1 DEF IsFold
    <2> QED BY <2>1, <2>2 DEF FoldStep
<1>5. ASSUME NEW k \in 1 .. n PROVE state[k] = With(state[k - 1], calls[k])
    <2>1. 1 .. k \in SUBSET (1 .. n) /\ 1 .. k # {}
        <3>1. k \in 1 .. k
            OBVIOUS
        <3>2. 1 .. k \subseteq 1 .. n
            OBVIOUS
        <3> HIDE DEF state
        <3> QED BY <3>1, <3>2
    <2>2. Max(1 .. k) = k
        <3> DEFINE S == 1 .. k
        <3>1. S \in SUBSET Int /\ k \in S /\ \A x \in S : k >= x
            OBVIOUS
        <3> HIDE DEF S
        <3>2. Max(S) = k
            BY <3>1, MaxIs
        <3> QED BY <3>2 DEF S
    <2>3. (1 .. k) \ {k} = 1 .. k - 1
        OBVIOUS
    <2>4. fold[1 .. k] = FoldStep(fold, calls, 1 .. k)
        BY <1>1, <2>1 DEF IsFold
    <2>5. fold[1 .. k] = With(fold[1 .. k - 1], calls[k])
        BY <2>1, <2>2, <2>3, <2>4 DEF FoldStep
    <2> QED BY <2>5
<1>6. state[n] = fold[1 .. n]
    OBVIOUS
<1> HIDE DEF state
<1> QED BY <1>3, <1>4, <1>5, <1>6 DEF IsRun

-----------------------------------------------------------------------------
(* The calls that concern a field.                                         *)

(* The k-th call concerns the field.                                       *)
Made(calls, k, type, field) == calls[k].on = type /\ calls[k].field = field

(* One call more.                                                          *)
LEMMA OfNext ==
    ASSUME NEW n \in Nat, NEW calls \in [1 .. n -> Calls], NEW type, NEW field, NEW k \in 1 .. n
    PROVE  /\ Made(calls, k, type, field) =>
                Of(calls, type, field, k) = Of(calls, type, field, k - 1) \union {k}
           /\ ~Made(calls, k, type, field) =>
                Of(calls, type, field, k) = Of(calls, type, field, k - 1)
<1>1. 1 .. k = (1 .. k - 1) \union {k}
    OBVIOUS
<1> QED BY <1>1 DEF Of, Made

(* No call.                                                                *)
LEMMA OfNone ==
    ASSUME NEW calls, NEW type, NEW field
    PROVE  Of(calls, type, field, 0) = {}
BY DEF Of

(* They are finitely many numbers.                                         *)
LEMMA OfNumbers ==
    ASSUME NEW calls, NEW type, NEW field, NEW k \in Nat
    PROVE  /\ Of(calls, type, field, k) \in SUBSET (1 .. k)
           /\ IsFiniteSet(Of(calls, type, field, k))
           /\ Cardinality(Of(calls, type, field, k)) \in Nat
<1>1. Of(calls, type, field, k) \in SUBSET (1 .. k)
    BY DEF Of
<1>2. IsFiniteSet(1 .. k)
    BY FS_Interval
<1>3. IsFiniteSet(Of(calls, type, field, k))
    BY <1>1, <1>2, FS_Subset
<1> QED BY <1>1, <1>3, FS_CardinalityType

(* A field that is set: the value of the last call.                        *)
Sets(values, calls, n, type, field, default) ==
    /\ values[0] = default
    /\ \A k \in 1 .. n :
        values[k] = IF Made(calls, k, type, field) THEN calls[k].value ELSE values[k - 1]

(* A field that is set by its calls holds the value of the last one.       *)
LEMMA LastValueKept ==
    ASSUME NEW n \in Nat, NEW calls \in [1 .. n -> Calls], NEW type, NEW field,
           NEW default, NEW values, Sets(values, calls, n, type, field, default)
    PROVE  \A k \in 0 .. n : values[k] = LastValue(calls, type, field, k, default)
<1> DEFINE good == {k \in 0 .. n : values[k] = LastValue(calls, type, field, k, default)}
<1>1. 0 \in good
    BY OfNone DEF LastValue, Sets
<1>2. ASSUME NEW k \in 1 .. n, k - 1 \in good PROVE k \in good
    <2>1. CASE Made(calls, k, type, field)
        <3>1. k \in Of(calls, type, field, k)
            BY <2>1, OfNext
        <3>2. Max(Of(calls, type, field, k)) = k
            <4>1. Of(calls, type, field, k) \in SUBSET (1 .. k)
                BY OfNumbers
            <4>2. /\ Of(calls, type, field, k) \in SUBSET Int
                  /\ \A x \in Of(calls, type, field, k) : k >= x
                BY <4>1
            <4> QED BY <3>1, <4>2, MaxIs
        <3>3. LastValue(calls, type, field, k, default) = calls[k].value
            BY <3>1, <3>2 DEF LastValue
        <3> QED BY <2>1, <3>3 DEF Sets
    <2>2. CASE ~Made(calls, k, type, field)
        <3>1. Of(calls, type, field, k) = Of(calls, type, field, k - 1)
            BY <2>2, OfNext
        <3>2. LastValue(calls, type, field, k, default) =
                LastValue(calls, type, field, k - 1, default)
            BY <3>1 DEF LastValue
        <3> QED BY <1>2, <2>2, <3>2 DEF Sets
    <2> QED BY <2>1, <2>2
<1>3. \A k \in 0 .. n : k \in good
    <2> HIDE DEF good
    <2> QED BY <1>1, <1>2, CountUp
<1> QED BY <1>3

(* A map: the entries of all calls, each with its last value.              *)
Setting(calls, type, field, k, key) ==
    {i \in Of(calls, type, field, k) : key \in DOMAIN calls[i].value}

(* The keys the first k calls set.                                         *)
Keys(calls, type, field, k) ==
    UNION {DOMAIN calls[i].value : i \in Of(calls, type, field, k)}

(* Entries with its parts named.                                           *)
LEMMA EntriesAre ==
    ASSUME NEW calls, NEW type, NEW field, NEW k
    PROVE  Entries(calls, type, field, k) =
            [key \in Keys(calls, type, field, k) |->
                calls[Max(Setting(calls, type, field, k, key))].value[key]]
BY DEF Entries, Keys, Setting

(* Each call puts its entries into the map.                                *)
PutsAll(maps, calls, n, type, field) ==
    /\ maps[0] = [key \in {} |-> Nil]
    /\ \A k \in 1 .. n :
        maps[k] = IF Made(calls, k, type, field)
                  THEN WithLabels(maps[k - 1], calls[k].value) ELSE maps[k - 1]

(* A map its calls put entries into has for each key the last entry.       *)
LEMMA EntriesKept ==
    ASSUME NEW n \in Nat, NEW calls \in [1 .. n -> Calls], NEW type, NEW field, NEW maps,
           PutsAll(maps, calls, n, type, field)
    PROVE  \A k \in 0 .. n : maps[k] = Entries(calls, type, field, k)
<1> DEFINE good == {k \in 0 .. n : maps[k] = Entries(calls, type, field, k)}
<1>1. 0 \in good
    <2>1. Keys(calls, type, field, 0) = {}
        BY OfNone DEF Keys
    <2>2. Entries(calls, type, field, 0) = [key \in {} |-> Nil]
        <3>1. \A f, g : f = [key \in {} |-> f[key]] /\ g = [key \in {} |-> g[key]] => f = g
            OBVIOUS
        <3>2. Entries(calls, type, field, 0) =
                [key \in {} |-> Entries(calls, type, field, 0)[key]]
            BY <2>1, EntriesAre
        <3>3. [key \in {} |-> Nil] = [key \in {} |-> [otherKey \in {} |-> Nil][key]]
            OBVIOUS
        <3> QED BY <3>1, <3>2, <3>3
    <2> QED BY <2>2 DEF PutsAll
<1>2. ASSUME NEW k \in 1 .. n, k - 1 \in good PROVE k \in good
    <2> DEFINE entries == calls[k].value
               before == Entries(calls, type, field, k - 1)
    <2>1. CASE Made(calls, k, type, field)
        <3>1. Of(calls, type, field, k) = Of(calls, type, field, k - 1) \union {k}
            BY <2>1, OfNext
        <3>2. maps[k] = [key \in DOMAIN entries \union DOMAIN before |->
                            IF key \in DOMAIN entries THEN entries[key] ELSE before[key]]
            BY <1>2, <2>1 DEF WithLabels, PutAll, PutsAll
        <3>3. DOMAIN before = Keys(calls, type, field, k - 1)
            BY EntriesAre
        <3>4. Keys(calls, type, field, k) = DOMAIN entries \union DOMAIN before
            BY <3>1, <3>3 DEF Keys
        <3>5. ASSUME NEW key \in DOMAIN entries
              PROVE  calls[Max(Setting(calls, type, field, k, key))].value[key] = entries[key]
            <4>1. k \in Setting(calls, type, field, k, key)
                BY <3>1, <3>5 DEF Setting
            <4>2. Of(calls, type, field, k) \in SUBSET (1 .. k)
                BY OfNumbers
            <4>3. /\ Setting(calls, type, field, k, key) \in SUBSET Int
                  /\ \A x \in Setting(calls, type, field, k, key) : k >= x
                BY <4>2 DEF Setting
            <4>4. Max(Setting(calls, type, field, k, key)) = k
                BY <4>1, <4>3, MaxIs
            <4> QED BY <4>4
        <3>6. ASSUME NEW key \in DOMAIN before, key \notin DOMAIN entries
              PROVE  calls[Max(Setting(calls, type, field, k, key))].value[key] = before[key]
            <4>1. Setting(calls, type, field, k, key) = Setting(calls, type, field, k - 1, key)
                BY <3>1, <3>6 DEF Setting
            <4> QED BY <3>3, <4>1, EntriesAre
        <3>7. maps[k] = Entries(calls, type, field, k)
            <4> HIDE DEF entries, before
            <4> QED BY <3>2, <3>4, <3>5, <3>6, EntriesAre
        <3> QED BY <3>7
    <2>2. CASE ~Made(calls, k, type, field)
        <3>1. Of(calls, type, field, k) = Of(calls, type, field, k - 1)
            BY <2>2, OfNext
        <3>2. Entries(calls, type, field, k) = before
            BY <3>1, EntriesAre DEF Keys, Setting
        <3> QED BY <1>2, <2>2, <3>2 DEF PutsAll
    <2> QED BY <2>1, <2>2
<1>3. \A k \in 0 .. n : k \in good
    <2> HIDE DEF good
    <2> QED BY <1>1, <1>2, CountUp
<1> QED BY <1>3

(* A list: what the calls provide, in their order.                         *)
LEMMA OfGrows ==
    ASSUME NEW n \in Nat, NEW calls \in [1 .. n -> Calls], NEW type, NEW field,
           NEW i \in 1 .. n, NEW k \in 1 .. n, i < k, Made(calls, k, type, field)
    PROVE  Cardinality(Of(calls, type, field, i)) < Cardinality(Of(calls, type, field, k))
<1> DEFINE made(l) == Of(calls, type, field, l)
<1>1. made(k) = made(k - 1) \union {k} /\ k \notin made(k - 1)
    BY OfNext, OfNumbers
<1>2. made(i) \subseteq made(k - 1)
    <2>1. 1 .. i \subseteq 1 .. k - 1
        OBVIOUS
    <2> QED BY <2>1 DEF Of
<1>3. /\ IsFiniteSet(made(k - 1)) /\ Cardinality(made(k - 1)) \in Nat
      /\ Cardinality(made(i)) \in Nat
    BY OfNumbers
<1> HIDE DEF made
<1>4. Cardinality(made(i)) <= Cardinality(made(k - 1))
    BY <1>2, <1>3, FS_Subset
<1>5. Cardinality(made(k)) = Cardinality(made(k - 1)) + 1
    BY <1>1, <1>3, FS_AddElement
<1>6. Cardinality(made(i)) < Cardinality(made(k))
    BY <1>3, <1>4, <1>5
<1> QED BY <1>6 DEF made

(* A call that is the j-th of its field is found by its number.            *)
LEMMA NthMade ==
    ASSUME NEW n \in Nat, NEW calls \in [1 .. n -> Calls], NEW type, NEW field,
           NEW k \in 1 .. n, Made(calls, k, type, field)
    PROVE  Nth(calls, type, field, n, Cardinality(Of(calls, type, field, k))) = k
<1> DEFINE count(i) == Cardinality(Of(calls, type, field, i))
<1>1. \A i \in Of(calls, type, field, n) : i \in 1 .. n /\ Made(calls, i, type, field)
    BY DEF Of, Made
<1>2. k \in Of(calls, type, field, n)
    BY DEF Of, Made
<1>3. \A i \in Of(calls, type, field, n) : count(i) \in Nat
    BY <1>1, OfNumbers
<1>4. ASSUME NEW i \in Of(calls, type, field, n), count(i) = count(k) PROVE i = k
    <2>1. CASE i < k
        <3>1. count(i) < count(k)
            BY <1>1, <2>1, OfGrows
        <3> QED BY <1>2, <1>3, <1>4, <3>1
    <2>2. CASE k < i
        <3>1. count(k) < count(i)
            BY <1>1, <2>2, OfGrows
        <3> QED BY <1>2, <1>3, <1>4, <3>1
    <2> QED BY <1>1, <2>1, <2>2
<1> HIDE DEF count
<1>5. (CHOOSE i \in Of(calls, type, field, n) : count(i) = count(k)) = k
    BY <1>2, <1>4
<1> QED BY <1>5 DEF Nth, count

(* What the calls of the field among the first k provided.                 *)
Provisions(calls, type, field, n, k, provided) ==
    [j \in 1 .. Cardinality(Of(calls, type, field, k)) |->
        provided[Nth(calls, type, field, n, j)]]

(* Appending, element by element.                                          *)
LEMMA AppendTo ==
    ASSUME NEW S, NEW list \in Seq(S), NEW element \in S
    PROVE  Append(list, element) =
            [j \in 1 .. Len(list) + 1 |-> IF j = Len(list) + 1 THEN element ELSE list[j]]
<1> DEFINE longer == [j \in 1 .. Len(list) + 1 |-> IF j = Len(list) + 1 THEN element ELSE list[j]]
<1>1. Len(list) \in Nat /\ \A j \in 1 .. Len(list) : list[j] \in S
    BY LenProperties, ElementOfSeq
<1>2. longer \in Seq(S) /\ Len(longer) = Len(list) + 1
    <2>1. \A j \in 1 .. Len(list) + 1 : longer[j] \in S
        BY <1>1
    <2> HIDE DEF longer
    <2> QED BY <1>1, <2>1, IsASeq, LenProperties DEF longer
<1>3. Append(list, element) \in Seq(S) /\ Len(Append(list, element)) = Len(list) + 1
    BY AppendProperties
<1>4. \A j \in 1 .. Len(list) + 1 : Append(list, element)[j] = longer[j]
    BY <1>1, AppendProperties
<1> HIDE DEF longer
<1>5. Append(list, element) = longer
    BY <1>2, <1>3, <1>4, SeqEqual
<1> QED BY <1>5 DEF longer

(* Each call appends what it provides to the list.                         *)
Appends(lists, calls, n, type, field, provided) ==
    /\ lists[0] = <<>>
    /\ \A k \in 1 .. n :
        lists[k] = IF Made(calls, k, type, field)
                   THEN Append(lists[k - 1], provided[k]) ELSE lists[k - 1]

(* A list its calls append to holds what they provided, in their order.    *)
LEMMA ProvisionsKept ==
    ASSUME NEW n \in Nat, NEW calls \in [1 .. n -> Calls], NEW type, NEW field,
           NEW provided, NEW lists, Appends(lists, calls, n, type, field, provided)
    PROVE  \A k \in 0 .. n : lists[k] = Provisions(calls, type, field, n, k, provided)
<1> DEFINE S == {provided[k] : k \in 1 .. n}
           given(k) == Provisions(calls, type, field, n, k, provided)
           Good(k) == lists[k] = given(k) /\ lists[k] \in Seq(S)
           good == {k \in 0 .. n : Good(k)}
           count(k) == Cardinality(Of(calls, type, field, k))
<1>1. 0 \in good
    <2>1. count(0) = 0
        BY OfNone, FS_EmptySet
    <2>2. given(0) = [j \in 1 .. 0 |-> provided[Nth(calls, type, field, n, j)]]
        BY <2>1 DEF Provisions
    <2>3. given(0) = <<>>
        BY <2>2
    <2>4. <<>> \in Seq(S)
        BY EmptySeq
    <2> HIDE DEF S, given
    <2>5. Good(0)
        BY <2>3, <2>4 DEF Appends
    <2> HIDE DEF Good
    <2> QED BY <2>5
<1>2. ASSUME NEW k \in 1 .. n, k - 1 \in good PROVE k \in good
    <2>1. lists[k - 1] = given(k - 1) /\ lists[k - 1] \in Seq(S)
        BY <1>2
    <2>2. CASE Made(calls, k, type, field)
        <3>1. lists[k] = Append(lists[k - 1], provided[k])
            BY <2>2 DEF Appends
        <3>2. /\ IsFiniteSet(Of(calls, type, field, k - 1)) /\ count(k - 1) \in Nat
              /\ k \notin Of(calls, type, field, k - 1)
            BY OfNumbers
        <3>3. count(k) = count(k - 1) + 1
            <4> DEFINE before == Of(calls, type, field, k - 1)
            <4>1. Of(calls, type, field, k) = before \union {k}
                BY <2>2, OfNext
            <4>2. IsFiniteSet(before) /\ k \notin before
                BY <3>2
            <4> HIDE DEF before
            <4>3. Cardinality(before \union {k}) = Cardinality(before) + 1
                BY <4>2, FS_AddElement
            <4> QED BY <4>1, <4>3 DEF before
        <3>4. Len(lists[k - 1]) = count(k - 1)
            <4> DEFINE m == count(k - 1)
            <4>1. DOMAIN lists[k - 1] = 1 .. m /\ m \in Nat
                BY <2>1, <3>2 DEF Provisions
            <4> HIDE DEF m, S
            <4>2. Len(lists[k - 1]) \in Nat /\ DOMAIN lists[k - 1] = 1 .. Len(lists[k - 1])
                BY <2>1, LenProperties
            <4>3. 1 .. Len(lists[k - 1]) = 1 .. m
                BY <4>1, <4>2
            <4>4. Len(lists[k - 1]) = m
                BY <4>1, <4>2, <4>3
            <4> QED BY <4>4 DEF m
        <3>5. provided[k] \in S
            OBVIOUS
        <3>6. lists[k] \in Seq(S)
            <4> HIDE DEF S
            <4> QED BY <2>1, <3>1, <3>5, AppendProperties
        <3>7. lists[k] = [j \in 1 .. count(k - 1) + 1 |->
                            IF j = count(k - 1) + 1 THEN provided[k] ELSE lists[k - 1][j]]
            <4> HIDE DEF S, count
            <4> QED BY <2>1, <3>1, <3>4, <3>5, AppendTo
        <3>8. Nth(calls, type, field, n, count(k)) = k
            BY <2>2, NthMade
        <3>9. ASSUME NEW j \in 1 .. count(k)
              PROVE  lists[k][j] = provided[Nth(calls, type, field, n, j)]
            <4>1. CASE j = count(k - 1) + 1
                BY <3>3, <3>7, <3>8, <4>1
            <4>2. CASE j # count(k - 1) + 1
                <5>1. j \in 1 .. count(k - 1)
                    BY <3>2, <3>3, <4>2
                <5>2. lists[k][j] = lists[k - 1][j]
                    BY <3>3, <3>7, <4>2
                <5>3. lists[k - 1][j] = provided[Nth(calls, type, field, n, j)]
                    BY <2>1, <5>1 DEF Provisions
                <5> QED BY <5>2, <5>3
            <4> QED BY <4>1, <4>2
        <3>10. lists[k] = given(k)
            <4>1. lists[k] = [j \in 1 .. count(k) |-> lists[k][j]]
                BY <3>3, <3>7
            <4> HIDE DEF count
            <4>2. lists[k] = [j \in 1 .. count(k) |-> provided[Nth(calls, type, field, n, j)]]
                BY <3>9, <4>1
            <4> QED BY <4>2 DEF Provisions, count
        <3> QED BY <3>6, <3>10
    <2>3. CASE ~Made(calls, k, type, field)
        <3>1. given(k) = given(k - 1)
            BY <2>3, OfNext DEF Provisions
        <3>2. lists[k] = lists[k - 1]
            BY <2>3 DEF Appends
        <3> QED BY <2>1, <3>1, <3>2
    <2> QED BY <2>2, <2>3
<1>3. \A k \in 0 .. n : k \in good
    <2> HIDE DEF good
    <2> QED BY <1>1, <1>2, CountUp
<1> QED BY <1>3

(* Every number up to the number of calls is that of a call.               *)
LEMMA NthOf ==
    ASSUME NEW n \in Nat, NEW calls \in [1 .. n -> Calls], NEW type, NEW field,
           NEW j \in 1 .. Cardinality(Of(calls, type, field, n))
    PROVE  Nth(calls, type, field, n, j) \in Of(calls, type, field, n)
<1> DEFINE made(k) == Of(calls, type, field, k)
           count(k) == Cardinality(made(k))
           Good(k) == \A l \in 1 .. count(k) : \E i \in made(k) : count(i) = l
           good == {k \in 0 .. n : Good(k)}
<1>1. Good(0)
    <2>1. count(0) = 0
        BY OfNone, FS_EmptySet
    <2> QED BY <2>1
<1>2. ASSUME NEW k \in 1 .. n, Good(k - 1) PROVE Good(k)
    <2>1. CASE Made(calls, k, type, field)
        <3>1. made(k) = made(k - 1) \union {k} /\ k \notin made(k - 1)
            BY <2>1, OfNext, OfNumbers
        <3>2. IsFiniteSet(made(k - 1)) /\ count(k - 1) \in Nat
            BY OfNumbers
        <3>3. count(k) = count(k - 1) + 1
            <4> HIDE DEF made
            <4> QED BY <3>1, <3>2, FS_AddElement
        <3> HIDE DEF made, count
        <3> QED BY <1>2, <3>1, <3>2, <3>3
    <2>2. CASE ~Made(calls, k, type, field)
        <3>1. made(k) = made(k - 1)
            BY <2>2, OfNext
        <3> HIDE DEF made
        <3> QED BY <1>2, <3>1
    <2> QED BY <2>1, <2>2
<1>3. Good(n)
    <2> HIDE DEF Good
    <2>1. 0 \in good
        BY <1>1
    <2>2. ASSUME NEW k \in 1 .. n, k - 1 \in good PROVE k \in good
        BY <1>2, <2>2
    <2>3. n \in good
        <3> HIDE DEF good
        <3> QED BY <2>1, <2>2, CountUp
    <2> QED BY <2>3
<1> HIDE DEF made
<1>4. \E i \in made(n) : count(i) = j
    BY <1>3 DEF made
<1> QED BY <1>4 DEF Nth, made

-----------------------------------------------------------------------------
(* The structs after each call.                                            *)

(* The types, and the fields of each.                                      *)
Types == DOMAIN Constructed
FieldsOf(type) == DOMAIN Constructed[type]

(* The configurations are structs of their types. *)
Shaped(configurations) ==
    /\ configurations = [type \in Types |-> configurations[type]]
    /\ \A type \in Types :
        configurations[type] = [field \in FieldsOf(type) |-> configurations[type][field]]

(* The constructors make such structs.                                     *)
LEMMA ConstructedShaped == Shaped(Constructed)
<1>1. /\ Constructed = [type \in Types |-> Constructed[type]]
      /\ Types = {"CamelApp", "CamelAppStatus", "PodInfo", "RuntimeInfo", "ExchangeInfo",
                  "SLIExchangeSuccessRate", "ObservabilityServiceInfo"}
    BY DEF Constructed, Types
<1>2. ASSUME NEW type \in Types
      PROVE  Constructed[type] = [field \in FieldsOf(type) |-> Constructed[type][field]]
    <2>1. \/ Constructed[type] = CamelAppConfiguration
          \/ Constructed[type] = CamelAppStatusConfiguration
          \/ Constructed[type] = PodInfoConfiguration
          \/ Constructed[type] = RuntimeInfoConfiguration
          \/ Constructed[type] = ExchangeInfoConfiguration
          \/ Constructed[type] = SLIExchangeSuccessRateConfiguration
          \/ Constructed[type] = ObservabilityServiceInfoConfiguration
        BY <1>1 DEF Constructed
    <2> QED BY <2>1 DEF FieldsOf, CamelAppConfiguration, CamelAppStatusConfiguration,
            PodInfoConfiguration, RuntimeInfoConfiguration, ExchangeInfoConfiguration,
            SLIExchangeSuccessRateConfiguration, ObservabilityServiceInfoConfiguration
<1> QED BY <1>1, <1>2 DEF Shaped

(* A call changes one field of one struct.                                 *)
LEMMA WithShaped ==
    ASSUME NEW configurations, Shaped(configurations), NEW call \in Calls
    PROVE  /\ Shaped(With(configurations, call))
           /\ \A type \in Types : \A field \in FieldsOf(type) :
                With(configurations, call)[type][field] =
                    IF call.on = type /\ call.field = field
                    THEN Becomes(configurations[type][field], configurations, call)
                    ELSE configurations[type][field]
           /\ \A type \in Types \ {call.on} :
                With(configurations, call)[type] = configurations[type]
<1> DEFINE on == call.on
           field == call.field
           value == Becomes(configurations[on][field], configurations, call)
           struct == [configurations[on] EXCEPT ![field] = value]
           result == With(configurations, call)
<1>1. on \in Types /\ field \in FieldsOf(on)
    BY CallsAssumption DEF Types, FieldsOf
<1>2. result = [configurations EXCEPT ![on] = struct]
    BY DEF With
<1>3. /\ configurations = [type \in Types |-> configurations[type]]
      /\ \A type \in Types :
            configurations[type] = [f \in FieldsOf(type) |-> configurations[type][f]]
    BY DEF Shaped
<1> HIDE DEF on, field, value, result
<1>4. /\ struct = [f \in FieldsOf(on) |-> struct[f]]
      /\ struct[field] = value
      /\ \A f \in FieldsOf(on) \ {field} : struct[f] = configurations[on][f]
    BY <1>1, <1>3
<1> HIDE DEF struct
<1>5. /\ result = [type \in Types |-> result[type]]
      /\ result[on] = struct
      /\ \A type \in Types \ {on} : result[type] = configurations[type]
    BY <1>1, <1>2, <1>3
<1>6. Shaped(result)
    <2>1. ASSUME NEW type \in Types
          PROVE  result[type] = [f \in FieldsOf(type) |-> result[type][f]]
        BY <1>3, <1>4, <1>5
    <2> QED BY <1>5, <2>1 DEF Shaped
<1>7. ASSUME NEW type \in Types, NEW f \in FieldsOf(type)
      PROVE  result[type][f] =
                IF on = type /\ field = f
                THEN Becomes(configurations[type][f], configurations, call)
                ELSE configurations[type][f]
    BY <1>4, <1>5 DEF value
<1> QED BY <1>5, <1>6, <1>7 DEF on, field, result

(* And calls leave them so.                                                *)
LEMMA RunShaped ==
    ASSUME NEW n \in Nat, NEW calls \in [1 .. n -> Calls], NEW state, IsRun(state, calls, n)
    PROVE  \A k \in 0 .. n : Shaped(state[k])
<1> DEFINE good == {k \in 0 .. n : Shaped(state[k])}
<1>1. 0 \in good
    BY ConstructedShaped DEF IsRun
<1>2. ASSUME NEW k \in 1 .. n, k - 1 \in good PROVE k \in good
    BY <1>2, WithShaped DEF IsRun
<1>3. \A k \in 0 .. n : k \in good
    <2> HIDE DEF good
    <2> QED BY <1>1, <1>2, CountUp
<1> QED BY <1>3

(* What becomes of one field from call to call.                            *)
LEMMA FieldRun ==
    ASSUME NEW n \in Nat, NEW calls \in [1 .. n -> Calls], NEW state, IsRun(state, calls, n),
           NEW type \in Types, NEW field \in FieldsOf(type), NEW k \in 1 .. n
    PROVE  state[k][type][field] =
            IF Made(calls, k, type, field)
            THEN Becomes(state[k - 1][type][field], state[k - 1], calls[k])
            ELSE state[k - 1][type][field]
<1>1. Shaped(state[k - 1])
    BY RunShaped
<1>2. state[k] = With(state[k - 1], calls[k])
    BY DEF IsRun
<1>3. calls[k] \in Calls
    OBVIOUS
<1> DEFINE before == state[k - 1]
           after == With(before, calls[k])
<1>4. after[type][field] =
        IF calls[k].on = type /\ calls[k].field = field
        THEN Becomes(before[type][field], before, calls[k]) ELSE before[type][field]
    <2> HIDE DEF before
    <2>1. Shaped(before)
        BY <1>1 DEF before
    <2> QED BY <1>3, <2>1, WithShaped
<1> QED BY <1>2, <1>4 DEF Made

(* Which of the With functions a call is.                                  *)
LEMMA BecomesWhat ==
    ASSUME NEW old, NEW configurations, NEW call
    PROVE  /\ call.field = "Labels" =>
                Becomes(old, configurations, call) = WithLabels(old, call.value)
           /\ call.field = "Finalizers" =>
                Becomes(old, configurations, call) = WithFinalizers(old, call.value)
           /\ call.field = "Conditions" =>
                Becomes(old, configurations, call) = WithConditions(old, call.value)
           /\ call.field = "Pods" =>
                Becomes(old, configurations, call) = WithPods(old, configurations, call.value)
           /\ (/\ call.field # "Labels" /\ call.field # "Finalizers"
               /\ call.field # "Conditions" /\ call.field # "Pods") =>
                Becomes(old, configurations, call) = call.value
<1> DEFINE labels == call.field = "Labels"
           finalizers == call.field = "Finalizers"
           conditions == call.field = "Conditions"
           pods == call.field = "Pods"
<1>1. Becomes(old, configurations, call) =
        CASE labels -> WithLabels(old, call.value)
          [] finalizers -> WithFinalizers(old, call.value)
          [] conditions -> WithConditions(old, call.value)
          [] pods -> WithPods(old, configurations, call.value)
          [] OTHER -> call.value
    BY DEF Becomes
<1>2. /\ ~(labels /\ finalizers) /\ ~(labels /\ conditions) /\ ~(labels /\ pods)
      /\ ~(finalizers /\ conditions) /\ ~(finalizers /\ pods) /\ ~(conditions /\ pods)
    OBVIOUS
<1> HIDE DEF labels, finalizers, conditions, pods
<1>3. CASE labels
    BY <1>1, <1>2, <1>3 DEF labels
<1>4. CASE finalizers
    BY <1>1, <1>2, <1>4 DEF finalizers
<1>5. CASE conditions
    BY <1>1, <1>2, <1>5 DEF conditions
<1>6. CASE pods
    BY <1>1, <1>2, <1>6 DEF pods
<1>7. CASE ~labels /\ ~finalizers /\ ~conditions /\ ~pods
    BY <1>1, <1>7 DEF labels, finalizers, conditions, pods
<1> QED BY <1>3, <1>4, <1>5, <1>6, <1>7

(* A field with a value or a pointer.                                      *)
Single(field) ==
    field # "Labels" /\ field # "Finalizers" /\ field # "Conditions" /\ field # "Pods"

(* It is set by each of its calls.                                         *)
LEMMA SingleRun ==
    ASSUME NEW n \in Nat, NEW calls \in [1 .. n -> Calls], NEW state, IsRun(state, calls, n),
           NEW type \in Types, NEW field \in FieldsOf(type), Single(field), NEW k \in 1 .. n
    PROVE  state[k][type][field] =
            IF Made(calls, k, type, field) THEN calls[k].value ELSE state[k - 1][type][field]
BY FieldRun, BecomesWhat DEF Made, Single

(* Hence it holds the value of the last one.                               *)
LEMMA SingleField ==
    ASSUME NEW n \in Nat, NEW calls \in [1 .. n -> Calls], NEW state, IsRun(state, calls, n),
           NEW type \in Types, NEW field \in FieldsOf(type), Single(field)
    PROVE  \A k \in 0 .. n : state[k][type][field] =
            LastValue(calls, type, field, k, Constructed[type][field])
<1> DEFINE values == [k \in 0 .. n |-> state[k][type][field]]
<1>1. values[0] = Constructed[type][field]
    BY DEF IsRun
<1>2. ASSUME NEW k \in 1 .. n
      PROVE  values[k] = IF Made(calls, k, type, field) THEN calls[k].value ELSE values[k - 1]
    <2>1. values[k] = state[k][type][field] /\ values[k - 1] = state[k - 1][type][field]
        OBVIOUS
    <2> HIDE DEF values
    <2> QED BY <2>1, SingleRun
<1>3. \A k \in 0 .. n :
        values[k] = LastValue(calls, type, field, k, Constructed[type][field])
    <2> HIDE DEF values
    <2>1. Sets(values, calls, n, type, field, Constructed[type][field])
        BY <1>1, <1>2 DEF Sets
    <2> QED BY <2>1, LastValueKept
<1> QED BY <1>3

(* A pointer is nil or points to the configuration of its type.            *)
LEMMA PointerField ==
    ASSUME NEW n \in Nat, NEW calls \in [1 .. n -> Calls], NEW state, IsRun(state, calls, n),
           NEW type \in Types, NEW field \in FieldsOf(type), Single(field), NEW target,
           <<type, field, target>> \in Pointers, Constructed[type][field] = Nil
    PROVE  \A k \in 0 .. n : state[k][type][field] \in {target, Nil}
<1> DEFINE good == {k \in 0 .. n : state[k][type][field] \in {target, Nil}}
<1>1. 0 \in good
    BY DEF IsRun
<1>2. ASSUME NEW k \in 1 .. n, k - 1 \in good PROVE k \in good
    <2>1. calls[k] \in Calls
        OBVIOUS
    <2>2. Made(calls, k, type, field) => calls[k].value \in {target, Nil}
        <3> DEFINE p == <<type, field, target>>
        <3>1. p \in Pointers /\ p[1] = type /\ p[2] = field /\ p[3] = target
            OBVIOUS
        <3> HIDE DEF p
        <3> QED BY <2>1, <3>1, CallsAssumption DEF Made
    <2> QED BY <1>2, <2>2, SingleRun
<1>3. \A k \in 0 .. n : k \in good
    <2> HIDE DEF good
    <2> QED BY <1>1, <1>2, CountUp
<1> QED BY <1>3

(* The labels hold all entries.                                            *)
LEMMA LabelsField ==
    ASSUME NEW n \in Nat, NEW calls \in [1 .. n -> Calls], NEW state, IsRun(state, calls, n)
    PROVE  state[n]["CamelApp"]["Labels"] = Entries(calls, "CamelApp", "Labels", n)
<1> DEFINE type == "CamelApp"
           field == "Labels"
           maps == [k \in 0 .. n |-> state[k][type][field]]
<1>1. type \in Types /\ field \in FieldsOf(type) /\ Constructed[type][field] = [k \in {} |-> Nil]
    BY DEF Types, FieldsOf, Constructed, CamelAppConfiguration
<1>2. maps[0] = [key \in {} |-> Nil]
    BY <1>1 DEF IsRun
<1>3. \A k \in 1 .. n : Made(calls, k, type, field) => calls[k].field = "Labels"
    BY DEF Made
<1> HIDE DEF type, field
<1>4. ASSUME NEW k \in 1 .. n
      PROVE  maps[k] = IF Made(calls, k, type, field)
                       THEN WithLabels(maps[k - 1], calls[k].value) ELSE maps[k - 1]
    <2>1. maps[k] = state[k][type][field] /\ maps[k - 1] = state[k - 1][type][field]
        OBVIOUS
    <2> HIDE DEF maps
    <2> QED BY <1>1, <1>3, <2>1, FieldRun, BecomesWhat
<1>5. maps[n] = Entries(calls, type, field, n)
    <2> HIDE DEF maps
    <2>1. PutsAll(maps, calls, n, type, field)
        BY <1>2, <1>4 DEF PutsAll
    <2> QED BY <2>1, EntriesKept
<1> QED BY <1>5 DEF type, field

(* Each of the lists.                                                      *)
Lengthens(state, calls, n, type, field, provided) ==
    \A k \in 1 .. n : Made(calls, k, type, field) =>
        Becomes(state[k - 1][type][field], state[k - 1], calls[k]) =
            Append(state[k - 1][type][field], provided[k])

(* A list holds what the calls provided.                                   *)
LEMMA ListField ==
    ASSUME NEW n \in Nat, NEW calls \in [1 .. n -> Calls], NEW state, IsRun(state, calls, n),
           NEW type \in Types, NEW field \in FieldsOf(type), NEW provided,
           Constructed[type][field] = <<>>,
           Lengthens(state, calls, n, type, field, provided)
    PROVE  state[n][type][field] = Provisions(calls, type, field, n, n, provided)
<1> DEFINE lists == [k \in 0 .. n |-> state[k][type][field]]
<1>1. lists[0] = <<>>
    BY DEF IsRun
<1>2. ASSUME NEW k \in 1 .. n
      PROVE  lists[k] = IF Made(calls, k, type, field)
                        THEN Append(lists[k - 1], provided[k]) ELSE lists[k - 1]
    <2>1. lists[k] = state[k][type][field] /\ lists[k - 1] = state[k - 1][type][field]
        OBVIOUS
    <2> HIDE DEF lists
    <2> QED BY <2>1, FieldRun DEF Lengthens
<1>3. lists[n] = Provisions(calls, type, field, n, n, provided)
    <2> HIDE DEF lists
    <2>1. Appends(lists, calls, n, type, field, provided)
        BY <1>1, <1>2 DEF Appends
    <2> QED BY <2>1, ProvisionsKept
<1> QED BY <1>3

-----------------------------------------------------------------------------
(* What was built, struct by struct.                                       *)

(* The types have the fields the encoding reads.                           *)
LEMMA TypesAndFields ==
    /\ "CamelApp" \in Types /\ "CamelAppStatus" \in Types /\ "PodInfo" \in Types
    /\ "RuntimeInfo" \in Types /\ "ExchangeInfo" \in Types
    /\ "SLIExchangeSuccessRate" \in Types /\ "ObservabilityServiceInfo" \in Types
    /\ FieldsOf("CamelApp") = {"Name", "Labels", "Finalizers", "Status"}
    /\ FieldsOf("CamelAppStatus") = {"Phase", "Pods", "SuccessRate", "Conditions"}
    /\ FieldsOf("PodInfo") = {"Name", "ObservabilityService", "Runtime"}
    /\ FieldsOf("RuntimeInfo") = {"Status", "Exchange"}
    /\ FieldsOf("ExchangeInfo") = {"Total"}
    /\ FieldsOf("SLIExchangeSuccessRate") = {"Status"}
    /\ FieldsOf("ObservabilityServiceInfo") = {"HealthPort"}
BY DEF Types, FieldsOf, Constructed, CamelAppConfiguration, CamelAppStatusConfiguration,
    PodInfoConfiguration, RuntimeInfoConfiguration, ExchangeInfoConfiguration,
    SLIExchangeSuccessRateConfiguration, ObservabilityServiceInfoConfiguration

(* The fields that start empty.                                            *)
LEMMA Empty ==
    /\ Constructed["CamelApp"]["Name"] = "given" /\ Constructed["CamelApp"]["Status"] = Nil
    /\ Constructed["CamelApp"]["Finalizers"] = <<>>
    /\ Constructed["CamelAppStatus"]["Phase"] = Nil
    /\ Constructed["CamelAppStatus"]["Pods"] = <<>>
    /\ Constructed["CamelAppStatus"]["SuccessRate"] = Nil
    /\ Constructed["CamelAppStatus"]["Conditions"] = <<>>
    /\ Constructed["PodInfo"]["Name"] = Nil /\ Constructed["PodInfo"]["Runtime"] = Nil
    /\ Constructed["PodInfo"]["ObservabilityService"] = Nil
    /\ Constructed["RuntimeInfo"]["Status"] = Nil /\ Constructed["RuntimeInfo"]["Exchange"] = Nil
    /\ Constructed["ExchangeInfo"]["Total"] = Nil
    /\ Constructed["SLIExchangeSuccessRate"]["Status"] = Nil
    /\ Constructed["ObservabilityServiceInfo"]["HealthPort"] = Nil
BY DEF Constructed, CamelAppConfiguration, CamelAppStatusConfiguration,
    PodInfoConfiguration, RuntimeInfoConfiguration, ExchangeInfoConfiguration,
    SLIExchangeSuccessRateConfiguration, ObservabilityServiceInfoConfiguration

(* A struct is the record of its fields.                                   *)
LEMMA Structs ==
    ASSUME NEW c, Shaped(c)
    PROVE  /\ c["CamelApp"] =
                [Name |-> c["CamelApp"]["Name"], Labels |-> c["CamelApp"]["Labels"],
                 Finalizers |-> c["CamelApp"]["Finalizers"], Status |-> c["CamelApp"]["Status"]]
           /\ c["CamelAppStatus"] =
                [Phase |-> c["CamelAppStatus"]["Phase"], Pods |-> c["CamelAppStatus"]["Pods"],
                 SuccessRate |-> c["CamelAppStatus"]["SuccessRate"],
                 Conditions |-> c["CamelAppStatus"]["Conditions"]]
           /\ c["PodInfo"] =
                [Name |-> c["PodInfo"]["Name"],
                 ObservabilityService |-> c["PodInfo"]["ObservabilityService"],
                 Runtime |-> c["PodInfo"]["Runtime"]]
           /\ c["RuntimeInfo"] =
                [Status |-> c["RuntimeInfo"]["Status"], Exchange |-> c["RuntimeInfo"]["Exchange"]]
           /\ c["ExchangeInfo"] = [Total |-> c["ExchangeInfo"]["Total"]]
           /\ c["SLIExchangeSuccessRate"] = [Status |-> c["SLIExchangeSuccessRate"]["Status"]]
           /\ c["ObservabilityServiceInfo"] =
                [HealthPort |-> c["ObservabilityServiceInfo"]["HealthPort"]]
<1>1. \A type \in Types : c[type] = [field \in FieldsOf(type) |-> c[type][field]]
    BY DEF Shaped
<1>2. c["CamelApp"] = [field \in {"Name", "Labels", "Finalizers", "Status"} |-> c["CamelApp"][field]]
    BY <1>1, TypesAndFields
<1>3. c["CamelAppStatus"] =
        [field \in {"Phase", "Pods", "SuccessRate", "Conditions"} |-> c["CamelAppStatus"][field]]
    BY <1>1, TypesAndFields
<1>4. c["PodInfo"] = [field \in {"Name", "ObservabilityService", "Runtime"} |-> c["PodInfo"][field]]
    BY <1>1, TypesAndFields
<1>5. c["RuntimeInfo"] = [field \in {"Status", "Exchange"} |-> c["RuntimeInfo"][field]]
    BY <1>1, TypesAndFields
<1>6. /\ c["ExchangeInfo"] = [field \in {"Total"} |-> c["ExchangeInfo"][field]]
      /\ c["SLIExchangeSuccessRate"] = [field \in {"Status"} |-> c["SLIExchangeSuccessRate"][field]]
      /\ c["ObservabilityServiceInfo"] =
            [field \in {"HealthPort"} |-> c["ObservabilityServiceInfo"][field]]
    BY <1>1, TypesAndFields
<1>7. \A f : f = [field \in {"Name", "Labels", "Finalizers", "Status"} |-> f[field]] =>
        f = [Name |-> f["Name"], Labels |-> f["Labels"],
             Finalizers |-> f["Finalizers"], Status |-> f["Status"]]
    OBVIOUS
<1>8. \A f : f = [field \in {"Phase", "Pods", "SuccessRate", "Conditions"} |-> f[field]] =>
        f = [Phase |-> f["Phase"], Pods |-> f["Pods"], SuccessRate |-> f["SuccessRate"],
             Conditions |-> f["Conditions"]]
    OBVIOUS
<1>9. \A f : f = [field \in {"Name", "ObservabilityService", "Runtime"} |-> f[field]] =>
        f = [Name |-> f["Name"], ObservabilityService |-> f["ObservabilityService"],
             Runtime |-> f["Runtime"]]
    OBVIOUS
<1>10. \A f : f = [field \in {"Status", "Exchange"} |-> f[field]] =>
        f = [Status |-> f["Status"], Exchange |-> f["Exchange"]]
    OBVIOUS
<1>11. \A f : /\ f = [field \in {"Total"} |-> f[field]] => f = [Total |-> f["Total"]]
              /\ f = [field \in {"Status"} |-> f[field]] => f = [Status |-> f["Status"]]
              /\ f = [field \in {"HealthPort"} |-> f[field]] => f = [HealthPort |-> f["HealthPort"]]
    OBVIOUS
<1> QED BY <1>2, <1>3, <1>4, <1>5, <1>6, <1>7, <1>8, <1>9, <1>10, <1>11

(* Encoding follows the pointers.                                          *)
LEMMA TypesNotNil ==
    /\ "CamelAppStatus" # Nil /\ "RuntimeInfo" # Nil /\ "ExchangeInfo" # Nil
    /\ "SLIExchangeSuccessRate" # Nil /\ "ObservabilityServiceInfo" # Nil
BY CallsAssumption, TypesAndFields DEF Types

(* The runtime of a pod with its exchange.                                 *)
LEMMA RuntimeEncoded ==
    ASSUME NEW c, NEW status, NEW exchange, exchange = "ExchangeInfo" \/ exchange = Nil
    PROVE  RuntimeInfoJSON(c, [Status |-> status, Exchange |-> exchange]) =
            [Status |-> status, Exchange |-> IfSet(exchange, c["ExchangeInfo"])]
<1>1. Pointed(c, exchange, Unnested) = IfSet(exchange, c["ExchangeInfo"])
    BY TypesNotNil DEF Pointed, Unnested, IfSet
<1> DEFINE struct == [Status |-> status, Exchange |-> exchange]
<1>2. RuntimeInfoJSON(c, struct) = [struct EXCEPT !.Exchange = Pointed(c, exchange, Unnested)]
    BY DEF RuntimeInfoJSON
<1> QED BY <1>1, <1>2

(* A pod with its runtime and its observability service.                   *)
LEMMA PodEncoded ==
    ASSUME NEW c, NEW name, NEW service, NEW runtime,
           service = "ObservabilityServiceInfo" \/ service = Nil,
           runtime = "RuntimeInfo" \/ runtime = Nil
    PROVE  PodInfoJSON(c, [Name |-> name, ObservabilityService |-> service, Runtime |-> runtime]) =
            [Name |-> name,
             ObservabilityService |-> IfSet(service, c["ObservabilityServiceInfo"]),
             Runtime |-> IfSet(runtime, RuntimeInfoJSON(c, c["RuntimeInfo"]))]
<1> DEFINE struct == [Name |-> name, ObservabilityService |-> service, Runtime |-> runtime]
           sent == Pointed(c, service, Unnested)
           ran == Pointed(c, runtime, RuntimeInfoJSON)
<1>1. sent = IfSet(service, c["ObservabilityServiceInfo"])
    BY TypesNotNil DEF Pointed, Unnested, IfSet
<1>2. ran = IfSet(runtime, RuntimeInfoJSON(c, c["RuntimeInfo"]))
    BY TypesNotNil DEF Pointed, IfSet
<1>3. PodInfoJSON(c, struct) = [struct EXCEPT !.ObservabilityService = sent, !.Runtime = ran]
    BY DEF PodInfoJSON
<1> HIDE DEF sent, ran
<1>4. PodInfoJSON(c, struct) = [Name |-> name, ObservabilityService |-> sent, Runtime |-> ran]
    BY <1>3
<1> QED BY <1>1, <1>2, <1>4

(* A status with its pods and its success rate.                            *)
LEMMA StatusEncoded ==
    ASSUME NEW c, NEW phase, NEW pods, NEW rate, NEW conditions,
           rate = "SLIExchangeSuccessRate" \/ rate = Nil
    PROVE  CamelAppStatusJSON(c, [Phase |-> phase, Pods |-> pods, SuccessRate |-> rate,
                                  Conditions |-> conditions]) =
            [Phase |-> phase, Pods |-> [i \in DOMAIN pods |-> PodInfoJSON(c, pods[i])],
             SuccessRate |-> IfSet(rate, c["SLIExchangeSuccessRate"]), Conditions |-> conditions]
<1> DEFINE struct == [Phase |-> phase, Pods |-> pods, SuccessRate |-> rate, Conditions |-> conditions]
           sent == [i \in DOMAIN pods |-> PodInfoJSON(c, pods[i])]
           rated == Pointed(c, rate, Unnested)
<1>1. rated = IfSet(rate, c["SLIExchangeSuccessRate"])
    BY TypesNotNil DEF Pointed, Unnested, IfSet
<1>2. CamelAppStatusJSON(c, struct) = [struct EXCEPT !.Pods = sent, !.SuccessRate = rated]
    BY DEF CamelAppStatusJSON
<1> HIDE DEF sent, rated
<1>3. CamelAppStatusJSON(c, struct) =
        [Phase |-> phase, Pods |-> sent, SuccessRate |-> rated, Conditions |-> conditions]
    BY <1>2
<1> QED BY <1>1, <1>3 DEF sent

-----------------------------------------------------------------------------
(* Fields that are set once more hold what was set last.                   *)
LEMMA FinalFields ==
    ASSUME NEW n \in Nat, NEW calls \in [1 .. n -> Calls], NEW state, IsRun(state, calls, n)
    PROVE  /\ state[n]["CamelApp"]["Name"] = LastValue(calls, "CamelApp", "Name", n, "given")
           /\ state[n]["CamelApp"]["Status"] = Final(calls, "CamelApp", "Status")
           /\ state[n]["CamelAppStatus"]["Phase"] = Final(calls, "CamelAppStatus", "Phase")
           /\ state[n]["CamelAppStatus"]["SuccessRate"] =
                Final(calls, "CamelAppStatus", "SuccessRate")
           /\ state[n]["RuntimeInfo"]["Status"] = Final(calls, "RuntimeInfo", "Status")
           /\ state[n]["RuntimeInfo"]["Exchange"] = Final(calls, "RuntimeInfo", "Exchange")
           /\ state[n]["ExchangeInfo"]["Total"] = Final(calls, "ExchangeInfo", "Total")
           /\ state[n]["SLIExchangeSuccessRate"]["Status"] =
                Final(calls, "SLIExchangeSuccessRate", "Status")
           /\ state[n]["ObservabilityServiceInfo"]["HealthPort"] =
                Final(calls, "ObservabilityServiceInfo", "HealthPort")
<1>1. Len(calls) = n
    OBVIOUS
<1>2. n \in 0 .. n
    OBVIOUS
<1>3. ASSUME NEW type \in Types, NEW field \in FieldsOf(type), Single(field)
      PROVE  state[n][type][field] = LastValue(calls, type, field, n, Constructed[type][field])
    <2>1. \A k \in 0 .. n : state[k][type][field] =
            LastValue(calls, type, field, k, Constructed[type][field])
        BY <1>3, SingleField
    <2> QED BY <1>2, <2>1
<1>4. /\ Single("Name") /\ Single("Status") /\ Single("Phase") /\ Single("SuccessRate")
      /\ Single("Exchange") /\ Single("Total") /\ Single("HealthPort")
    BY DEF Single
<1> QED BY <1>1, <1>3, <1>4, TypesAndFields, Empty DEF Final

(* Pointers that were set point to the configuration of their type.        *)
LEMMA FinalPointers ==
    ASSUME NEW n \in Nat, NEW calls \in [1 .. n -> Calls], NEW state, IsRun(state, calls, n),
           NEW k \in 0 .. n
    PROVE  /\ state[k]["CamelApp"]["Status"] \in {"CamelAppStatus", Nil}
           /\ state[k]["CamelAppStatus"]["SuccessRate"] \in {"SLIExchangeSuccessRate", Nil}
           /\ state[k]["PodInfo"]["ObservabilityService"] \in {"ObservabilityServiceInfo", Nil}
           /\ state[k]["PodInfo"]["Runtime"] \in {"RuntimeInfo", Nil}
           /\ state[k]["RuntimeInfo"]["Exchange"] \in {"ExchangeInfo", Nil}
<1>1. ASSUME NEW type \in Types, NEW field \in FieldsOf(type), Single(field), NEW target,
             <<type, field, target>> \in Pointers, Constructed[type][field] = Nil
      PROVE  state[k][type][field] \in {target, Nil}
    BY <1>1, PointerField
<1>2. /\ Single("Status") /\ Single("SuccessRate") /\ Single("Exchange")
      /\ Single("ObservabilityService") /\ Single("Runtime")
    BY DEF Single
<1>3. /\ <<"CamelApp", "Status", "CamelAppStatus">> \in Pointers
      /\ <<"CamelAppStatus", "SuccessRate", "SLIExchangeSuccessRate">> \in Pointers
      /\ <<"PodInfo", "ObservabilityService", "ObservabilityServiceInfo">> \in Pointers
      /\ <<"PodInfo", "Runtime", "RuntimeInfo">> \in Pointers
      /\ <<"RuntimeInfo", "Exchange", "ExchangeInfo">> \in Pointers
    BY DEF Pointers
<1>4. state[k]["CamelApp"]["Status"] \in {"CamelAppStatus", Nil}
    BY <1>1, <1>2, <1>3, TypesAndFields, Empty
<1>5. state[k]["CamelAppStatus"]["SuccessRate"] \in {"SLIExchangeSuccessRate", Nil}
    BY <1>1, <1>2, <1>3, TypesAndFields, Empty
<1>6. state[k]["PodInfo"]["ObservabilityService"] \in {"ObservabilityServiceInfo", Nil}
    BY <1>1, <1>2, <1>3, TypesAndFields, Empty
<1>7. state[k]["PodInfo"]["Runtime"] \in {"RuntimeInfo", Nil}
    BY <1>1, <1>2, <1>3, TypesAndFields, Empty
<1>8. state[k]["RuntimeInfo"]["Exchange"] \in {"ExchangeInfo", Nil}
    BY <1>1, <1>2, <1>3, TypesAndFields, Empty
<1> QED BY <1>4, <1>5, <1>6, <1>7, <1>8

(* The structs that pointers lead to are encoded as asked.                 *)
LEMMA StructsBuilt ==
    ASSUME NEW n \in Nat, NEW calls \in [1 .. n -> Calls], NEW state, IsRun(state, calls, n)
    PROVE  /\ state[n]["ExchangeInfo"] = AskedExchange(calls)
           /\ state[n]["ObservabilityServiceInfo"] = AskedObservability(calls)
           /\ state[n]["SLIExchangeSuccessRate"] = AskedRate(calls)
           /\ RuntimeInfoJSON(state[n], state[n]["RuntimeInfo"]) = AskedRuntime(calls)
<1> DEFINE final == state[n]
           status == Final(calls, "RuntimeInfo", "Status")
           exchange == Final(calls, "RuntimeInfo", "Exchange")
<1>1. Shaped(final)
    BY RunShaped
<1>2. /\ final["RuntimeInfo"]["Status"] = status
      /\ final["RuntimeInfo"]["Exchange"] = exchange
      /\ final["ExchangeInfo"]["Total"] = Final(calls, "ExchangeInfo", "Total")
      /\ final["SLIExchangeSuccessRate"]["Status"] =
            Final(calls, "SLIExchangeSuccessRate", "Status")
      /\ final["ObservabilityServiceInfo"]["HealthPort"] =
            Final(calls, "ObservabilityServiceInfo", "HealthPort")
    BY FinalFields
<1>3. exchange = "ExchangeInfo" \/ exchange = Nil
    <2>1. n \in 0 .. n
        OBVIOUS
    <2>2. final["RuntimeInfo"]["Exchange"] \in {"ExchangeInfo", Nil}
        BY <2>1, FinalPointers
    <2> QED BY <1>2, <2>2
<1> HIDE DEF final, status, exchange
<1>4. final["ExchangeInfo"] = AskedExchange(calls)
    BY <1>1, <1>2, Structs DEF AskedExchange
<1>5. final["ObservabilityServiceInfo"] = AskedObservability(calls)
    BY <1>1, <1>2, Structs DEF AskedObservability
<1>6. final["SLIExchangeSuccessRate"] = AskedRate(calls)
    BY <1>1, <1>2, Structs DEF AskedRate
<1>7. RuntimeInfoJSON(final, final["RuntimeInfo"]) = AskedRuntime(calls)
    <2>1. final["RuntimeInfo"] = [Status |-> status, Exchange |-> exchange]
        BY <1>1, <1>2, Structs
    <2>2. RuntimeInfoJSON(final, [Status |-> status, Exchange |-> exchange]) =
            [Status |-> status, Exchange |-> IfSet(exchange, final["ExchangeInfo"])]
        BY <1>3, RuntimeEncoded
    <2> QED BY <1>4, <2>1, <2>2 DEF AskedRuntime, status, exchange
<1> QED BY <1>4, <1>5, <1>6, <1>7 DEF final

(* A pod as it was when it was added, encoded in the end.                  *)
LEMMA PodBuilt ==
    ASSUME NEW n \in Nat, NEW calls \in [1 .. n -> Calls], NEW state, IsRun(state, calls, n),
           NEW k \in 0 .. n
    PROVE  PodInfoJSON(state[n], state[k]["PodInfo"]) = AskedPod(calls, k)
<1> DEFINE final == state[n]
           name == LastValue(calls, "PodInfo", "Name", k, Nil)
           service == LastValue(calls, "PodInfo", "ObservabilityService", k, Nil)
           runtime == LastValue(calls, "PodInfo", "Runtime", k, Nil)
<1>1. Shaped(state[k])
    BY RunShaped
<1>2. ASSUME NEW type \in Types, NEW field \in FieldsOf(type), Single(field)
      PROVE  state[k][type][field] = LastValue(calls, type, field, k, Constructed[type][field])
    <2>1. \A l \in 0 .. n : state[l][type][field] =
            LastValue(calls, type, field, l, Constructed[type][field])
        BY <1>2, SingleField
    <2> QED BY <2>1
<1>3. Single("Name") /\ Single("ObservabilityService") /\ Single("Runtime")
    BY DEF Single
<1>4. /\ state[k]["PodInfo"]["Name"] = name
      /\ state[k]["PodInfo"]["ObservabilityService"] = service
      /\ state[k]["PodInfo"]["Runtime"] = runtime
    BY <1>2, <1>3, TypesAndFields, Empty
<1>5. state[k]["PodInfo"] =
        [Name |-> name, ObservabilityService |-> service, Runtime |-> runtime]
    BY <1>1, <1>4, Structs
<1>6. /\ service = "ObservabilityServiceInfo" \/ service = Nil
      /\ runtime = "RuntimeInfo" \/ runtime = Nil
    BY <1>4, FinalPointers
<1> HIDE DEF name, service, runtime
<1>7. PodInfoJSON(final, [Name |-> name, ObservabilityService |-> service, Runtime |-> runtime]) =
        [Name |-> name,
         ObservabilityService |-> IfSet(service, final["ObservabilityServiceInfo"]),
         Runtime |-> IfSet(runtime, RuntimeInfoJSON(final, final["RuntimeInfo"]))]
    BY <1>6, PodEncoded
<1>8. AskedPod(calls, k) =
        [Name |-> name, ObservabilityService |-> IfSet(service, AskedObservability(calls)),
         Runtime |-> IfSet(runtime, AskedRuntime(calls))]
    BY DEF AskedPod, name, service, runtime
<1> QED BY <1>5, <1>7, <1>8, StructsBuilt

(* The lists: finalizers and conditions as they were given, pods as they   *)
(* were when they were added.                                              *)
LEMMA ListsBuilt ==
    ASSUME NEW n \in Nat, NEW calls \in [1 .. n -> Calls], NEW state, IsRun(state, calls, n)
    PROVE  /\ state[n]["CamelApp"]["Finalizers"] =
                Provisions(calls, "CamelApp", "Finalizers", n, n, [k \in 1 .. n |-> calls[k].value])
           /\ state[n]["CamelAppStatus"]["Conditions"] =
                Provisions(calls, "CamelAppStatus", "Conditions", n, n,
                    [k \in 1 .. n |-> calls[k].value])
           /\ state[n]["CamelAppStatus"]["Pods"] =
                Provisions(calls, "CamelAppStatus", "Pods", n, n,
                    [k \in 1 .. n |-> state[k]["PodInfo"]])
<1> DEFINE values == [k \in 1 .. n |-> calls[k].value]
           pods == [k \in 1 .. n |-> state[k]["PodInfo"]]
           given(k, type, field) == Becomes(state[k - 1][type][field], state[k - 1], calls[k])
           longer(k, type, field, provided) == Append(state[k - 1][type][field], provided[k])
<1>1. ASSUME NEW k \in 1 .. n, Made(calls, k, "CamelApp", "Finalizers")
      PROVE  given(k, "CamelApp", "Finalizers") = longer(k, "CamelApp", "Finalizers", values)
    <2>1. calls[k].field = "Finalizers" /\ values[k] = calls[k].value
        BY <1>1 DEF Made
    <2> HIDE DEF values
    <2> QED BY <2>1, BecomesWhat DEF WithFinalizers
<1>2. ASSUME NEW k \in 1 .. n, Made(calls, k, "CamelAppStatus", "Conditions")
      PROVE  given(k, "CamelAppStatus", "Conditions") =
                longer(k, "CamelAppStatus", "Conditions", values)
    <2>1. calls[k].field = "Conditions" /\ values[k] = calls[k].value
        BY <1>2 DEF Made
    <2> HIDE DEF values
    <2> QED BY <2>1, BecomesWhat DEF WithConditions
<1>3. ASSUME NEW k \in 1 .. n, Made(calls, k, "CamelAppStatus", "Pods")
      PROVE  given(k, "CamelAppStatus", "Pods") = longer(k, "CamelAppStatus", "Pods", pods)
    <2>1. calls[k] \in Calls
        OBVIOUS
    <2>2. /\ calls[k].on = "CamelAppStatus" /\ calls[k].field = "Pods"
          /\ calls[k].value = "PodInfo"
        BY <1>3, <2>1, CallsAssumption DEF Made
    <2>3. state[k]["PodInfo"] = state[k - 1]["PodInfo"]
        <3> DEFINE before == state[k - 1]
        <3>1. Shaped(before) /\ state[k] = With(before, calls[k])
            BY RunShaped DEF IsRun
        <3>2. "PodInfo" \in Types \ {calls[k].on}
            BY <2>2, TypesAndFields
        <3> HIDE DEF before
        <3>3. With(before, calls[k])["PodInfo"] = before["PodInfo"]
            BY <2>1, <3>1, <3>2, WithShaped
        <3> QED BY <3>1, <3>3 DEF before
    <2>4. pods[k] = state[k - 1]["PodInfo"]
        BY <2>3
    <2> HIDE DEF pods
    <2> QED BY <2>2, <2>4, BecomesWhat DEF WithPods
<1> HIDE DEF values, pods
<1>4. state[n]["CamelApp"]["Finalizers"] =
        Provisions(calls, "CamelApp", "Finalizers", n, n, values)
    <2>1. Lengthens(state, calls, n, "CamelApp", "Finalizers", values)
        BY <1>1 DEF Lengthens
    <2> QED BY <2>1, ListField, TypesAndFields, Empty
<1>5. state[n]["CamelAppStatus"]["Conditions"] =
        Provisions(calls, "CamelAppStatus", "Conditions", n, n, values)
    <2>1. Lengthens(state, calls, n, "CamelAppStatus", "Conditions", values)
        BY <1>2 DEF Lengthens
    <2> QED BY <2>1, ListField, TypesAndFields, Empty
<1>6. state[n]["CamelAppStatus"]["Pods"] =
        Provisions(calls, "CamelAppStatus", "Pods", n, n, pods)
    <2>1. Lengthens(state, calls, n, "CamelAppStatus", "Pods", pods)
        BY <1>3 DEF Lengthens
    <2> QED BY <2>1, ListField, TypesAndFields, Empty
<1> QED BY <1>4, <1>5, <1>6 DEF values, pods

(* What the calls provided, taken one by one.                              *)
LEMMA NthNumber ==
    ASSUME NEW n \in Nat, NEW calls \in [1 .. n -> Calls], NEW type, NEW field,
           NEW j \in 1 .. Cardinality(Of(calls, type, field, n))
    PROVE  Nth(calls, type, field, n, j) \in 1 .. n
BY NthOf, OfNumbers

(* Values, in the order of their calls.                                    *)
LEMMA ValuesListed ==
    ASSUME NEW n \in Nat, NEW calls \in [1 .. n -> Calls], NEW type, NEW field
    PROVE  Provisions(calls, type, field, n, n, [k \in 1 .. n |-> calls[k].value]) =
            [j \in 1 .. Cardinality(Of(calls, type, field, n)) |->
                calls[Nth(calls, type, field, n, j)].value]
<1> DEFINE values == [k \in 1 .. n |-> calls[k].value]
           size == Cardinality(Of(calls, type, field, n))
           nth(j) == Nth(calls, type, field, n, j)
<1>1. \A k \in 1 .. n : values[k] = calls[k].value
    OBVIOUS
<1>2. \A j \in 1 .. size : nth(j) \in 1 .. n
    BY NthNumber
<1> HIDE DEF values, size, nth
<1>3. \A j \in 1 .. size : values[nth(j)] = calls[nth(j)].value
    BY <1>1, <1>2
<1>4. [j \in 1 .. size |-> values[nth(j)]] = [j \in 1 .. size |-> calls[nth(j)].value]
    BY <1>3
<1> QED BY <1>4 DEF Provisions, values, size, nth

(* Pods, in the order of their calls.                                      *)
LEMMA PodsListed ==
    ASSUME NEW n \in Nat, NEW calls \in [1 .. n -> Calls], NEW state, IsRun(state, calls, n),
           NEW pods, pods = Provisions(calls, "CamelAppStatus", "Pods", n, n,
                                       [k \in 1 .. n |-> state[k]["PodInfo"]])
    PROVE  [j \in DOMAIN pods |-> PodInfoJSON(state[n], pods[j])] =
            [j \in 1 .. Cardinality(Of(calls, "CamelAppStatus", "Pods", n)) |->
                AskedPod(calls, Nth(calls, "CamelAppStatus", "Pods", n, j))]
<1> DEFINE added == [k \in 1 .. n |-> state[k]["PodInfo"]]
           size == Cardinality(Of(calls, "CamelAppStatus", "Pods", n))
           nth(j) == Nth(calls, "CamelAppStatus", "Pods", n, j)
<1>1. \A k \in 1 .. n : PodInfoJSON(state[n], added[k]) = AskedPod(calls, k)
    <2>1. \A k \in 1 .. n : k \in 0 .. n /\ added[k] = state[k]["PodInfo"]
        OBVIOUS
    <2> HIDE DEF added
    <2> QED BY <2>1, PodBuilt
<1>2. \A j \in 1 .. size : nth(j) \in 1 .. n
    BY NthNumber
<1>3. pods = [j \in 1 .. size |-> added[nth(j)]]
    BY DEF Provisions
<1> HIDE DEF added, size, nth
<1>4. DOMAIN pods = 1 .. size /\ \A j \in 1 .. size : pods[j] = added[nth(j)]
    BY <1>3
<1>5. \A j \in 1 .. size : PodInfoJSON(state[n], pods[j]) = AskedPod(calls, nth(j))
    BY <1>1, <1>2, <1>4
<1>6. [j \in DOMAIN pods |-> PodInfoJSON(state[n], pods[j])] =
        [j \in 1 .. size |-> AskedPod(calls, nth(j))]
    BY <1>4, <1>5
<1> QED BY <1>6 DEF size, nth

(* The status is encoded as asked.                                         *)
LEMMA StatusBuilt ==
    ASSUME NEW n \in Nat, NEW calls \in [1 .. n -> Calls], NEW state, IsRun(state, calls, n)
    PROVE  CamelAppStatusJSON(state[n], state[n]["CamelAppStatus"]) = AskedStatus(calls)
<1> DEFINE final == state[n]
           phase == Final(calls, "CamelAppStatus", "Phase")
           rate == Final(calls, "CamelAppStatus", "SuccessRate")
           pods == final["CamelAppStatus"]["Pods"]
           conditions == final["CamelAppStatus"]["Conditions"]
           sent == [j \in DOMAIN pods |-> PodInfoJSON(final, pods[j])]
<1>1. Shaped(final)
    BY RunShaped
<1>2. /\ final["CamelAppStatus"]["Phase"] = phase
      /\ final["CamelAppStatus"]["SuccessRate"] = rate
    BY FinalFields
<1>3. rate = "SLIExchangeSuccessRate" \/ rate = Nil
    <2>1. n \in 0 .. n
        OBVIOUS
    <2>2. final["CamelAppStatus"]["SuccessRate"] \in {"SLIExchangeSuccessRate", Nil}
        BY <2>1, FinalPointers
    <2> QED BY <1>2, <2>2
<1>4. Len(calls) = n
    OBVIOUS
<1>5. conditions = [j \in 1 .. Cardinality(Of(calls, "CamelAppStatus", "Conditions", n)) |->
                        calls[Nth(calls, "CamelAppStatus", "Conditions", n, j)].value]
    <2> DEFINE values == [k \in 1 .. n |-> calls[k].value]
    <2>1. conditions = Provisions(calls, "CamelAppStatus", "Conditions", n, n, values)
        BY ListsBuilt
    <2>2. Provisions(calls, "CamelAppStatus", "Conditions", n, n, values) =
            [j \in 1 .. Cardinality(Of(calls, "CamelAppStatus", "Conditions", n)) |->
                calls[Nth(calls, "CamelAppStatus", "Conditions", n, j)].value]
        BY ValuesListed
    <2> HIDE DEF values, conditions
    <2> QED BY <2>1, <2>2
<1>6. sent = [j \in 1 .. Cardinality(Of(calls, "CamelAppStatus", "Pods", n)) |->
                AskedPod(calls, Nth(calls, "CamelAppStatus", "Pods", n, j))]
    <2>1. pods = Provisions(calls, "CamelAppStatus", "Pods", n, n,
                            [k \in 1 .. n |-> state[k]["PodInfo"]])
        BY ListsBuilt
    <2> HIDE DEF pods
    <2> QED BY <2>1, PodsListed
<1>7. final["SLIExchangeSuccessRate"] = AskedRate(calls)
    BY StructsBuilt
<1>8. AskedStatus(calls) =
        [Phase |-> phase, Pods |-> sent, SuccessRate |-> IfSet(rate, AskedRate(calls)),
         Conditions |-> conditions]
    <2> HIDE DEF sent, conditions
    <2> QED BY <1>4, <1>5, <1>6 DEF AskedStatus, Listed
<1>9. final["CamelAppStatus"] =
        [Phase |-> phase, Pods |-> pods, SuccessRate |-> rate, Conditions |-> conditions]
    <2> HIDE DEF final, phase, rate
    <2> QED BY <1>1, <1>2, Structs
<1> HIDE DEF final, phase, rate, pods, conditions
<1>10. CamelAppStatusJSON(final, [Phase |-> phase, Pods |-> pods, SuccessRate |-> rate,
                                  Conditions |-> conditions]) =
        [Phase |-> phase, Pods |-> sent,
         SuccessRate |-> IfSet(rate, final["SLIExchangeSuccessRate"]), Conditions |-> conditions]
    BY <1>3, StatusEncoded
<1> HIDE DEF sent
<1>11. CamelAppStatusJSON(final, final["CamelAppStatus"]) = AskedStatus(calls)
    BY <1>7, <1>8, <1>9, <1>10
<1> QED BY <1>11 DEF final

-----------------------------------------------------------------------------
(* Whatever calls are made, in any order and number, the CamelApp that is  *)
(* sent is the one the comments of the With functions promise              *)
(* (camelapp.go, camelappstatus.go and the other builders).                *)
THEOREM CallsKeepPromises ==
    ASSUME NEW n \in Nat, NEW calls \in [1 .. n -> Calls]
    PROVE  Built(calls) = Asked(calls)
<1>1. PICK state : IsRun(state, calls, n) /\ FoldLeft(With, Constructed, calls) = state[n]
    BY CallsFold
<1> DEFINE final == state[n]
           name == LastValue(calls, "CamelApp", "Name", n, "given")
           labels == Entries(calls, "CamelApp", "Labels", n)
           finalizers == final["CamelApp"]["Finalizers"]
           status == Final(calls, "CamelApp", "Status")
           sent == Pointed(final, status, CamelAppStatusJSON)
<1>2. Len(calls) = n
    OBVIOUS
<1>3. Shaped(final)
    BY <1>1, RunShaped
<1>4. final["CamelApp"]["Name"] = name /\ final["CamelApp"]["Status"] = status
    BY <1>1, FinalFields
<1>5. final["CamelApp"]["Labels"] = labels
    BY <1>1, LabelsField
<1>6. finalizers = [j \in 1 .. Cardinality(Of(calls, "CamelApp", "Finalizers", n)) |->
                        calls[Nth(calls, "CamelApp", "Finalizers", n, j)].value]
    <2> DEFINE values == [k \in 1 .. n |-> calls[k].value]
    <2>1. finalizers = Provisions(calls, "CamelApp", "Finalizers", n, n, values)
        BY <1>1, ListsBuilt
    <2>2. Provisions(calls, "CamelApp", "Finalizers", n, n, values) =
            [j \in 1 .. Cardinality(Of(calls, "CamelApp", "Finalizers", n)) |->
                calls[Nth(calls, "CamelApp", "Finalizers", n, j)].value]
        BY ValuesListed
    <2> HIDE DEF values, finalizers
    <2> QED BY <2>1, <2>2
<1>7. status = "CamelAppStatus" \/ status = Nil
    <2>1. n \in 0 .. n
        OBVIOUS
    <2>2. final["CamelApp"]["Status"] \in {"CamelAppStatus", Nil}
        BY <1>1, <2>1, FinalPointers
    <2> QED BY <1>4, <2>2
<1>8. CamelAppStatusJSON(final, final["CamelAppStatus"]) = AskedStatus(calls)
    BY <1>1, StatusBuilt
<1>9. sent = IfSet(status, AskedStatus(calls))
    <2> HIDE DEF status, final
    <2> QED BY <1>7, <1>8, TypesNotNil DEF Pointed, IfSet
<1>10. Asked(calls) = [Name |-> name, Labels |-> labels, Finalizers |-> finalizers, Status |-> sent]
    <2> HIDE DEF finalizers, sent
    <2> QED BY <1>2, <1>6, <1>9 DEF Asked, Listed
<1>11. final["CamelApp"] =
        [Name |-> name, Labels |-> labels, Finalizers |-> finalizers, Status |-> status]
    <2> HIDE DEF final, name, labels, status
    <2> QED BY <1>3, <1>4, <1>5, Structs
<1>12. Built(calls) = [final["CamelApp"] EXCEPT !.Status = Pointed(final, @, CamelAppStatusJSON)]
    BY <1>1 DEF Built
<1> HIDE DEF name, labels, finalizers, status
<1>13. Built(calls) = [[Name |-> name, Labels |-> labels, Finalizers |-> finalizers,
                        Status |-> status] EXCEPT !.Status = sent]
    BY <1>11, <1>12
<1> HIDE DEF sent
<1> QED BY <1>10, <1>13

(* So no series of calls has another outcome.                              *)
LEMMA OutcomesGood ==
    ASSUME NEW asIs \in Outcomes
    PROVE  asIs = TRUE
<1>1. PICK calls \in UNION {[1 .. n -> Calls] : n \in 0 .. MaxCalls} :
        asIs = (Built(calls) = Asked(calls))
    BY DEF Outcomes
<1>2. PICK n \in 0 .. MaxCalls : calls \in [1 .. n -> Calls]
    OBVIOUS
<1>3. n \in Nat
    OBVIOUS
<1>4. Built(calls) = Asked(calls)
    BY <1>2, <1>3, CallsKeepPromises
<1> QED BY <1>1, <1>4
=============================================================================
