--------------------------------- MODULE Sums ---------------------------------
(***************************************************************************)
(* What is needed of a sum over a finite set that is taken one element     *)
(* after the other, as the loops over the pods and the folds of the        *)
(* community modules do: that the recursion defines one, that its terms    *)
(* decide its type, that sums of the same elements add up, and that the    *)
(* order of the elements and terms that are zero make no difference.       *)
(*                                                                         *)
(* Each induction takes a least counterexample, among subsets ordered by   *)
(* inclusion, out of the library's theorem on well-founded relations.      *)
(***************************************************************************)
EXTENDS Integers, FiniteSetTheorems, TLAPS

(* The element a sum takes off a set that is not empty.                    *)
Taken(s) == CHOOSE x \in s : TRUE

Step(sum, term, s) ==
    sum[s] = IF s = {} THEN 0 ELSE sum[s \ {Taken(s)}] + term[Taken(s)]

(* sum[s] is the sum of the terms over s, for every subset s of a set.     *)
IsSum(sum, term, set) ==
    /\ sum = [s \in SUBSET set |-> sum[s]]
    /\ \A s \in SUBSET set : Step(sum, term, s)

-----------------------------------------------------------------------------
(* A subset that is not empty becomes smaller by the element taken off.    *)
LEMMA TakenOff ==
    ASSUME NEW set, NEW s \in SUBSET set, s # {}
    PROVE  /\ Taken(s) \in s
           /\ s \ {Taken(s)} \in SUBSET set
           /\ s \ {Taken(s)} # s
           /\ Taken(s) \in set
BY DEF Taken

(* Among subsets of a finite set that share a property, one has none of    *)
(* them strictly inside it.                                                *)
LEMMA LeastSubset ==
    ASSUME NEW set, IsFiniteSet(set), NEW T \in SUBSET SUBSET set, T # {}
    PROVE  \E least \in T : \A s \in T : s \subseteq least => s = least
<1>1. IsWellFoundedOn(StrictSubsetOrdering(set), SUBSET set)
    BY FS_StrictSubsetOrderingWellFounded, FS_FiniteSubsetsOfFinite
<1>2. PICK least \in T : \A s \in T : <<s, least>> \notin StrictSubsetOrdering(set)
    BY <1>1, WFMin
<1>3. ASSUME NEW s \in T, s \subseteq least PROVE s = least
    <2>1. SUFFICES ASSUME s # least PROVE FALSE
        OBVIOUS
    <2>2. <<s, least>> \in (SUBSET set) \X (SUBSET set)
        OBVIOUS
    <2>3. <<s, least>> \in StrictSubsetOrdering(set)
        BY <1>3, <2>1, <2>2 DEF StrictSubsetOrdering
    <2> QED BY <1>2, <2>3
<1> QED BY <1>3

(* Two sums of the same terms agree wherever both are defined.             *)
LEMMA SumsAgree ==
    ASSUME NEW set, IsFiniteSet(set), NEW term,
           NEW A \in SUBSET set, NEW f, IsSum(f, term, A),
           NEW B \in SUBSET set, NEW g, IsSum(g, term, B),
           NEW s \in SUBSET (A \cap B)
    PROVE  f[s] = g[s]
<1> DEFINE Bad == {u \in SUBSET (A \cap B) : f[u] # g[u]}
<1>1. SUFFICES ASSUME Bad # {} PROVE FALSE
    OBVIOUS
<1>2. Bad \in SUBSET SUBSET set
    OBVIOUS
<1>3. PICK least \in Bad : \A u \in Bad : u \subseteq least => u = least
    <2> HIDE DEF Bad
    <2> QED BY <1>1, <1>2, LeastSubset
<1>4. Step(f, term, least) /\ Step(g, term, least)
    BY DEF IsSum
<1>5. least # {}
    BY <1>4 DEF Step
<1>6. least \ {Taken(least)} \notin Bad
    <2>1. Taken(least) \in least
        BY <1>5, TakenOff
    <2> QED BY <1>3, <2>1
<1>7. f[least \ {Taken(least)}] = g[least \ {Taken(least)}]
    BY <1>6
<1> QED BY <1>4, <1>5, <1>7 DEF Step

(* The terms over a finite set have a sum: the recursion defines one.      *)
LEMMA SumExists ==
    ASSUME NEW set, IsFiniteSet(set), NEW term
    PROVE  \E sum : IsSum(sum, term, set)
<1> DEFINE Bad == {u \in SUBSET set : ~ \E sum : IsSum(sum, term, u)}
<1>1. SUFFICES ASSUME Bad # {} PROVE FALSE
    OBVIOUS
<1>2. PICK least \in Bad : \A u \in Bad : u \subseteq least => u = least
    <2>1. Bad \in SUBSET SUBSET set
        OBVIOUS
    <2> HIDE DEF Bad
    <2> QED BY <1>1, <2>1, LeastSubset
<1> DEFINE Of(u) == CHOOSE sum : IsSum(sum, term, u)
           Rest(u) == u \ {Taken(u)}
           whole == [u \in SUBSET least |->
                        IF u = {} THEN 0 ELSE Of(Rest(u))[Rest(u)] + term[Taken(u)]]
<1>3. ASSUME NEW u \in SUBSET least, u # least PROVE IsSum(Of(u), term, u)
    <2>1. \E sum : IsSum(sum, term, u)
        BY <1>2, <1>3
    <2> HIDE DEF IsSum
    <2> QED BY <2>1
<1>4. ASSUME NEW u \in SUBSET least PROVE Step(whole, term, u)
    <2>1. CASE u = {}
        BY <2>1 DEF Step
    <2>2. CASE u # {}
        <3>1. /\ Rest(u) \in SUBSET least /\ Rest(u) # least
              /\ Taken(u) \in u
            BY <2>2, TakenOff
        <3>2. whole[Rest(u)] = Of(Rest(u))[Rest(u)]
            <4> DEFINE v == Rest(u)
            <4>1. IsSum(Of(v), term, v) /\ v \in SUBSET v
                BY <1>3, <3>1
            <4>2. Step(Of(v), term, v)
                BY <4>1 DEF IsSum
            <4>3. CASE v = {}
                BY <3>1, <4>2, <4>3 DEF Step
            <4>4. CASE v # {}
                <5>1. /\ Rest(v) \in SUBSET v /\ Rest(v) \in SUBSET least
                      /\ Rest(v) # least
                    BY <3>1, <4>4, TakenOff
                <5>2. IsSum(Of(Rest(v)), term, Rest(v))
                    BY <1>3, <5>1
                <5>3. Of(v)[Rest(v)] = Of(Rest(v))[Rest(v)]
                    <6> HIDE DEF Of, Rest, v
                    <6>1. v \in SUBSET set /\ Rest(v) \in SUBSET set
                        BY <3>1, <5>1, <1>2 DEF v
                    <6>2. Rest(v) \in SUBSET (v \cap Rest(v))
                        BY <5>1
                    <6> QED BY <4>1, <5>2, <6>1, <6>2, SumsAgree
                <5>4. whole[v] = Of(Rest(v))[Rest(v)] + term[Taken(v)]
                    BY <3>1, <4>4
                <5> QED BY <4>2, <4>4, <5>3, <5>4 DEF Step
            <4> QED BY <4>3, <4>4
        <3>3. whole[u] = Of(Rest(u))[Rest(u)] + term[Taken(u)]
            BY <2>2
        <3> QED BY <2>2, <3>2, <3>3 DEF Step
    <2> QED BY <2>1, <2>2
<1>5. IsSum(whole, term, least)
    <2>1. whole = [u \in SUBSET least |-> whole[u]]
        OBVIOUS
    <2> HIDE DEF whole
    <2> QED BY <1>4, <2>1 DEF IsSum
<1> QED BY <1>2, <1>5

(* A sum of integers is an integer, and one of naturals a natural.         *)
LEMMA SumType ==
    ASSUME NEW set, IsFiniteSet(set), NEW term, NEW sum, IsSum(sum, term, set),
           NEW S \in {Int, Nat}, \A x \in set : term[x] \in S
    PROVE  sum[set] \in S
<1> DEFINE Bad == {u \in SUBSET set : sum[u] \notin S}
<1>1. SUFFICES ASSUME Bad # {} PROVE FALSE
    OBVIOUS
<1>2. PICK least \in Bad : \A u \in Bad : u \subseteq least => u = least
    <2>1. Bad \in SUBSET SUBSET set
        OBVIOUS
    <2> HIDE DEF Bad
    <2> QED BY <1>1, <2>1, LeastSubset
<1>3. Step(sum, term, least)
    BY DEF IsSum
<1>4. least # {}
    BY <1>3 DEF Step
<1>5. Taken(least) \in least /\ Taken(least) \in set
    BY <1>4, TakenOff
<1>6. sum[least \ {Taken(least)}] \in S /\ term[Taken(least)] \in S
    BY <1>2, <1>5
<1> QED BY <1>3, <1>4, <1>6 DEF Step

(* Where every term of one sum is what two others add up to, so are the    *)
(* sums.                                                                   *)
LEMMA SumsAdd ==
    ASSUME NEW set, IsFiniteSet(set),
           NEW a, NEW b, NEW c, NEW f, NEW g, NEW h,
           IsSum(f, a, set), IsSum(g, b, set), IsSum(h, c, set),
           \A x \in set : a[x] \in Int /\ b[x] \in Int /\ c[x] = a[x] + b[x]
    PROVE  h[set] = f[set] + g[set]
<1> DEFINE Good(u) == f[u] \in Int /\ g[u] \in Int /\ h[u] = f[u] + g[u]
           Bad == {u \in SUBSET set : ~Good(u)}
<1>1. SUFFICES ASSUME Bad # {} PROVE FALSE
    OBVIOUS
<1>2. PICK least \in Bad : \A u \in Bad : u \subseteq least => u = least
    <2>1. Bad \in SUBSET SUBSET set
        OBVIOUS
    <2> HIDE DEF Bad
    <2> QED BY <1>1, <2>1, LeastSubset
<1>3. Step(f, a, least) /\ Step(g, b, least) /\ Step(h, c, least)
    BY DEF IsSum
<1>4. least # {}
    BY <1>3 DEF Step
<1>5. Taken(least) \in least /\ Taken(least) \in set
    BY <1>4, TakenOff
<1>6. Good(least \ {Taken(least)})
    BY <1>2, <1>5
<1>7. c[Taken(least)] = a[Taken(least)] + b[Taken(least)]
    /\ a[Taken(least)] \in Int /\ b[Taken(least)] \in Int
    BY <1>5
<1> QED BY <1>3, <1>4, <1>6, <1>7 DEF Step

(* Any element may be taken off a sum, not only the one the recursion      *)
(* takes: the order of the elements does not matter.                       *)
LEMMA SumRemove ==
    ASSUME NEW set, IsFiniteSet(set), NEW term, NEW sum, IsSum(sum, term, set),
           \A x \in set : term[x] \in Int,
           NEW s \in SUBSET set
    PROVE  sum[s] \in Int /\ \A x \in s : sum[s] = sum[s \ {x}] + term[x]
<1> DEFINE Good(u) == /\ sum[u] \in Int
                      /\ \A x \in u : sum[u] = sum[u \ {x}] + term[x]
           Bad == {u \in SUBSET set : ~Good(u)}
<1>1. SUFFICES ASSUME Bad # {} PROVE FALSE
    OBVIOUS
<1>2. PICK least \in Bad : \A u \in Bad : u \subseteq least => u = least
    <2>1. Bad \in SUBSET SUBSET set
        OBVIOUS
    <2> HIDE DEF Bad
    <2> QED BY <1>1, <2>1, LeastSubset
<1>3. least \in SUBSET set /\ Step(sum, term, least)
    BY DEF IsSum
<1>4. least # {}
    BY <1>3 DEF Step
<1> DEFINE t == Taken(least)
<1>5. t \in least /\ t \in set /\ sum[least] = sum[least \ {t}] + term[t]
    BY <1>3, <1>4, TakenOff DEF Step
<1>6. ASSUME NEW u \in SUBSET least, u # least PROVE Good(u)
    BY <1>2, <1>3, <1>6
<1>7. ASSUME NEW x \in least, x # t PROVE sum[least] = sum[least \ {x}] + term[x]
    <2> DEFINE rest == (least \ {x}) \ {t}
    <2>1. rest = (least \ {t}) \ {x}
        OBVIOUS
    <2>2. Good(least \ {t}) /\ Good(least \ {x}) /\ Good(rest)
        BY <1>5, <1>6, <1>7
    <2>3. sum[least \ {t}] = sum[rest] + term[x] /\ sum[least \ {x}] = sum[rest] + term[t]
        BY <1>5, <1>7, <2>1, <2>2
    <2>4. sum[rest] \in Int /\ term[x] \in Int /\ term[t] \in Int
        BY <1>3, <1>5, <2>2
    <2> HIDE DEF rest, t
    <2> QED BY <1>5, <2>3, <2>4
<1>8. sum[least] \in Int
    BY <1>5, <1>6
<1>9. Good(least)
    BY <1>5, <1>7, <1>8
<1> QED BY <1>9

(* Terms that are zero do not count.                                       *)
LEMMA SumOfSome ==
    ASSUME NEW set, IsFiniteSet(set), NEW term, NEW sum, IsSum(sum, term, set),
           NEW some \in SUBSET set, NEW a, NEW f, IsSum(f, a, some),
           \A x \in some : a[x] \in Int /\ term[x] = a[x],
           \A x \in set \ some : term[x] = 0
    PROVE  sum[set] = f[some]
<1> DEFINE Bad == {u \in SUBSET set : sum[u] # f[u \cap some]}
<1>0. IsFiniteSet(some)
    BY FS_Subset
<1>1. SUFFICES ASSUME Bad # {} PROVE FALSE
    <2>1. set \cap some = some
        OBVIOUS
    <2> QED BY <2>1
<1>2. PICK least \in Bad : \A u \in Bad : u \subseteq least => u = least
    <2>1. Bad \in SUBSET SUBSET set
        OBVIOUS
    <2> HIDE DEF Bad
    <2> QED BY <1>1, <2>1, LeastSubset
<1>3. least \in SUBSET set /\ Step(sum, term, least)
    BY DEF IsSum
<1>4. least # {}
    <2>1. Step(f, a, {})
        BY DEF IsSum
    <2>2. {} \cap some = {}
        OBVIOUS
    <2> QED BY <1>3, <2>1, <2>2 DEF Step
<1> DEFINE t == Taken(least)
<1>5. t \in least /\ t \in set /\ sum[least] = sum[least \ {t}] + term[t]
    BY <1>3, <1>4, TakenOff DEF Step
<1>6. sum[least \ {t}] = f[(least \ {t}) \cap some]
    BY <1>2, <1>3, <1>5
<1> DEFINE part == least \cap some
<1>7. CASE t \in some
    <2>1. (least \ {t}) \cap some = part \ {t} /\ part \in SUBSET some /\ t \in part
        BY <1>5, <1>7
    <2>2. f[part] = f[part \ {t}] + a[t]
        BY <1>0, <2>1, SumRemove
    <2>3. term[t] = a[t]
        BY <1>7
    <2> HIDE DEF t, part
    <2>4. sum[least] = f[part]
        BY <1>5, <1>6, <2>1, <2>2, <2>3
    <2> QED BY <2>4 DEF part
<1>8. CASE t \notin some
    <2>1. (least \ {t}) \cap some = part /\ part \in SUBSET some
        BY <1>8
    <2>2. f[part] \in Int
        BY <1>0, <2>1, SumRemove
    <2>3. term[t] = 0
        BY <1>5, <1>8
    <2> HIDE DEF t, part
    <2>4. sum[least] = f[part] + 0
        BY <1>5, <1>6, <2>1, <2>3
    <2> QED BY <2>2, <2>4 DEF part
<1> QED BY <1>7, <1>8
===============================================================================
