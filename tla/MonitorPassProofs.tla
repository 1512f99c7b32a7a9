-------------------------- MODULE MonitorPassProofs --------------------------
(***************************************************************************)
(* Proofs about a pass of the monitor action: the state has its types, a   *)
(* status says each condition once, the success rate of an interval, with  *)
(* its severity, is the truth whenever two passes can be compared, and its *)
(* percentage is one as long as no pod's counters are lost, for every set  *)
(* of pods, both thresholds and every bound.                               *)
(***************************************************************************)
EXTENDS MonitorPass, Sums, SequenceTheorems, TLAPS

-----------------------------------------------------------------------------
(* Sums over pods.                                                         *)

Totals(info) == [p \in DOMAIN info |-> info[p].total]
Failures(info) == [p \in DOMAIN info |-> info[p].failed]

(* The functions the folds of Total and Failed choose.                     *)
TotalOver(info) ==
    CHOOSE sum : sum = [s \in SUBSET DOMAIN info |->
        IF s = {} THEN 0
        ELSE LET p == CHOOSE x \in s : TRUE IN sum[s \ {p}] + info[p].total]

FailedOver(info) ==
    CHOOSE sum : sum = [s \in SUBSET DOMAIN info |->
        IF s = {} THEN 0
        ELSE LET p == CHOOSE x \in s : TRUE IN sum[s \ {p}] + info[p].failed]

LEMMA TotalIsSum ==
    ASSUME NEW info, IsFiniteSet(DOMAIN info)
    PROVE  /\ Total(info) = TotalOver(info)[DOMAIN info]
           /\ IsSum(TotalOver(info), Totals(info), DOMAIN info)
<1> DEFINE Chosen(sum) == sum = [s \in SUBSET DOMAIN info |->
        IF s = {} THEN 0
        ELSE LET p == CHOOSE x \in s : TRUE IN sum[s \ {p}] + info[p].total]
<1>1. Total(info) = TotalOver(info)[DOMAIN info]
    BY DEF Total, FoldFunction, FoldFunctionOnSet, MapThenFoldSet, TotalOver
<1>2. ASSUME NEW sum PROVE Chosen(sum) <=> IsSum(sum, Totals(info), DOMAIN info)
    <2>1. ASSUME NEW s \in SUBSET DOMAIN info, s # {}
          PROVE  Taken(s) \in s /\ info[Taken(s)].total = Totals(info)[Taken(s)]
        BY <2>1, TakenOff DEF Totals
    <2>2. ASSUME Chosen(sum) PROVE IsSum(sum, Totals(info), DOMAIN info)
        BY <2>1, <2>2 DEF IsSum, Step, Taken
    <2>3. ASSUME IsSum(sum, Totals(info), DOMAIN info) PROVE Chosen(sum)
        BY <2>1, <2>3 DEF IsSum, Step, Taken
    <2> QED BY <2>2, <2>3
<1>3. \E sum : Chosen(sum)
    <2>1. PICK sum : IsSum(sum, Totals(info), DOMAIN info)
        BY SumExists
    <2> HIDE DEF Chosen
    <2> QED BY <1>2, <2>1
<1>4. Chosen(TotalOver(info))
    BY <1>3 DEF TotalOver
<1> QED BY <1>1, <1>2, <1>4

LEMMA FailedIsSum ==
    ASSUME NEW info, IsFiniteSet(DOMAIN info)
    PROVE  /\ Failed(info) = FailedOver(info)[DOMAIN info]
           /\ IsSum(FailedOver(info), Failures(info), DOMAIN info)
<1> DEFINE Chosen(sum) == sum = [s \in SUBSET DOMAIN info |->
        IF s = {} THEN 0
        ELSE LET p == CHOOSE x \in s : TRUE IN sum[s \ {p}] + info[p].failed]
<1>1. Failed(info) = FailedOver(info)[DOMAIN info]
    BY DEF Failed, FoldFunction, FoldFunctionOnSet, MapThenFoldSet, FailedOver
<1>2. ASSUME NEW sum PROVE Chosen(sum) <=> IsSum(sum, Failures(info), DOMAIN info)
    <2>1. ASSUME NEW s \in SUBSET DOMAIN info, s # {}
          PROVE  Taken(s) \in s /\ info[Taken(s)].failed = Failures(info)[Taken(s)]
        BY <2>1, TakenOff DEF Failures
    <2>2. ASSUME Chosen(sum) PROVE IsSum(sum, Failures(info), DOMAIN info)
        BY <2>1, <2>2 DEF IsSum, Step, Taken
    <2>3. ASSUME IsSum(sum, Failures(info), DOMAIN info) PROVE Chosen(sum)
        BY <2>1, <2>3 DEF IsSum, Step, Taken
    <2> QED BY <2>2, <2>3
<1>3. \E sum : Chosen(sum)
    <2>1. PICK sum : IsSum(sum, Failures(info), DOMAIN info)
        BY SumExists
    <2> HIDE DEF Chosen
    <2> QED BY <1>2, <2>1
<1>4. Chosen(FailedOver(info))
    BY <1>3 DEF FailedOver
<1> QED BY <1>1, <1>2, <1>4

(* Counters are natural numbers, and so are their sums.                    *)
LEMMA SumsAreCounts ==
    ASSUME NEW info, IsFiniteSet(DOMAIN info),
           \A p \in DOMAIN info : info[p].total \in Nat /\ info[p].failed \in Nat
    PROVE  Total(info) \in Nat /\ Failed(info) \in Nat
<1>1. \A p \in DOMAIN info : Totals(info)[p] \in Nat /\ Failures(info)[p] \in Nat
    BY DEF Totals, Failures
<1>2. TotalOver(info)[DOMAIN info] \in Nat
    BY <1>1, TotalIsSum, SumType
<1>3. FailedOver(info)[DOMAIN info] \in Nat
    BY <1>1, FailedIsSum, SumType
<1> QED BY <1>2, <1>3, TotalIsSum, FailedIsSum

(* When each pod's counters went from one reading to the next by what it   *)
(* processed, the sums went by the sum of that.                            *)
LEMMA SumsDiffer ==
    ASSUME NEW old, NEW read, NEW new, IsFiniteSet(DOMAIN new),
           DOMAIN old = DOMAIN new, DOMAIN read = DOMAIN new,
           \A p \in DOMAIN new :
               /\ old[p].total \in Nat /\ old[p].failed \in Nat
               /\ read[p].total \in Nat /\ read[p].failed \in Nat
               /\ new[p].total = old[p].total + read[p].total
               /\ new[p].failed = old[p].failed + read[p].failed
    PROVE  /\ Total(new) = Total(old) + Total(read)
           /\ Failed(new) = Failed(old) + Failed(read)
<1>1. \A p \in DOMAIN new :
          /\ Totals(old)[p] \in Int /\ Totals(read)[p] \in Int
          /\ Totals(new)[p] = Totals(old)[p] + Totals(read)[p]
          /\ Failures(old)[p] \in Int /\ Failures(read)[p] \in Int
          /\ Failures(new)[p] = Failures(old)[p] + Failures(read)[p]
    BY DEF Totals, Failures
<1> DEFINE D == DOMAIN new
<1>2. /\ IsSum(TotalOver(old), Totals(old), D) /\ Total(old) = TotalOver(old)[D]
      /\ IsSum(TotalOver(read), Totals(read), D) /\ Total(read) = TotalOver(read)[D]
      /\ IsSum(TotalOver(new), Totals(new), D) /\ Total(new) = TotalOver(new)[D]
    BY TotalIsSum
<1>3. /\ IsSum(FailedOver(old), Failures(old), D) /\ Failed(old) = FailedOver(old)[D]
      /\ IsSum(FailedOver(read), Failures(read), D) /\ Failed(read) = FailedOver(read)[D]
      /\ IsSum(FailedOver(new), Failures(new), D) /\ Failed(new) = FailedOver(new)[D]
    BY FailedIsSum
<1>4. Total(new) = Total(old) + Total(read)
    <2> HIDE DEF D
    <2> QED BY <1>1, <1>2, SumsAdd DEF D
<1>5. Failed(new) = Failed(old) + Failed(read)
    <2> HIDE DEF D
    <2> QED BY <1>1, <1>3, SumsAdd DEF D
<1> QED BY <1>4, <1>5

-----------------------------------------------------------------------------
(* The inductive invariant.                                                *)

(* Between two passes nothing is left of one.                              *)
Idle == ~busy => todo = {} /\ DOMAIN fresh = {}

ConditionPair(all, healthy, message) ==
    <<[type |-> "Monitored", holds |-> all, message |-> message],
      [type |-> "Healthy", holds |-> healthy, message |-> ""]>>

(* The conditions of a status are none, or Monitored, which says whether   *)
(* all its pods were ready, and then Healthy.                              *)
ConditionsPaired ==
    \/ stored.conditions = <<>>
    \/ \E healthy \in BOOLEAN, message \in {"Success", "Miscounted", "NotReady"} :
        stored.conditions =
            ConditionPair(AllReady(stored.pods), healthy, message)

(* later is a reading of a pod's counters after earlier, with what the pod *)
(* processed in between.                                                   *)
Advanced(earlier, between, later) ==
    /\ later.total = earlier.total + between.total
    /\ later.failed = earlier.failed + between.failed

(* The counters of a pod were read for sure: it is ready, or it has        *)
(* exchanges and only its health could not be read.                        *)
Counted(info) == info.ready \/ info.total > 0

(* The history of a pod is the difference of its counters with a reading,  *)
(* while the pod runs on and when the reading was taken.                   *)
StoredTracked ==
    \A p \in DOMAIN stored.pods :
        Counted(stored.pods[p]) /\ since[p].intact => Advanced(stored.pods[p], since[p], pods[p])

FreshTracked ==
    \A p \in DOMAIN fresh :
        Counted(fresh[p]) /\ after[p].intact => Advanced(fresh[p], after[p], pods[p])

MarkTracked ==
    \A p \in DOMAIN fresh \intersect DOMAIN stored.pods :
        Counted(stored.pods[p]) /\ Counted(fresh[p]) /\ mark[p].intact
            => Advanced(stored.pods[p], mark[p], fresh[p])

Tracked == StoredTracked /\ FreshTracked /\ MarkTracked

IInv == TypeOK /\ Idle /\ ConditionsPaired /\ Tracked /\ ExactWhenMonitored /\ SeverityHonest

-----------------------------------------------------------------------------
(* What the computations of a pass return.                                 *)

(* What GetPods returns, of some of the pods.                              *)
InfoOK(info) ==
    /\ DOMAIN info \subseteq Pods
    /\ \A p \in DOMAIN info : info[p] \in PodInfo

LEMMA InfoSums ==
    ASSUME NEW info, InfoOK(info)
    PROVE  /\ IsFiniteSet(DOMAIN info)
           /\ Total(info) \in Nat /\ Failed(info) \in Nat
           /\ getInfo(info) # None => getInfo(info) =
                [total |-> Total(info), failed |-> Failed(info)]
<1>1. IsFiniteSet(DOMAIN info)
    BY FS_Subset, PodsAssumption DEF InfoOK
<1>2. \A p \in DOMAIN info : info[p].total \in Nat /\ info[p].failed \in Nat
    BY DEF InfoOK, PodInfo
<1>3. Total(info) \in Nat /\ Failed(info) \in Nat
    BY <1>1, <1>2, SumsAreCounts
<1> QED BY <1>1, <1>3 DEF getInfo

LEMMA AppendFirst == ASSUME NEW a PROVE Append(<<>>, a) = <<a>>
OBVIOUS

LEMMA AppendSecond == ASSUME NEW a, NEW b PROVE Append(<<a>>, b) = <<a, b>>
<1> DEFINE one == <<a>>
           two == <<a, b>>
           both == Append(one, b)
<1>1. one \in Seq({a, b}) /\ Len(one) = 1 /\ one[1] = a
    OBVIOUS
<1>2. two \in Seq({a, b}) /\ Len(two) = 2 /\ two[1] = a /\ two[2] = b
    OBVIOUS
<1> HIDE DEF one, two
<1>3. both \in Seq({a, b}) /\ Len(both) = 2 /\ both[1] = a /\ both[2] = b
    <2>1. b \in {a, b} /\ 1 \in 1 .. Len(one)
        BY <1>1
    <2>2. both \in Seq({a, b}) /\ Len(both) = Len(one) + 1
        BY <1>1, <2>1, AppendProperties
    <2>3. both[Len(one) + 1] = b
        BY <1>1, <2>1, AppendProperties
    <2>4. \A i \in 1 .. Len(one) : both[i] = one[i]
        BY <1>1, <2>1, AppendProperties
    <2> QED BY <1>1, <2>1, <2>2, <2>3, <2>4
<1>4. \A i \in 1 .. 2 : both[i] = two[i]
    BY <1>2, <1>3
<1> HIDE DEF both
<1>5. both = two
    BY <1>2, <1>3, <1>4, SeqEqual
<1> QED BY <1>5 DEF both, one, two

(* The conditions of a pass are two, whatever those of the status were.    *)
LEMMA ConditionsResult ==
    ASSUME NEW status, NEW info
    PROVE  \E healthy \in BOOLEAN, message \in {"Success", "Miscounted", "NotReady"} :
        Conditions(status, info) =
            ConditionPair(AllReady(info), healthy, message)
<1> DEFINE message == IF AllReady(info) THEN Message(status, info) ELSE "NotReady"
           monitored == [type |-> "Monitored", holds |-> AllReady(info), message |-> message]
           healthy == [type |-> "Healthy", holds |-> AllUp(info), message |-> ""]
<1>1. message \in {"Success", "Miscounted", "NotReady"}
    BY DEF Message
<1>2. AllUp(info) \in BOOLEAN
    BY DEF AllUp
<1>3. Conditions(status, info) = Append(Append(<<>>, monitored), healthy)
    BY DEF Conditions, AddCondition, ResetConditions
<1>4. Append(Append(<<>>, monitored), healthy) = <<monitored, healthy>>
    <2>1. Append(<<>>, monitored) = <<monitored>>
        BY AppendFirst
    <2> HIDE DEF monitored, healthy
    <2> QED BY <2>1, AppendSecond
<1>5. Conditions(status, info) = ConditionPair(AllReady(info), AllUp(info), message)
    BY <1>3, <1>4 DEF ConditionPair
<1> HIDE DEF message
<1> QED BY <1>1, <1>2, <1>5

(* The severity of a rate is one of four, and the thresholds decide it.    *)
LEMMA SeverityResult ==
    ASSUME NEW failed \in Int, NEW total \in Int, NEW rounding \in BOOLEAN
    PROVE  LET severity == Severity(failed, total, rounding) IN
        /\ severity \in {"Error", "Warning", "Success", ""}
        /\ severity = "Error" <=> Exceeds(failed, total, WarnPerc, rounding)
        /\ severity \in {"Error", "Warning"} <=>
            \/ Exceeds(failed, total, WarnPerc, rounding)
            \/ Exceeds(failed, total, ErrPerc, rounding)
        /\ severity = "Warning" => Exceeds(failed, total, ErrPerc, rounding)
        /\ severity = "" <=>
            /\ ~(total > 0)
            /\ ~Exceeds(failed, total, WarnPerc, rounding)
            /\ ~Exceeds(failed, total, ErrPerc, rounding)
<1> DEFINE error == Exceeds(failed, total, WarnPerc, rounding)
           warning == Exceeds(failed, total, ErrPerc, rounding)
<1>1. Severity(failed, total, rounding) =
        CASE error -> "Error" [] ~error /\ warning -> "Warning"
          [] OTHER -> IF total > 0 THEN "Success" ELSE ""
    BY DEF Severity
<1> HIDE DEF error, warning
<1> DEFINE severity == Severity(failed, total, rounding)
           Result == /\ severity \in {"Error", "Warning", "Success", ""}
                     /\ severity = "Error" <=> error
                     /\ severity \in {"Error", "Warning"} <=> error \/ warning
                     /\ severity = "Warning" => warning
                     /\ severity = "" <=> ~(total > 0) /\ ~error /\ ~warning
<1>2. ASSUME error PROVE Result
    <2>1. severity = "Error"
        BY <1>1, <1>2
    <2> HIDE DEF severity
    <2> QED BY <1>2, <2>1
<1>3. ASSUME ~error, warning PROVE Result
    <2>1. severity = "Warning"
        BY <1>1, <1>3
    <2> HIDE DEF severity
    <2> QED BY <1>3, <2>1
<1>4. ASSUME ~error, ~warning PROVE Result
    <2>1. severity = IF total > 0 THEN "Success" ELSE ""
        BY <1>1, <1>4
    <2> HIDE DEF severity
    <2> QED BY <1>4, <2>1
<1>5. Result
    BY <1>2, <1>3, <1>4
<1> HIDE DEF severity
<1> QED BY <1>5 DEF error, warning, severity

LEMMA SliFields ==
    ASSUME NEW total \in Nat, NEW failed \in Nat,
           NEW rate \in [failed : Int, total : Nat] \union {None},
           NEW severity \in {"Error", "Warning", "Success", ""}
    PROVE  [total |-> total, failed |-> failed, rate |-> rate, severity |-> severity] \in Sli
BY DEF Sli

LEMMA SuccessRateType ==
    ASSUME NEW app \in Counts, NEW target \in Counts, NEW rounding \in BOOLEAN
    PROVE  getSLIExchangeSuccessRate(app, target, rounding) \in Sli
<1> DEFINE total == target.total - app.total
           failed == target.failed - app.failed
           rate == IF total > 0 THEN [failed |-> failed, total |-> total] ELSE None
           severity == Severity(failed, total, rounding)
           totalShown == IF total >= 0 THEN total ELSE 0
           failedShown == IF failed >= 0 THEN failed ELSE 0
<1>1. total \in Int /\ failed \in Int
    BY DEF Counts
<1> HIDE DEF total, failed
<1>2. rate \in [failed : Int, total : Nat] \union {None}
    BY <1>1
<1>3. severity \in {"Error", "Warning", "Success", ""}
    BY <1>1, SeverityResult
<1>4. totalShown \in Nat /\ failedShown \in Nat
    BY <1>1
<1>5. getSLIExchangeSuccessRate(app, target, rounding) =
        [total |-> totalShown, failed |-> failedShown,
         rate |-> rate, severity |-> severity]
    BY DEF getSLIExchangeSuccessRate, total, failed
<1> HIDE DEF rate, severity, totalShown, failedShown
<1>6. [total |-> totalShown, failed |-> failedShown,
       rate |-> rate, severity |-> severity] \in Sli
    BY <1>2, <1>3, <1>4, SliFields
<1> QED BY <1>5, <1>6

-----------------------------------------------------------------------------
(* The state has its types.                                                *)

PodStates == [state : {"gone", "starting", "ready"}, total : Nat, failed : Nat]

LEMMA TypeFacts ==
    ASSUME TypeOK
    PROVE  InfoOK(stored.pods) /\ InfoOK(fresh) /\ Cardinality(Pods) \in Nat
BY PodsAssumption, FS_CardinalityType DEF TypeOK, InfoOK

(* One exchange more, of a pod or of its history.                          *)
LEMMA CountPod ==
    ASSUME NEW failure \in {0, 1}, NEW counts \in PodStates
    PROVE  /\ Count(counts, failure) \in PodStates
           /\ Count(counts, failure).state = counts.state
           /\ Count(counts, failure).total = counts.total + 1
           /\ Count(counts, failure).failed = counts.failed + failure
<1>1. PICK total \in Nat, failed \in Nat, state \in {"gone", "starting", "ready"} :
        counts = [state |-> state, total |-> total, failed |-> failed]
    BY DEF PodStates
<1>2. Count(counts, failure) =
        [[counts EXCEPT !.total = total + 1] EXCEPT !.failed = failed + failure]
    BY <1>1 DEF Count
<1>3. [counts EXCEPT !.total = total + 1] =
        [state |-> state, total |-> total + 1, failed |-> failed]
    BY <1>1
<1>4. Count(counts, failure) =
        [state |-> state, total |-> total + 1, failed |-> failed + failure]
    BY <1>2, <1>3
<1>5. total + 1 \in Nat /\ failed + failure \in Nat
    OBVIOUS
<1>6. Count(counts, failure) \in PodStates
    BY <1>4, <1>5 DEF PodStates
<1> QED BY <1>1, <1>4, <1>6

LEMMA CountTruth ==
    ASSUME NEW failure \in {0, 1}, NEW counts \in Truth
    PROVE  /\ Count(counts, failure) \in Truth
           /\ Count(counts, failure).intact = counts.intact
           /\ Count(counts, failure).total = counts.total + 1
           /\ Count(counts, failure).failed = counts.failed + failure
<1>1. PICK total \in Nat, failed \in Nat, intact \in BOOLEAN :
        counts = [intact |-> intact, total |-> total, failed |-> failed]
    BY DEF Truth
<1>2. Count(counts, failure) =
        [[counts EXCEPT !.total = total + 1] EXCEPT !.failed = failed + failure]
    BY <1>1 DEF Count
<1>3. [counts EXCEPT !.total = total + 1] =
        [intact |-> intact, total |-> total + 1, failed |-> failed]
    BY <1>1
<1>4. Count(counts, failure) =
        [intact |-> intact, total |-> total + 1, failed |-> failed + failure]
    BY <1>2, <1>3
<1>5. total + 1 \in Nat /\ failed + failure \in Nat
    OBVIOUS
<1>6. Count(counts, failure) \in Truth
    BY <1>4, <1>5 DEF Truth
<1> QED BY <1>1, <1>4, <1>6

LEMMA NothingIsTruth == Nothing \in Truth
BY DEF Nothing, Truth

LEMMA InitType == Init => TypeOK /\ Idle
<1> SUFFICES ASSUME Init PROVE TypeOK /\ Idle
    OBVIOUS
<1>1. pods \in [Pods -> PodStates]
    BY DEF Init, PodStates
<1>2. stored.pods = NoPods /\ stored.replicas = None /\ stored.sli = None
        /\ stored.conditions = <<>> /\ fresh = NoPods
    BY DEF Init, Blank
<1>3. DOMAIN NoPods = {}
    BY DEF NoPods
<1>4. desired \in 0 .. Cardinality(Pods)
    BY ReplicasAssumption DEF Init
<1>5. stored.conditions \in Seq(Condition)
    BY <1>2
<1>6. since \in [Pods -> Truth] /\ mark \in [Pods -> Truth] /\ after \in [Pods -> Truth]
    BY NothingIsTruth DEF Init
<1>7. ready \subseteq todo /\ todo = {} /\ todo \subseteq Pods /\ busy \in BOOLEAN
        /\ todo \intersect DOMAIN fresh = {}
        /\ truth = None /\ work \in Nat /\ upsets \in Nat /\ faults \in Nat
    BY DEF Init
<1> QED BY <1>1, <1>2, <1>3, <1>4, <1>5, <1>6, <1>7 DEF TypeOK, PodStates, Idle

LEMMA MoveType ==
    ASSUME TypeOK, NEW p \in Pods, NEW from, NEW to \in {"gone", "starting", "ready"},
           Move(p, from, to)
    PROVE  TypeOK'
<1>1. pods' \in [Pods -> PodStates]
    BY DEF Move, TypeOK, PodStates
<1>2. since' \in [Pods -> Truth] /\ after' \in [Pods -> Truth]
    BY DEF Move, TypeOK, Truth
<1>3. upsets' \in Nat
    BY DEF Move, Upset, TypeOK
<1> QED BY <1>1, <1>2, <1>3 DEF Move, TypeOK, PodStates

LEMMA ScrapedType ==
    ASSUME TypeOK, NEW p \in Pods, NEW info \in PodInfo, NEW whole \in BOOLEAN,
           Scraped(p, info, whole), faults' \in Nat
    PROVE  TypeOK'
<1>1. DOMAIN fresh' = DOMAIN fresh \union {p}
        /\ \A q \in DOMAIN fresh' : fresh'[q] \in PodInfo
    BY DEF Scraped, TypeOK
<1>2. mark' \in [Pods -> Truth] /\ after' \in [Pods -> Truth]
    BY NothingIsTruth DEF Scraped, TypeOK, Truth
<1>3. ready' \subseteq todo' /\ todo' \subseteq Pods /\ todo' \intersect DOMAIN fresh' = {}
    BY <1>1 DEF Scraped, TypeOK
<1> QED BY <1>1, <1>2, <1>3 DEF Scraped, TypeOK

LEMMA MembershipIsBoolean == ASSUME NEW S, NEW x PROVE (x \in S) \in BOOLEAN
OBVIOUS

LEMMA UpToIsCount == ASSUME NEW n \in Nat, NEW m \in 0 .. n PROVE m \in Nat
OBVIOUS

LEMMA FaultCounted == TypeOK /\ Fault => faults' \in Nat
BY DEF TypeOK, Fault

LEMMA PodInfoFields ==
    ASSUME NEW good \in BOOLEAN, NEW status \in {"UP", "DOWN", ""}, NEW named \in BOOLEAN,
           NEW total \in Nat, NEW failed \in Nat
    PROVE  [ready |-> good, status |-> status, named |-> named,
            total |-> total, failed |-> failed] \in PodInfo
BY DEF PodInfo

(* What a scrape whose metrics are whole may say of the counters of a pod: *)
(* what they are, or nothing, and then the pod is not ready.               *)
Reading(p, info, whole) ==
    whole => \/ info.total = pods[p].total /\ info.failed = pods[p].failed
             \/ ~info.ready /\ info.total = 0 /\ info.failed = 0

LEMMA UnreadResult ==
    ASSUME NEW p \in Pods, NEW status \in {"UP", "DOWN", ""}
    PROVE  Unread(status) \in PodInfo /\ Reading(p, Unread(status), TRUE)
<1>1. Unread(status) \in PodInfo
    BY PodInfoFields DEF Unread
<1> QED BY <1>1 DEF Unread, Reading

(* What a scrape leaves of a pod is runtime information about it.          *)
LEMMA ReadResult ==
    ASSUME TypeOK, NEW p \in Pods, NEW good \in BOOLEAN,
           NEW status \in {"UP", "DOWN", ""}, NEW answer \in Exposed(p)
    PROVE  /\ Read(good, status, answer) \in PodInfo
           /\ Reading(p, Read(good, status, answer), Whole(p, answer))
           /\ Whole(p, answer) \in BOOLEAN
<1>1. pods[p].total \in Nat /\ pods[p].failed \in Nat
    BY DEF TypeOK
<1>2. (p \in Named) \in BOOLEAN
    BY MembershipIsBoolean
<1>3. answer.named \in BOOLEAN /\ answer.total \in Nat /\ answer.failed \in Nat
    <2>1. /\ answer.named \in {FALSE, (p \in Named)}
          /\ answer.total \in 0 .. pods[p].total /\ answer.failed \in 0 .. pods[p].failed
        BY DEF Exposed
    <2>2. answer.named \in BOOLEAN
        BY <1>2, <2>1, Zenon
    <2>3. answer.total \in Nat /\ answer.failed \in Nat
        BY <1>1, <2>1, UpToIsCount, Zenon
    <2> QED BY <2>2, <2>3, Zenon
<1>4. Read(good, status, answer) \in PodInfo
    BY <1>3, PodInfoFields DEF Read
<1> QED BY <1>4 DEF Read, Reading, Whole

(* Each way to scrape a pod is a reading, complete or not, of that pod.    *)
LEMMA ScrapeCases ==
    ASSUME TypeOK, NEW p \in Pods, Scrape(p)
    PROVE  /\ faults' \in Nat
           /\ \E info \in PodInfo, whole \in BOOLEAN :
                Scraped(p, info, whole) /\ Reading(p, info, whole)
<1>1. faults \in Nat
    BY DEF TypeOK
<1>2. CASE SkipPod(p)
    BY <1>1, <1>2, UnreadResult DEF SkipPod
<1>3. CASE ScrapePod(p)
    <2>1. PICK status \in Answers, answer \in Exposed(p) :
            /\ Scraped(p, Read(TRUE, status, answer), Whole(p, answer))
            /\ faults' = faults \/ Fault
        BY <1>3 DEF ScrapePod
    <2>2. status \in {"UP", "DOWN", ""}
        BY AnswersAssumption
    <2>3. /\ Read(TRUE, status, answer) \in PodInfo
          /\ Reading(p, Read(TRUE, status, answer), Whole(p, answer))
          /\ Whole(p, answer) \in BOOLEAN
        BY <2>2, ReadResult
    <2>4. faults' \in Nat
        BY <1>1, <2>1, FaultCounted
    <2> QED BY <2>1, <2>3, <2>4
<1>4. CASE HealthFails(p)
    <2>1. PICK answer \in Exposed(p) : Scraped(p, Read(FALSE, "", answer), Whole(p, answer))
        BY <1>4 DEF HealthFails
    <2>2. /\ Read(FALSE, "", answer) \in PodInfo
          /\ Reading(p, Read(FALSE, "", answer), Whole(p, answer))
          /\ Whole(p, answer) \in BOOLEAN
        BY ReadResult
    <2>3. faults' \in Nat
        BY <1>4, FaultCounted DEF HealthFails
    <2> QED BY <2>1, <2>2, <2>3
<1>5. CASE MetricsFail(p)
    <2>1. PICK status \in Answers \union {""} : Scraped(p, Unread(status), TRUE)
        BY <1>5 DEF MetricsFail, MetricsUnread
    <2>2. status \in {"UP", "DOWN", ""}
        BY AnswersAssumption
    <2>3. Unread(status) \in PodInfo /\ Reading(p, Unread(status), TRUE)
        BY <2>2, UnreadResult
    <2>4. faults' \in Nat
        BY <1>5, FaultCounted DEF MetricsFail
    <2> QED BY <2>1, <2>3, <2>4
<1>6. CASE PodUnreachable(p)
    BY <1>1, <1>6, UnreadResult DEF PodUnreachable
<1> QED BY <1>2, <1>3, <1>4, <1>5, <1>6 DEF Scrape

(* The exchanges counted of the pods of a pass.                            *)
LEMMA ReadSums ==
    ASSUME TypeOK, NEW read, read = [p \in DOMAIN fresh |-> mark[p]]
    PROVE  Total(read) \in Nat /\ Failed(read) \in Nat
<1>1. IsFiniteSet(DOMAIN read)
    BY TypeFacts, InfoSums
<1>2. \A p \in DOMAIN read : read[p].total \in Nat /\ read[p].failed \in Nat
    BY DEF TypeOK, Truth
<1> QED BY <1>1, <1>2, SumsAreCounts

LEMMA StoreType ==
    ASSUME TypeOK, Store
    PROVE  TypeOK'
<1> DEFINE app == getInfo(stored.pods)
           target == getInfo(fresh)
           read == [p \in DOMAIN fresh |-> mark[p]]
<1>1. PICK rounding \in BOOLEAN :
        stored' = [pods |-> fresh,
                   replicas |-> desired,
                   sli |-> IF app = None \/ target = None THEN None
                           ELSE getSLIExchangeSuccessRate(app, target, rounding),
                   conditions |-> Conditions(stored, fresh)]
    BY DEF Store
<1>2. stored'.sli \in Sli \union {None}
    <2>1. CASE app = None \/ target = None
        BY <1>1, <2>1
    <2>2. CASE app # None /\ target # None
        <3>1. app \in Counts /\ target \in Counts
            BY <2>2, TypeFacts, InfoSums DEF Counts
        <3>2. getSLIExchangeSuccessRate(app, target, rounding) \in Sli
            <4> HIDE DEF app, target
            <4> QED BY <3>1, SuccessRateType
        <3> QED BY <1>1, <2>2, <3>2
    <2> QED BY <2>1, <2>2
<1>3. stored'.conditions \in Seq(Condition)
    <2>1. PICK healthy \in BOOLEAN, message \in {"Success", "Miscounted", "NotReady"} :
            stored'.conditions =
                ConditionPair(AllReady(fresh), healthy, message)
        BY <1>1, ConditionsResult
    <2>2. AllReady(fresh) \in BOOLEAN
        BY DEF AllReady
    <2> DEFINE first == [type |-> "Monitored", holds |-> AllReady(fresh), message |-> message]
               second == [type |-> "Healthy", holds |-> healthy, message |-> ""]
    <2>3. first \in Condition /\ second \in Condition
        BY <2>2 DEF Condition
    <2>4. stored'.conditions = <<first, second>>
        BY <2>1 DEF ConditionPair
    <2> HIDE DEF first, second
    <2> QED BY <2>3, <2>4
<1>4. stored'.pods = fresh /\ stored'.replicas = desired /\ desired \in Nat
    BY <1>1, TypeFacts DEF TypeOK
<1>5. truth' \in Counts \union {None}
    <2>1. Total(read) \in Nat /\ Failed(read) \in Nat
        BY ReadSums
    <2> HIDE DEF read
    <2>2. truth' = IF Comparable THEN [total |-> Total(read), failed |-> Failed(read)] ELSE None
        BY DEF Store, read
    <2> QED BY <2>1, <2>2 DEF Counts
<1>6. /\ since' \in [Pods -> Truth] /\ mark' \in [Pods -> Truth] /\ after' \in [Pods -> Truth]
      /\ DOMAIN fresh' = {}
    BY NothingIsTruth DEF Store, Forget, NoPods, TypeOK
<1>7. \A info \in {stored'.pods, fresh'} :
        DOMAIN info \subseteq Pods /\ \A p \in DOMAIN info : info[p] \in PodInfo
    BY <1>4, <1>6 DEF TypeOK
<1>8. /\ UNCHANGED <<pods, desired, todo, ready, work, upsets, faults>>
      /\ busy' = FALSE
    BY DEF Store, bounds
<1> QED BY <1>2, <1>3, <1>4, <1>5, <1>6, <1>7, <1>8 DEF TypeOK

LEMMA NextType == TypeOK /\ Idle /\ [Next]_vars => TypeOK'
<1> SUFFICES ASSUME TypeOK, Idle, [Next]_vars PROVE TypeOK'
    OBVIOUS
<1>1. CASE \E p \in Pods : PodSteps(p)
    <2>1. PICK p \in Pods : PodSteps(p)
        BY <1>1
    <2>2. CASE PodStarts(p)
        BY <2>2, MoveType DEF PodStarts
    <2>3. CASE PodVanishes(p)
        BY <2>3, MoveType DEF PodVanishes
    <2>4. CASE PodReady(p)
        <3>1. pods' \in [Pods -> PodStates]
            BY <2>4 DEF PodReady, TypeOK, PodStates
        <3> QED BY <2>4, <3>1 DEF PodReady, TypeOK, PodStates, history, bounds
    <2>5. CASE Process(p)
        <3>1. PICK failure \in {0, 1} :
                /\ pods' = [pods EXCEPT ![p] = Count(@, failure)]
                /\ since' = [since EXCEPT ![p] = Count(@, failure)]
                /\ after' = IF p \in DOMAIN fresh
                             THEN [after EXCEPT ![p] = Count(@, failure)] ELSE after
            BY <2>5 DEF Process
        <3>2. pods' \in [Pods -> PodStates]
            BY <3>1, CountPod DEF TypeOK, PodStates
        <3>3. since' \in [Pods -> Truth] /\ after' \in [Pods -> Truth]
            BY <3>1, CountTruth DEF TypeOK
        <3> QED BY <2>5, <3>2, <3>3 DEF Process, TypeOK, PodStates
    <2> QED BY <2>1, <2>2, <2>3, <2>4, <2>5 DEF PodSteps
<1>2. CASE \E p \in Pods : Scrape(p)
    BY <1>2, ScrapeCases, ScrapedType
<1>3. CASE Scale
    BY <1>3 DEF Scale, Upset, TypeOK, history
<1>4. CASE ListPods
    BY <1>4 DEF ListPods, TypeOK, Idle, history, bounds
<1>5. CASE ListPodsFails
    <2>1. stored'.pods = NoPods /\ stored'.replicas = None /\ stored'.sli = None
            /\ stored'.conditions = <<>>
        BY <1>5 DEF ListPodsFails, Blank
    <2>2. DOMAIN NoPods = {}
        BY DEF NoPods
    <2>3. stored'.conditions \in Seq(Condition) /\ truth' = None /\ faults' \in Nat
        BY <1>5, <2>1 DEF ListPodsFails, Fault, TypeOK
    <2> QED BY <1>5, <2>1, <2>2, <2>3 DEF ListPodsFails, TypeOK
<1>6. CASE Store
    BY <1>6, StoreType
<1>7. CASE PassLost
    <2>1. /\ mark' \in [Pods -> Truth] /\ after' \in [Pods -> Truth] /\ DOMAIN fresh' = {}
          /\ faults' \in Nat
        BY <1>7, NothingIsTruth DEF PassLost, Forget, NoPods, Fault, TypeOK
    <2> QED BY <1>7, <2>1 DEF PassLost, TypeOK
<1>8. CASE UNCHANGED vars
    BY <1>8 DEF vars, history, bounds, TypeOK
<1> QED BY <1>1, <1>2, <1>3, <1>4, <1>5, <1>6, <1>7, <1>8 DEF Next

LEMMA NextIdle == TypeOK /\ Idle /\ [Next]_vars => Idle'
<1> SUFFICES ASSUME TypeOK, Idle, [Next]_vars PROVE Idle'
    OBVIOUS
<1>1. CASE \E p \in Pods : PodSteps(p)
    BY <1>1 DEF PodSteps, PodStarts, PodVanishes, PodReady, Process, Move, Idle
<1>2. CASE \E p \in Pods : Scrape(p)
    <2>1. PICK p \in Pods, info \in PodInfo, whole \in BOOLEAN : Scraped(p, info, whole)
        BY <1>2, ScrapeCases
    <2>2. busy /\ busy' = busy
        BY <2>1 DEF Scraped, Idle
    <2> QED BY <2>2 DEF Idle
<1>3. CASE Scale \/ ListPods \/ ListPodsFails
    BY <1>3 DEF Scale, ListPods, ListPodsFails, Idle
<1>4. CASE Store \/ PassLost
    <2>1. todo' = {} /\ fresh' = NoPods
        BY <1>4 DEF Store, PassLost, Forget
    <2> QED BY <2>1 DEF Idle, NoPods
<1>5. CASE UNCHANGED vars
    BY <1>5 DEF vars, Idle
<1> QED BY <1>1, <1>2, <1>3, <1>4, <1>5 DEF Next

(* The types of a pass hold in every state: a pass looks at each pod once, *)
(* what it stores are counts, and the conditions are the ones the code     *)
(* appends (MonitorApp and what it calls).                                 *)
THEOREM TypeCorrect == Spec => []TypeOK
<1>1. Init => TypeOK /\ Idle
    BY InitType
<1>2. TypeOK /\ Idle /\ [Next]_vars => (TypeOK /\ Idle)'
    BY NextType, NextIdle
<1> QED BY <1>1, <1>2, PTL DEF Spec

-----------------------------------------------------------------------------
(* A status says each condition once.                                      *)

(* Only a pass that ends, or whose list of pods fails, writes the status.  *)
LEMMA StatusKept ==
    ASSUME Next, ~Store, ~ListPodsFails
    PROVE  stored' = stored /\ truth' = truth
BY DEF Next, PodSteps, PodStarts, PodVanishes, PodReady, Process, Move, Scrape, SkipPod,
       ScrapePod, HealthFails, MetricsFail, PodUnreachable, Scraped, Scale, ListPods,
       PassLost, history

LEMMA PairEntries ==
    ASSUME NEW first, NEW second
    PROVE  /\ DOMAIN <<first, second>> = {1, 2}
           /\ <<first, second>>[1] = first /\ <<first, second>>[2] = second
OBVIOUS

LEMMA PairFields ==
    ASSUME NEW all \in BOOLEAN, NEW healthy, NEW message
    PROVE  LET conditions == ConditionPair(all, healthy, message) IN
        /\ DOMAIN conditions = {1, 2}
        /\ conditions[1].type = "Monitored" /\ conditions[2].type = "Healthy"
        /\ conditions[1].holds = all
<1> DEFINE first == [type |-> "Monitored", holds |-> all, message |-> message]
           second == [type |-> "Healthy", holds |-> healthy, message |-> ""]
<1>1. first.type = "Monitored" /\ first.holds = all /\ second.type = "Healthy"
    OBVIOUS
<1> HIDE DEF first, second
<1>2. /\ DOMAIN <<first, second>> = {1, 2}
      /\ <<first, second>>[1] = first /\ <<first, second>>[2] = second
    BY PairEntries
<1>3. /\ DOMAIN <<first, second>> = {1, 2}
      /\ <<first, second>>[1].type = "Monitored" /\ <<first, second>>[2].type = "Healthy"
      /\ <<first, second>>[1].holds = all
    BY <1>1, <1>2
<1> QED BY <1>3 DEF first, second, ConditionPair

LEMMA NextPaired == ConditionsPaired /\ [Next]_vars => ConditionsPaired'
<1> SUFFICES ASSUME ConditionsPaired, [Next]_vars PROVE ConditionsPaired'
    OBVIOUS
<1>1. CASE Store
    <2>1. stored'.pods = fresh /\ stored'.conditions = Conditions(stored, fresh)
        BY <1>1 DEF Store
    <2>2. PICK healthy \in BOOLEAN, message \in {"Success", "Miscounted", "NotReady"} :
            Conditions(stored, fresh) =
                ConditionPair(AllReady(fresh), healthy, message)
        BY ConditionsResult
    <2>3. stored'.conditions =
            ConditionPair(AllReady(stored'.pods), healthy, message)
        BY <2>1, <2>2
    <2>4. (stored.conditions)' = stored'.conditions /\ AllReady(stored.pods)' = AllReady(stored'.pods)
        BY DEF AllReady
    <2> QED BY <2>3 DEF ConditionsPaired, AllReady
<1>2. CASE ListPodsFails
    BY <1>2 DEF ListPodsFails, Blank, ConditionsPaired
<1>3. CASE stored' = stored
    BY <1>3 DEF ConditionsPaired
<1> QED BY <1>1, <1>2, <1>3, StatusKept DEF vars

LEMMA PairedDistinct ==
    ASSUME ConditionsPaired
    PROVE  /\ ConditionsDistinct
           /\ Monitored(stored) => AllReady(stored.pods)
<1>1. CASE stored.conditions = <<>>
    BY <1>1 DEF ConditionsDistinct, Monitored
<1>2. ASSUME NEW healthy \in BOOLEAN, NEW message \in {"Success", "Miscounted", "NotReady"},
             stored.conditions =
                ConditionPair(AllReady(stored.pods), healthy, message)
      PROVE  /\ ConditionsDistinct
             /\ Monitored(stored) => AllReady(stored.pods)
    <2> DEFINE all == AllReady(stored.pods)
    <2>1. all \in BOOLEAN /\ stored.conditions = ConditionPair(all, healthy, message)
        BY <1>2 DEF AllReady
    <2>2. /\ DOMAIN stored.conditions = {1, 2}
          /\ stored.conditions[1].type = "Monitored"
          /\ stored.conditions[2].type = "Healthy"
          /\ stored.conditions[1].holds = all
        <3> HIDE DEF all
        <3> QED BY <2>1, PairFields
    <2>3. ConditionsDistinct
        BY <2>2 DEF ConditionsDistinct
    <2>4. ASSUME Monitored(stored) PROVE AllReady(stored.pods)
        BY <2>2, <2>4 DEF Monitored
    <2> QED BY <2>3, <2>4
<1> QED BY <1>1, <1>2 DEF ConditionsPaired

(* A status says each condition once, however many passes came before and  *)
(* whatever was lost of them (AddCondition, the reset in Handle).          *)
THEOREM ConditionsOnce == Spec => []ConditionsDistinct
<1>1. Init => ConditionsPaired
    BY DEF Init, Blank, ConditionsPaired
<1>2. ConditionsPaired /\ [Next]_vars => ConditionsPaired'
    BY NextPaired
<1>3. ConditionsPaired => ConditionsDistinct
    BY PairedDistinct
<1> QED BY <1>1, <1>2, <1>3, PTL DEF Spec

-----------------------------------------------------------------------------
(* The history of a pod is the difference of its counters with a reading.  *)

(* A pod that was upset gives up its history.                              *)
LEMMA MoveTracked ==
    ASSUME TypeOK, Tracked, NEW p \in Pods, NEW from, NEW to, Move(p, from, to)
    PROVE  Tracked'
<1>1. /\ \A q \in Pods : q # p => pods'[q] = pods[q] /\ since'[q] = since[q] /\ after'[q] = after[q]
      /\ ~since'[p].intact
      /\ p \in DOMAIN fresh => ~after'[p].intact
      /\ UNCHANGED <<stored, fresh, mark>>
    BY DEF Move, TypeOK, Truth
<1>2. DOMAIN stored.pods \subseteq Pods /\ DOMAIN fresh \subseteq Pods
    BY DEF TypeOK
<1>3. StoredTracked'
    BY <1>1, <1>2 DEF Tracked, StoredTracked, Advanced
<1>4. FreshTracked'
    BY <1>1, <1>2 DEF Tracked, FreshTracked, Advanced
<1>5. MarkTracked'
    BY <1>1 DEF Tracked, MarkTracked, Advanced
<1> QED BY <1>3, <1>4, <1>5 DEF Tracked

LEMMA PodInfoCounts ==
    ASSUME NEW info \in PodInfo
    PROVE  info.total \in Nat /\ info.failed \in Nat
BY DEF PodInfo

LEMMA ProcessTracked ==
    ASSUME TypeOK, Tracked, NEW p \in Pods, Process(p)
    PROVE  Tracked'
<1>1. PICK failure \in {0, 1} :
        /\ pods' = [pods EXCEPT ![p] = Count(@, failure)]
        /\ since' = [since EXCEPT ![p] = Count(@, failure)]
        /\ after' = IF p \in DOMAIN fresh
                     THEN [after EXCEPT ![p] = Count(@, failure)] ELSE after
    BY DEF Process
<1>2. /\ pods[p] \in PodStates /\ since[p] \in Truth /\ after[p] \in Truth
      /\ since[p].total \in Nat /\ since[p].failed \in Nat
      /\ after[p].total \in Nat /\ after[p].failed \in Nat
    BY DEF TypeOK, PodStates, Truth
<1>3. /\ \A q \in Pods : q # p => pods'[q] = pods[q] /\ since'[q] = since[q] /\ after'[q] = after[q]
      /\ pods'[p] = Count(pods[p], failure)
      /\ since'[p] = Count(since[p], failure)
      /\ p \in DOMAIN fresh => after'[p] = Count(after[p], failure)
      /\ UNCHANGED <<stored, fresh, mark>>
    BY <1>1 DEF Process, TypeOK
<1>4. pods'[p].total = pods[p].total + 1 /\ pods'[p].failed = pods[p].failed + failure
    BY <1>2, <1>3, CountPod
<1>5. /\ since'[p].total = since[p].total + 1 /\ since'[p].failed = since[p].failed + failure
      /\ since'[p].intact = since[p].intact
    BY <1>2, <1>3, CountTruth
<1>6. p \in DOMAIN fresh =>
        /\ after'[p].total = after[p].total + 1 /\ after'[p].failed = after[p].failed + failure
        /\ after'[p].intact = after[p].intact
    BY <1>2, <1>3, CountTruth
<1>7. DOMAIN stored.pods \subseteq Pods /\ DOMAIN fresh \subseteq Pods
    BY DEF TypeOK
<1>8. ASSUME NEW earlier, earlier.total \in Nat, earlier.failed \in Nat,
             NEW between, between.total \in Nat, between.failed \in Nat,
             Advanced(earlier, between, pods[p]),
             NEW later, later.total = between.total + 1, later.failed = between.failed + failure
      PROVE  Advanced(earlier, later, pods'[p])
    BY <1>4, <1>8 DEF Advanced
<1>9. StoredTracked'
    <2> SUFFICES ASSUME NEW q \in DOMAIN stored.pods, Counted(stored.pods[q]), since'[q].intact
                 PROVE  Advanced(stored.pods[q], since'[q], pods'[q])
        BY <1>3 DEF StoredTracked
    <2>1. CASE q = p
        <3>1. stored.pods[p].total \in Nat /\ stored.pods[p].failed \in Nat
            BY <1>7, <2>1, PodInfoCounts DEF TypeOK
        <3>2. Advanced(stored.pods[p], since[p], pods[p])
            BY <1>5, <2>1 DEF Tracked, StoredTracked
        <3> QED BY <1>2, <1>5, <1>8, <2>1, <3>1, <3>2
    <2>2. CASE q # p
        BY <1>3, <1>7, <2>2 DEF Tracked, StoredTracked
    <2> QED BY <2>1, <2>2
<1>10. FreshTracked'
    <2> SUFFICES ASSUME NEW q \in DOMAIN fresh, Counted(fresh[q]), after'[q].intact
                 PROVE  Advanced(fresh[q], after'[q], pods'[q])
        BY <1>3 DEF FreshTracked
    <2>1. CASE q = p
        <3>1. fresh[p].total \in Nat /\ fresh[p].failed \in Nat
            BY <1>7, <2>1, PodInfoCounts DEF TypeOK
        <3>2. Advanced(fresh[p], after[p], pods[p])
            BY <1>6, <2>1 DEF Tracked, FreshTracked
        <3> QED BY <1>2, <1>6, <1>8, <2>1, <3>1, <3>2
    <2>2. CASE q # p
        BY <1>3, <1>7, <2>2 DEF Tracked, FreshTracked
    <2> QED BY <2>1, <2>2
<1>11. MarkTracked'
    BY <1>3 DEF Tracked, MarkTracked
<1> QED BY <1>9, <1>10, <1>11 DEF Tracked

(* A reading ends a history of its pod and starts another, which are of no *)
(* use when its metrics were not whole.                                    *)
LEMMA ScrapedHistory ==
    ASSUME TypeOK, NEW p \in Pods, NEW info, NEW whole \in BOOLEAN, Scraped(p, info, whole)
    PROVE  /\ mark'[p].total = since[p].total /\ mark'[p].failed = since[p].failed
           /\ mark'[p].intact => since[p].intact /\ whole
           /\ after'[p].total = 0 /\ after'[p].failed = 0 /\ after'[p].intact = whole
           /\ \A q \in Pods : q # p => mark'[q] = mark[q] /\ after'[q] = after[q]
<1>1. mark' = [mark EXCEPT ![p] = [since[p] EXCEPT !.intact = @ /\ whole]]
    BY DEF Scraped
<1>2. after' = [after EXCEPT ![p] = [Nothing EXCEPT !.intact = whole]]
    BY DEF Scraped
<1>3. mark'[p] = [since[p] EXCEPT !.intact = since[p].intact /\ whole]
    BY <1>1 DEF TypeOK
<1>4. after'[p] = [Nothing EXCEPT !.intact = whole]
    BY <1>2 DEF TypeOK
<1>5. since[p] \in Truth
    BY DEF TypeOK
<1> QED BY <1>1, <1>2, <1>3, <1>4, <1>5 DEF TypeOK, Truth, Nothing

LEMMA ScrapedTracked ==
    ASSUME TypeOK, Tracked, NEW p \in Pods, NEW info \in PodInfo, NEW whole \in BOOLEAN,
           Scraped(p, info, whole), Reading(p, info, whole)
    PROVE  Tracked'
<1>0. whole /\ Counted(info) => info.total = pods[p].total /\ info.failed = pods[p].failed
    BY DEF Reading, Counted
<1>1. /\ p \notin DOMAIN fresh
      /\ DOMAIN fresh' = DOMAIN fresh \union {p}
      /\ fresh'[p] = info
      /\ \A q \in DOMAIN fresh : fresh'[q] = fresh[q] /\ q # p
      /\ UNCHANGED <<pods, stored, since>>
    BY DEF Scraped, TypeOK
<1>2. /\ mark'[p].total = since[p].total /\ mark'[p].failed = since[p].failed
      /\ mark'[p].intact => since[p].intact /\ whole
      /\ after'[p].total = 0 /\ after'[p].failed = 0 /\ after'[p].intact = whole
      /\ \A q \in Pods : q # p => mark'[q] = mark[q] /\ after'[q] = after[q]
    BY ScrapedHistory
<1>3. DOMAIN stored.pods \subseteq Pods /\ DOMAIN fresh \subseteq Pods
    BY DEF TypeOK
<1>4. StoredTracked'
    BY <1>1 DEF Tracked, StoredTracked
<1>5. FreshTracked'
    <2> SUFFICES ASSUME NEW q \in DOMAIN fresh', Counted(fresh'[q]), after'[q].intact
                 PROVE  Advanced(fresh'[q], after'[q], pods'[q])
        BY DEF FreshTracked
    <2>1. CASE q = p
        <3>1. info.total \in Nat /\ info.failed \in Nat
            BY DEF PodInfo
        <3> QED BY <1>0, <1>1, <1>2, <2>1, <3>1 DEF Advanced
    <2>2. CASE q # p
        BY <1>1, <1>2, <1>3, <2>2 DEF Tracked, FreshTracked
    <2> QED BY <2>1, <2>2
<1>6. MarkTracked'
    <2> SUFFICES ASSUME NEW q \in DOMAIN fresh' \intersect DOMAIN stored.pods,
                        Counted(stored.pods[q]), Counted(fresh'[q]), mark'[q].intact
                 PROVE  Advanced(stored.pods[q], mark'[q], fresh'[q])
        BY <1>1 DEF MarkTracked
    <2>1. CASE q = p
        <3>1. Advanced(stored.pods[p], since[p], pods[p])
            BY <1>2, <2>1 DEF Tracked, StoredTracked
        <3> QED BY <1>0, <1>1, <1>2, <2>1, <3>1 DEF Advanced
    <2>2. CASE q # p
        BY <1>1, <1>2, <1>3, <2>2 DEF Tracked, MarkTracked
    <2> QED BY <2>1, <2>2
<1> QED BY <1>4, <1>5, <1>6 DEF Tracked

LEMMA StoreTracked ==
    ASSUME TypeOK, Tracked, Store
    PROVE  Tracked'
<1>1. stored'.pods = fresh /\ pods' = pods /\ DOMAIN fresh' = {}
    BY DEF Store, Forget, NoPods
<1>2. \A p \in DOMAIN fresh : since'[p] = after[p]
    BY DEF Store, TypeOK
<1>3. StoredTracked'
    BY <1>1, <1>2 DEF Tracked, StoredTracked, FreshTracked
<1>4. FreshTracked' /\ MarkTracked'
    BY <1>1 DEF FreshTracked, MarkTracked
<1> QED BY <1>3, <1>4 DEF Tracked

LEMMA NextTracked == TypeOK /\ Tracked /\ [Next]_vars => Tracked'
<1> SUFFICES ASSUME TypeOK, Tracked, [Next]_vars PROVE Tracked'
    OBVIOUS
<1>1. CASE \E p \in Pods : PodSteps(p)
    <2>1. PICK p \in Pods : PodSteps(p)
        BY <1>1
    <2>2. CASE PodStarts(p) \/ PodVanishes(p)
        BY <2>2, MoveTracked DEF PodStarts, PodVanishes
    <2>3. CASE PodReady(p)
        <3>1. \A q \in Pods : pods'[q].total = pods[q].total /\ pods'[q].failed = pods[q].failed
            BY <2>3 DEF PodReady, TypeOK
        <3>2. DOMAIN stored.pods \subseteq Pods /\ DOMAIN fresh \subseteq Pods
            BY DEF TypeOK
        <3>3. UNCHANGED <<stored, fresh, since, mark, after>>
            BY <2>3 DEF PodReady, history
        <3>4. StoredTracked'
            BY <3>1, <3>2, <3>3 DEF Tracked, StoredTracked, Advanced
        <3>5. FreshTracked'
            BY <3>1, <3>2, <3>3 DEF Tracked, FreshTracked, Advanced
        <3>6. MarkTracked'
            BY <3>3 DEF Tracked, MarkTracked, Advanced
        <3> QED BY <3>4, <3>5, <3>6 DEF Tracked
    <2>4. CASE Process(p)
        BY <2>4, ProcessTracked
    <2> QED BY <2>1, <2>2, <2>3, <2>4 DEF PodSteps
<1>2. CASE \E p \in Pods : Scrape(p)
    BY <1>2, ScrapeCases, ScrapedTracked
<1>3. CASE Store
    BY <1>3, StoreTracked
<1>4. CASE ListPodsFails
    <2>1. DOMAIN stored'.pods = {} /\ UNCHANGED <<pods, fresh, after>>
        BY <1>4 DEF ListPodsFails, Blank, NoPods
    <2> QED BY <2>1 DEF Tracked, StoredTracked, FreshTracked, MarkTracked
<1>5. CASE PassLost
    <2>1. DOMAIN fresh' = {} /\ UNCHANGED <<pods, stored, since>>
        BY <1>5 DEF PassLost, Forget, NoPods
    <2> QED BY <2>1 DEF Tracked, StoredTracked, FreshTracked, MarkTracked
<1>6. CASE Scale \/ ListPods \/ UNCHANGED vars
    <2>1. UNCHANGED <<pods, stored, fresh, since, mark, after>>
        BY <1>6 DEF Scale, ListPods, vars, history
    <2> QED BY <2>1 DEF Tracked, StoredTracked, FreshTracked, MarkTracked
<1> QED BY <1>1, <1>2, <1>3, <1>4, <1>5, <1>6 DEF Next

-----------------------------------------------------------------------------
(* The success rate and its severity are the truth.                        *)

(* When two passes can be compared, the sums of the counters they read     *)
(* differ by what the pods processed between the two readings.             *)
LEMMA ComparableExact ==
    ASSUME TypeOK, ConditionsPaired, Tracked, Comparable,
           NEW read, read = [p \in DOMAIN fresh |-> mark[p]]
    PROVE  /\ Total(fresh) = Total(stored.pods) + Total(read)
           /\ Failed(fresh) = Failed(stored.pods) + Failed(read)
<1>1. IsFiniteSet(DOMAIN fresh) /\ DOMAIN fresh \subseteq Pods
    BY TypeFacts, InfoSums DEF InfoOK
<1>2. DOMAIN stored.pods = DOMAIN fresh /\ DOMAIN read = DOMAIN fresh
    BY DEF Comparable
<1>3. AllReady(stored.pods)
    BY PairedDistinct DEF Comparable
<1>4. ASSUME NEW p \in DOMAIN fresh
      PROVE  /\ stored.pods[p].total \in Nat /\ stored.pods[p].failed \in Nat
             /\ read[p].total \in Nat /\ read[p].failed \in Nat
             /\ fresh[p].total = stored.pods[p].total + read[p].total
             /\ fresh[p].failed = stored.pods[p].failed + read[p].failed
    <2>1. Counted(stored.pods[p]) /\ Counted(fresh[p]) /\ mark[p].intact
        BY <1>2, <1>3 DEF Comparable, AllReady, Counted
    <2>2. Advanced(stored.pods[p], mark[p], fresh[p])
        BY <1>2, <2>1 DEF Tracked, MarkTracked
    <2>3. mark[p].total \in Nat /\ mark[p].failed \in Nat
        BY <1>1 DEF TypeOK, Truth
    <2>4. stored.pods[p].total \in Nat /\ stored.pods[p].failed \in Nat
        BY <1>2, PodInfoCounts DEF TypeOK
    <2> QED BY <2>2, <2>3, <2>4 DEF Advanced
<1> QED BY <1>1, <1>2, <1>4, SumsDiffer

(* A rate from counts that did not go backwards says them as they are.     *)
LEMMA SuccessRateExact ==
    ASSUME NEW app \in Counts, NEW target \in Counts, NEW rounding \in BOOLEAN,
           NEW total \in Nat, target.total = app.total + total,
           NEW failed \in Nat, target.failed = app.failed + failed
    PROVE  LET sli == getSLIExchangeSuccessRate(app, target, rounding) IN
        /\ sli.total = total /\ sli.failed = failed
        /\ sli.rate = IF total > 0 THEN [failed |-> failed, total |-> total] ELSE None
        /\ sli.severity = Severity(failed, total, rounding)
<1>1. target.total - app.total = total /\ target.failed - app.failed = failed
    BY DEF Counts
<1>2. getSLIExchangeSuccessRate(app, target, rounding) =
        [total |-> IF total >= 0 THEN total ELSE 0,
         failed |-> IF failed >= 0 THEN failed ELSE 0,
         rate |-> IF total > 0 THEN [failed |-> failed, total |-> total] ELSE None,
         severity |-> Severity(failed, total, rounding)]
    BY <1>1 DEF getSLIExchangeSuccessRate
<1> QED BY <1>2

(* What exceeds a threshold as the code compares them is above it, or is   *)
(* lifted above it by rounding.                                            *)
Above(failed, total, percentage) ==
    IF total > 0 THEN 100 * failed > percentage * total ELSE 0 > percentage

Rounds(failed, total, percentage) ==
    100 * failed = percentage * total /\ failed \notin {0, total}

LEMMA ExceedsMeans ==
    ASSUME NEW failed \in Nat, NEW total \in Nat, NEW percentage \in Int,
           NEW rounding \in BOOLEAN
    PROVE  /\ Above(failed, total, percentage) => Exceeds(failed, total, percentage, rounding)
           /\ Exceeds(failed, total, percentage, rounding) =>
                Above(failed, total, percentage) \/ Rounds(failed, total, percentage)
<1>1. CASE total > 0
    <2> DEFINE limit == percentage * total
               hundred == 100 * failed
    <2> HIDE DEF limit, hundred
    <2>1. /\ Above(failed, total, percentage) <=> hundred > limit
          /\ Rounds(failed, total, percentage) <=> hundred = limit /\ failed \notin {0, total}
          /\ Exceeds(failed, total, percentage, rounding) <=>
                \/ hundred > limit
                \/ rounding /\ hundred = limit /\ failed \notin {0, total}
        BY <1>1 DEF Above, Rounds, Exceeds, limit, hundred
    <2> QED BY <2>1
<1>2. CASE ~(total > 0)
    BY <1>2 DEF Above, Exceeds
<1> QED BY <1>1, <1>2

(* What a severity says of the failures it was computed from.              *)
LEMMA SeverityMeans ==
    ASSUME NEW failed \in Nat, NEW total \in Nat, NEW rounding \in BOOLEAN
    PROVE  LET severity == Severity(failed, total, rounding) IN
        /\ Above(failed, total, WarnPerc) => severity = "Error"
        /\ severity = "Error" =>
            Above(failed, total, WarnPerc) \/ Rounds(failed, total, WarnPerc)
        /\ Above(failed, total, ErrPerc) => severity \in {"Error", "Warning"}
        /\ severity = "Warning" =>
            Above(failed, total, ErrPerc) \/ Rounds(failed, total, ErrPerc)
        /\ severity = "" <=>
            total = 0 /\ ~Above(failed, total, WarnPerc) /\ ~Above(failed, total, ErrPerc)
<1> DEFINE severity == Severity(failed, total, rounding)
           error == Exceeds(failed, total, WarnPerc, rounding)
           warning == Exceeds(failed, total, ErrPerc, rounding)
<1>1. failed \in Int /\ total \in Int /\ (total = 0 <=> ~(total > 0))
    OBVIOUS
<1>2. /\ severity = "Error" <=> error
      /\ severity \in {"Error", "Warning"} <=> error \/ warning
      /\ severity = "Warning" => warning
      /\ severity = "" <=> ~(total > 0) /\ ~error /\ ~warning
    BY <1>1, SeverityResult
<1>3. ErrPerc \in Int /\ WarnPerc \in Int
    BY PercentAssumption
<1>4. /\ Above(failed, total, WarnPerc) => error
      /\ error => Above(failed, total, WarnPerc) \/ Rounds(failed, total, WarnPerc)
      /\ Above(failed, total, ErrPerc) => warning
      /\ warning => Above(failed, total, ErrPerc) \/ Rounds(failed, total, ErrPerc)
    BY <1>3, ExceedsMeans
<1>5. total = 0 => (error <=> Above(failed, total, WarnPerc))
                    /\ (warning <=> Above(failed, total, ErrPerc))
    BY DEF Exceeds, Above
<1> HIDE DEF severity, error, warning
<1> QED BY <1>1, <1>2, <1>4, <1>5 DEF severity

LEMMA StoreExact ==
    ASSUME TypeOK, ConditionsPaired, Tracked, Store
    PROVE  ExactWhenMonitored' /\ SeverityHonest'
<1> DEFINE app == getInfo(stored.pods)
           target == getInfo(fresh)
           read == [p \in DOMAIN fresh |-> mark[p]]
<1>1. PICK rounding \in BOOLEAN :
        stored' = [pods |-> fresh,
                   replicas |-> desired,
                   sli |-> IF app = None \/ target = None THEN None
                           ELSE getSLIExchangeSuccessRate(app, target, rounding),
                   conditions |-> Conditions(stored, fresh)]
    BY DEF Store
<1>2. truth' = IF Comparable THEN [total |-> Total(read), failed |-> Failed(read)] ELSE None
    BY DEF Store
<1>3. SUFFICES ASSUME truth' # None, stored'.sli # None
               PROVE  ExactWhenMonitored' /\ SeverityHonest'
    BY DEF ExactWhenMonitored, SeverityHonest
<1>4. Comparable /\ truth' = [total |-> Total(read), failed |-> Failed(read)]
    BY <1>2, <1>3
<1>5. /\ app # None /\ target # None
      /\ stored'.sli = getSLIExchangeSuccessRate(app, target, rounding)
    BY <1>1, <1>3
<1>6. /\ Total(stored.pods) \in Nat /\ Failed(stored.pods) \in Nat
      /\ Total(fresh) \in Nat /\ Failed(fresh) \in Nat
      /\ app = [total |-> Total(stored.pods), failed |-> Failed(stored.pods)]
      /\ target = [total |-> Total(fresh), failed |-> Failed(fresh)]
    BY <1>5, TypeFacts, InfoSums
<1>7. Total(read) \in Nat /\ Failed(read) \in Nat
    BY ReadSums
<1>8. /\ app \in Counts /\ target \in Counts
      /\ target.total = app.total + Total(read)
      /\ target.failed = app.failed + Failed(read)
    <2>1. /\ Total(fresh) = Total(stored.pods) + Total(read)
          /\ Failed(fresh) = Failed(stored.pods) + Failed(read)
        BY <1>4, ComparableExact
    <2> HIDE DEF app, target, read
    <2> QED BY <1>6, <2>1 DEF Counts
<1> DEFINE total == Total(read)
           failed == Failed(read)
<1>9. /\ stored'.sli.total = total /\ stored'.sli.failed = failed
      /\ stored'.sli.rate = IF total > 0 THEN [failed |-> failed, total |-> total] ELSE None
      /\ stored'.sli.severity = Severity(failed, total, rounding)
    <2> HIDE DEF app, target, read
    <2> QED BY <1>5, <1>7, <1>8, SuccessRateExact
<1>10. truth'.total = total /\ truth'.failed = failed
    BY <1>4
<1> HIDE DEF total, failed
<1>11. ExactWhenMonitored'
    BY <1>9, <1>10 DEF ExactWhenMonitored
<1>12. SeverityHonest'
    <2>1. total \in Nat /\ failed \in Nat
        BY <1>7 DEF total, failed
    <2>2. /\ FailureRateAbove(WarnPerc)' = Above(failed, total, WarnPerc)
          /\ FailureRateAbove(ErrPerc)' = Above(failed, total, ErrPerc)
          /\ FailureRateRounds(WarnPerc)' = Rounds(failed, total, WarnPerc)
          /\ FailureRateRounds(ErrPerc)' = Rounds(failed, total, ErrPerc)
        BY <1>10 DEF FailureRateAbove, FailureRateRounds, Above, Rounds
    <2> HIDE DEF total, failed
    <2> QED BY <1>9, <1>10, <2>1, <2>2, SeverityMeans DEF SeverityHonest
<1> QED BY <1>11, <1>12

LEMMA InitInv == Init => IInv
<1> SUFFICES ASSUME Init PROVE IInv
    OBVIOUS
<1>1. DOMAIN stored.pods = {} /\ DOMAIN fresh = {} /\ truth = None /\ stored.conditions = <<>>
    BY DEF Init, Blank, NoPods
<1>2. Tracked
    BY <1>1 DEF Tracked, StoredTracked, FreshTracked, MarkTracked
<1> QED BY <1>1, <1>2, InitType
        DEF IInv, ConditionsPaired, ExactWhenMonitored, SeverityHonest

LEMMA NextInv == IInv /\ [Next]_vars => IInv'
<1> SUFFICES ASSUME IInv, [Next]_vars PROVE IInv'
    OBVIOUS
<1>1. TypeOK' /\ Idle' /\ ConditionsPaired' /\ Tracked'
    BY NextType, NextIdle, NextPaired, NextTracked DEF IInv
<1>2. ExactWhenMonitored' /\ SeverityHonest'
    <2>1. CASE Store
        BY <2>1, StoreExact DEF IInv
    <2>2. CASE ListPodsFails
        BY <2>2 DEF ListPodsFails, ExactWhenMonitored, SeverityHonest
    <2>3. CASE UNCHANGED <<stored, truth>>
        BY <2>3 DEF IInv, ExactWhenMonitored, SeverityHonest, FailureRateAbove, FailureRateRounds
    <2> QED BY <2>1, <2>2, <2>3, StatusKept DEF vars, history
<1> QED BY <1>1, <1>2 DEF IInv

(* When two statuses in a row say that all pods are monitored, of the same *)
(* pods in the same run, whose metrics gave both counters as they were at  *)
(* either reading, the success rate of the second counts every exchange    *)
(* between the two readings of each pod once, whatever was processed       *)
(* during the scrapes, whatever passes were lost in between and whatever   *)
(* earlier readings left out (GetPods, getInfo,                            *)
(* getSLIExchangeSuccessRate).                                             *)
THEOREM RateExact == Spec => []ExactWhenMonitored
<1>1. IInv => ExactWhenMonitored
    BY DEF IInv
<1> QED BY <1>1, InitInv, NextInv, PTL DEF Spec

(* The severity of such a rate follows the thresholds, for every two of    *)
(* them: Error above the one for warnings, Warning above the other alone,  *)
(* Success above neither, and nothing without exchanges, unless a          *)
(* threshold is negative.  At a threshold, and only there, the rounding of *)
(* the quotient may raise it (getSLIExchangeSuccessRate).                  *)
THEOREM SeverityTrue == Spec => []SeverityHonest
<1>1. IInv => SeverityHonest
    BY DEF IInv
<1> QED BY <1>1, InitInv, NextInv, PTL DEF Spec

-----------------------------------------------------------------------------
(* The percentage of an interval in which each pod is counted again.       *)

(* No more exchanges failed than there were.                               *)
Ordered(counts) == counts.failed <= counts.total

AllOrdered ==
    \A p \in Pods :
        Ordered(pods[p]) /\ Ordered(since[p]) /\ Ordered(mark[p]) /\ Ordered(after[p])

LEMMA MoveOrdered ==
    ASSUME TypeOK, AllOrdered, NEW p \in Pods, NEW from, NEW to, Move(p, from, to)
    PROVE  AllOrdered'
<1>1. /\ pods' = [pods EXCEPT ![p] = [state |-> to, total |-> 0, failed |-> 0]]
      /\ since' = [since EXCEPT ![p].intact = FALSE]
      /\ after' = after \/ after' = [after EXCEPT ![p].intact = FALSE]
      /\ UNCHANGED <<stored, fresh, mark>>
    BY DEF Move
<1>2. ASSUME NEW q \in Pods PROVE Ordered(pods'[q]) /\ Ordered(since'[q]) /\ Ordered(after'[q])
    <2>1. Ordered(pods[q]) /\ Ordered(since[q]) /\ Ordered(after[q])
        BY DEF AllOrdered
    <2>2. Ordered(pods'[q])
        BY <1>1, <2>1 DEF TypeOK, Ordered
    <2>3. Ordered(since'[q])
        BY <1>1, <2>1 DEF TypeOK, Truth, Ordered
    <2>4. Ordered(after'[q])
        <3>1. CASE after' = after
            BY <2>1, <3>1
        <3>2. CASE after' = [after EXCEPT ![p].intact = FALSE]
            BY <2>1, <3>2 DEF TypeOK, Truth, Ordered
        <3> QED BY <1>1, <3>1, <3>2
    <2> QED BY <2>2, <2>3, <2>4
<1> QED BY <1>1, <1>2 DEF AllOrdered

LEMMA ProcessOrdered ==
    ASSUME TypeOK, AllOrdered, NEW p \in Pods, Process(p)
    PROVE  AllOrdered'
<1>1. PICK failure \in {0, 1} :
        /\ pods' = [pods EXCEPT ![p] = Count(@, failure)]
        /\ since' = [since EXCEPT ![p] = Count(@, failure)]
        /\ after' = IF p \in DOMAIN fresh
                     THEN [after EXCEPT ![p] = Count(@, failure)] ELSE after
    BY DEF Process
<1>2. /\ pods[p] \in PodStates /\ since[p] \in Truth /\ after[p] \in Truth
    BY DEF TypeOK, PodStates
<1>3. /\ Ordered(Count(pods[p], failure))
      /\ Ordered(Count(since[p], failure))
      /\ Ordered(Count(after[p], failure))
    <2>1. Ordered(pods[p]) /\ Ordered(since[p]) /\ Ordered(after[p])
        BY DEF AllOrdered
    <2>2. ASSUME NEW counts, counts.total \in Nat, counts.failed \in Nat, Ordered(counts),
                 NEW more, more.total = counts.total + 1,
                 more.failed = counts.failed + failure
          PROVE  Ordered(more)
        BY <2>2 DEF Ordered
    <2>3. /\ pods[p].total \in Nat /\ pods[p].failed \in Nat
          /\ since[p].total \in Nat /\ since[p].failed \in Nat
          /\ after[p].total \in Nat /\ after[p].failed \in Nat
        BY <1>2 DEF PodStates, Truth
    <2>4. Ordered(Count(pods[p], failure))
        BY <1>2, <2>1, <2>2, <2>3, CountPod
    <2>5. Ordered(Count(since[p], failure))
        BY <1>2, <2>1, <2>2, <2>3, CountTruth
    <2>6. Ordered(Count(after[p], failure))
        BY <1>2, <2>1, <2>2, <2>3, CountTruth
    <2> QED BY <2>4, <2>5, <2>6
<1>4. UNCHANGED <<stored, fresh, mark>>
    BY DEF Process
<1>5. ASSUME NEW q \in Pods PROVE Ordered(pods'[q]) /\ Ordered(since'[q]) /\ Ordered(after'[q])
    BY <1>1, <1>3 DEF AllOrdered, TypeOK
<1> QED BY <1>4, <1>5 DEF AllOrdered

LEMMA ScrapedOrdered ==
    ASSUME TypeOK, AllOrdered, NEW p \in Pods, NEW info, NEW whole \in BOOLEAN,
           Scraped(p, info, whole)
    PROVE  AllOrdered'
<1>1. Ordered(since[p])
    BY DEF AllOrdered
<1>2. Ordered(mark'[p]) /\ Ordered(after'[p])
    BY <1>1, ScrapedHistory DEF Ordered
<1>3. \A q \in Pods : Ordered(mark'[q]) /\ Ordered(after'[q])
    BY <1>2, ScrapedHistory DEF AllOrdered
<1>4. UNCHANGED <<pods, since>>
    BY DEF Scraped
<1> QED BY <1>3, <1>4 DEF AllOrdered

LEMMA NextOrdered == TypeOK /\ AllOrdered /\ [Next]_vars => AllOrdered'
<1> SUFFICES ASSUME TypeOK, AllOrdered, [Next]_vars PROVE AllOrdered'
    OBVIOUS
<1>0. Ordered(Nothing)
    BY DEF Ordered, Nothing
<1>1. CASE \E p \in Pods : PodSteps(p)
    <2>1. PICK p \in Pods : PodSteps(p)
        BY <1>1
    <2>2. CASE PodStarts(p) \/ PodVanishes(p)
        BY <2>2, MoveOrdered DEF PodStarts, PodVanishes
    <2>3. CASE PodReady(p)
        <3>1. \A q \in Pods : pods'[q].total = pods[q].total /\ pods'[q].failed = pods[q].failed
            BY <2>3 DEF PodReady, TypeOK
        <3>2. UNCHANGED <<stored, fresh, since, mark, after>>
            BY <2>3 DEF PodReady, history
        <3> QED BY <3>1, <3>2 DEF AllOrdered, Ordered
    <2>4. CASE Process(p)
        BY <2>4, ProcessOrdered
    <2> QED BY <2>1, <2>2, <2>3, <2>4 DEF PodSteps
<1>2. CASE \E p \in Pods : Scrape(p)
    BY <1>2, ScrapeCases, ScrapedOrdered
<1>3. CASE Store
    <2>1. stored'.pods = fresh /\ DOMAIN fresh' = {} /\ pods' = pods
        BY <1>3 DEF Store, Forget, NoPods
    <2>2. \A p \in Pods : /\ since'[p] \in {since[p], after[p]}
                          /\ mark'[p] = Nothing /\ after'[p] = Nothing
        BY <1>3 DEF Store, Forget
    <2> QED BY <1>0, <2>1, <2>2 DEF AllOrdered
<1>4. CASE ListPodsFails
    <2>1. DOMAIN stored'.pods = {} /\ UNCHANGED <<pods, fresh, since, mark, after>>
        BY <1>4 DEF ListPodsFails, Blank, NoPods
    <2> QED BY <2>1 DEF AllOrdered
<1>5. CASE PassLost
    <2>1. DOMAIN fresh' = {} /\ UNCHANGED <<pods, stored, since>>
        BY <1>5 DEF PassLost, Forget, NoPods
    <2>2. \A p \in Pods : mark'[p] = Nothing /\ after'[p] = Nothing
        BY <1>5 DEF PassLost, Forget
    <2> QED BY <1>0, <2>1, <2>2 DEF AllOrdered
<1>6. CASE Scale \/ ListPods \/ UNCHANGED vars
    <2>1. UNCHANGED <<pods, stored, fresh, since, mark, after>>
        BY <1>6 DEF Scale, ListPods, vars, history
    <2> QED BY <2>1 DEF AllOrdered
<1> QED BY <1>1, <1>2, <1>3, <1>4, <1>5, <1>6 DEF Next

(* Terms of some pods, with zero for the others.                           *)
Padded(terms) == [p \in Pods |-> IF p \in DOMAIN terms THEN terms[p] ELSE 0]

LEMMA PaddedSum ==
    ASSUME NEW terms, DOMAIN terms \subseteq Pods, \A p \in DOMAIN terms : terms[p] \in Nat,
           NEW over, IsSum(over, terms, DOMAIN terms),
           NEW sum, IsSum(sum, Padded(terms), Pods)
    PROVE  sum[Pods] = over[DOMAIN terms]
<1>1. \A p \in DOMAIN terms : terms[p] \in Int /\ Padded(terms)[p] = terms[p]
    BY DEF Padded
<1>2. \A p \in Pods \ DOMAIN terms : Padded(terms)[p] = 0
    BY DEF Padded
<1> QED BY <1>1, <1>2, SumOfSome, PodsAssumption

(* Where each pod adds between nothing and what another sum adds for it,   *)
(* so does the sum.                                                        *)
LEMMA SumsBetween ==
    ASSUME NEW oldF, NEW newF, NEW oldT, NEW newT,
           \A p \in Pods :
               /\ oldF[p] \in Nat /\ newF[p] \in Nat /\ oldT[p] \in Nat /\ newT[p] \in Nat
               /\ newF[p] - oldF[p] \in 0 .. newT[p] - oldT[p],
           NEW sumOldF, IsSum(sumOldF, oldF, Pods), NEW sumNewF, IsSum(sumNewF, newF, Pods),
           NEW sumOldT, IsSum(sumOldT, oldT, Pods), NEW sumNewT, IsSum(sumNewT, newT, Pods)
    PROVE  sumNewF[Pods] - sumOldF[Pods] \in 0 .. sumNewT[Pods] - sumOldT[Pods]
<1> DEFINE moreF == [p \in Pods |-> newF[p] - oldF[p]]
           moreT == [p \in Pods |-> newT[p] - oldT[p]]
           other == [p \in Pods |-> moreT[p] - moreF[p]]
<1>1. PICK sumMoreF : IsSum(sumMoreF, moreF, Pods)
    BY SumExists, PodsAssumption
<1>2. PICK sumMoreT : IsSum(sumMoreT, moreT, Pods)
    BY SumExists, PodsAssumption
<1>3. PICK sumOther : IsSum(sumOther, other, Pods)
    BY SumExists, PodsAssumption
<1>4. \A p \in Pods :
        /\ moreF[p] \in Nat /\ other[p] \in Nat /\ moreT[p] = moreF[p] + other[p]
        /\ newF[p] = oldF[p] + moreF[p] /\ newT[p] = oldT[p] + moreT[p] /\ moreT[p] \in Nat
    OBVIOUS
<1> HIDE DEF moreF, moreT, other
<1>5. /\ sumMoreF[Pods] \in Nat /\ sumOther[Pods] \in Nat
      /\ sumOldF[Pods] \in Nat /\ sumOldT[Pods] \in Nat
    BY <1>1, <1>3, <1>4, SumType, PodsAssumption
<1>6. sumMoreT[Pods] = sumMoreF[Pods] + sumOther[Pods]
    BY <1>1, <1>2, <1>3, <1>4, SumsAdd, PodsAssumption
<1>7. sumNewF[Pods] = sumOldF[Pods] + sumMoreF[Pods]
    BY <1>1, <1>4, SumsAdd, PodsAssumption
<1>8. sumNewT[Pods] = sumOldT[Pods] + sumMoreT[Pods]
    BY <1>2, <1>4, SumsAdd, PodsAssumption
<1> QED BY <1>5, <1>6, <1>7, <1>8

(* Where each pod that had exchanges is read again later, the failures of  *)
(* all pods grew by no more than their exchanges.                          *)
LEMMA SumsGrow ==
    ASSUME NEW old, InfoOK(old), \A p \in DOMAIN old : Ordered(old[p]),
           NEW new, InfoOK(new), \A p \in DOMAIN new : Ordered(new[p]),
           \A p \in DOMAIN old : old[p].total > 0 =>
               /\ p \in DOMAIN new
               /\ new[p].failed - old[p].failed \in 0 .. new[p].total - old[p].total
    PROVE  Failed(new) - Failed(old) \in 0 .. Total(new) - Total(old)
<1> DEFINE oldF == Padded(Failures(old))
           newF == Padded(Failures(new))
           oldT == Padded(Totals(old))
           newT == Padded(Totals(new))
<1>1. PICK sumOldF : IsSum(sumOldF, oldF, Pods)
    BY SumExists, PodsAssumption
<1>2. PICK sumNewF : IsSum(sumNewF, newF, Pods)
    BY SumExists, PodsAssumption
<1>3. PICK sumOldT : IsSum(sumOldT, oldT, Pods)
    BY SumExists, PodsAssumption
<1>4. PICK sumNewT : IsSum(sumNewT, newT, Pods)
    BY SumExists, PodsAssumption
<1>5. ASSUME NEW info, InfoOK(info)
      PROVE  /\ DOMAIN Failures(info) = DOMAIN info /\ DOMAIN Totals(info) = DOMAIN info
             /\ DOMAIN info \subseteq Pods /\ IsFiniteSet(DOMAIN info)
             /\ \A p \in DOMAIN info : Failures(info)[p] \in Nat /\ Totals(info)[p] \in Nat
    <2>1. \A p \in DOMAIN info : info[p].total \in Nat /\ info[p].failed \in Nat
        BY <1>5 DEF InfoOK, PodInfo
    <2> QED BY <1>5, <2>1, InfoSums DEF Failures, Totals, InfoOK
<1>6. sumOldF[Pods] = Failed(old) /\ sumNewF[Pods] = Failed(new)
    BY <1>1, <1>2, <1>5, FailedIsSum, PaddedSum
<1>7. sumOldT[Pods] = Total(old) /\ sumNewT[Pods] = Total(new)
    BY <1>3, <1>4, <1>5, TotalIsSum, PaddedSum
<1>8. ASSUME NEW p \in Pods
      PROVE  /\ oldF[p] \in Nat /\ newF[p] \in Nat /\ oldT[p] \in Nat /\ newT[p] \in Nat
             /\ newF[p] - oldF[p] \in 0 .. newT[p] - oldT[p]
    <2>1. /\ oldF[p] = IF p \in DOMAIN old THEN old[p].failed ELSE 0
          /\ oldT[p] = IF p \in DOMAIN old THEN old[p].total ELSE 0
          /\ newF[p] = IF p \in DOMAIN new THEN new[p].failed ELSE 0
          /\ newT[p] = IF p \in DOMAIN new THEN new[p].total ELSE 0
        BY DEF Padded, Failures, Totals
    <2>2. /\ p \in DOMAIN old => old[p].failed \in Nat /\ old[p].total \in Nat
          /\ p \in DOMAIN new => new[p].failed \in Nat /\ new[p].total \in Nat
        BY DEF InfoOK, PodInfo
    <2>3. /\ p \in DOMAIN old => old[p].failed <= old[p].total
          /\ p \in DOMAIN new => new[p].failed <= new[p].total
        BY DEF Ordered
    <2>4. p \in DOMAIN old /\ old[p].total > 0 =>
               /\ p \in DOMAIN new
               /\ new[p].failed - old[p].failed \in 0 .. new[p].total - old[p].total
        OBVIOUS
    <2> HIDE DEF oldF, newF, oldT, newT
    <2>5. /\ oldF[p] \in Nat /\ newF[p] \in Nat /\ oldT[p] \in Nat /\ newT[p] \in Nat
          /\ oldF[p] <= oldT[p] /\ newF[p] <= newT[p]
        BY <2>1, <2>2, <2>3
    <2>6. CASE oldT[p] = 0
        BY <2>5, <2>6
    <2>7. CASE oldT[p] # 0
        <3>1. p \in DOMAIN old /\ old[p].total > 0
            BY <2>1, <2>2, <2>7
        <3>2. p \in DOMAIN new /\ new[p].failed - old[p].failed \in 0 .. new[p].total - old[p].total
            BY <2>4, <3>1
        <3> QED BY <2>1, <2>5, <3>1, <3>2
    <2> QED BY <2>5, <2>6, <2>7
<1> HIDE DEF oldF, newF, oldT, newT
<1>9. sumNewF[Pods] - sumOldF[Pods] \in 0 .. sumNewT[Pods] - sumOldT[Pods]
    BY <1>1, <1>2, <1>3, <1>4, <1>8, SumsBetween
<1> QED BY <1>6, <1>7, <1>9

(* A rate from counts that grew so is within its bounds.                   *)
LEMMA SuccessRateBounded ==
    ASSUME NEW app \in Counts, NEW target \in Counts, NEW rounding \in BOOLEAN,
           target.failed - app.failed \in 0 .. target.total - app.total,
           getSLIExchangeSuccessRate(app, target, rounding).rate # None
    PROVE  LET rate == getSLIExchangeSuccessRate(app, target, rounding).rate IN
               rate.failed \in 0 .. rate.total
<1> DEFINE total == target.total - app.total
           failed == target.failed - app.failed
<1>1. getSLIExchangeSuccessRate(app, target, rounding).rate =
        IF total > 0 THEN [failed |-> failed, total |-> total] ELSE None
    BY DEF getSLIExchangeSuccessRate
<1>2. getSLIExchangeSuccessRate(app, target, rounding).rate = [failed |-> failed, total |-> total]
    BY <1>1
<1> QED BY <1>2

LEMMA StoreKeepsPercentage ==
    ASSUME TypeOK, Tracked, AllOrdered, Store, CountedAgain,
           stored'.sli # None, stored'.sli.rate # None
    PROVE  stored'.sli.rate.failed \in 0 .. stored'.sli.rate.total
<1> DEFINE app == getInfo(stored.pods)
           target == getInfo(fresh)
<1>1. PICK rounding \in BOOLEAN :
        stored'.sli = IF app = None \/ target = None THEN None
                      ELSE getSLIExchangeSuccessRate(app, target, rounding)
    BY DEF Store
<1>2. /\ app # None /\ target # None
      /\ stored'.sli = getSLIExchangeSuccessRate(app, target, rounding)
    BY <1>1
<1>3. /\ app = [total |-> Total(stored.pods), failed |-> Failed(stored.pods)]
      /\ target = [total |-> Total(fresh), failed |-> Failed(fresh)]
      /\ app \in Counts /\ target \in Counts
    BY <1>2, TypeFacts, InfoSums DEF Counts
<1>4. ASSUME NEW p \in DOMAIN stored.pods, stored.pods[p].total > 0
      PROVE  /\ p \in DOMAIN fresh
             /\ fresh[p].failed - stored.pods[p].failed \in
                    0 .. fresh[p].total - stored.pods[p].total
    <2>1. p \in DOMAIN fresh /\ fresh[p].total > 0 /\ mark[p].intact
        BY <1>4 DEF CountedAgain
    <2>2. Advanced(stored.pods[p], mark[p], fresh[p])
        BY <1>4, <2>1 DEF Tracked, MarkTracked, Counted
    <2>3. /\ p \in Pods
          /\ stored.pods[p].total \in Nat /\ stored.pods[p].failed \in Nat
          /\ mark[p].total \in Nat /\ mark[p].failed \in Nat
        BY PodInfoCounts DEF TypeOK, Truth
    <2>4. mark[p].failed <= mark[p].total
        BY <2>3 DEF AllOrdered, Ordered
    <2> QED BY <2>1, <2>2, <2>3, <2>4 DEF Advanced
<1>5. Failed(fresh) - Failed(stored.pods) \in 0 .. Total(fresh) - Total(stored.pods)
    BY <1>4, TypeFacts, SumsGrow DEF CountedAgain, Paired, Ordered
<1>6. target.failed - app.failed \in 0 .. target.total - app.total
    <2> HIDE DEF app, target
    <2> QED BY <1>3, <1>5
<1> HIDE DEF app, target
<1> QED BY <1>2, <1>3, <1>6, SuccessRateBounded

(* As long as no pod shows more failures than exchanges and each pod with  *)
(* exchanges in the previous status is counted again in the same run, with *)
(* both counters as they are, the percentage lies between 0 and 100,       *)
(* whatever else happens to the pods and their endpoints (getInfo,         *)
(* getSLIExchangeSuccessRate).                                             *)
THEOREM PercentageInBounds == Spec => PercentageKept
<1> DEFINE Inv == TypeOK /\ Idle /\ Tracked /\ AllOrdered
<1>1. Init => Inv
    <2> SUFFICES ASSUME Init PROVE Tracked /\ AllOrdered
        BY InitType
    <2>1. DOMAIN stored.pods = {} /\ DOMAIN fresh = {}
        BY DEF Init, Blank, NoPods
    <2>2. Ordered(Nothing)
        BY DEF Ordered, Nothing
    <2>3. \A p \in Pods : Ordered(pods[p])
        BY DEF Init, Ordered
    <2> QED BY <2>1, <2>2, <2>3
            DEF Init, Tracked, StoredTracked, FreshTracked, MarkTracked, AllOrdered
<1>2. Inv /\ [Next]_vars => Inv'
    BY NextType, NextIdle, NextTracked, NextOrdered
<1>3. Inv /\ [Next]_vars =>
        [stored' # stored /\ CountedAgain /\ stored'.sli # None /\ stored'.sli.rate # None
            => stored'.sli.rate.failed \in 0 .. stored'.sli.rate.total]_vars
    <2> SUFFICES ASSUME Inv, Next, stored' # stored, CountedAgain,
                        stored'.sli # None, stored'.sli.rate # None
                 PROVE  stored'.sli.rate.failed \in 0 .. stored'.sli.rate.total
        OBVIOUS
    <2>1. CASE Store
        BY <2>1, StoreKeepsPercentage
    <2>2. CASE ListPodsFails
        BY <2>2 DEF ListPodsFails, Blank
    <2> QED BY <2>1, <2>2, StatusKept
<1> HIDE DEF Inv
<1> QED BY <1>1, <1>2, <1>3, PTL DEF Spec, PercentageKept
=============================================================================
