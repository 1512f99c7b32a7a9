----------------------------- MODULE MonitorPass -----------------------------
(***************************************************************************)
(* What one pass of the monitor action measures: it lists the pods of a    *)
(* Deployment, scrapes the health and the metrics of those that are ready, *)
(* one pod after the other, sums their exchange counters, and turns the    *)
(* difference with the counters of the stored status into the success rate *)
(* of the interval.  The pods process exchanges, restart, come and go all  *)
(* the while, and an endpoint may fail at any scrape.                      *)
(*                                                                         *)
(* The counters of a pod count from its start and the status keeps the     *)
(* readings, not the time they were taken: the history variables below     *)
(* hold what really was processed between two readings of a pod.  An       *)
(* answer of the metrics endpoint that is good need not give the counters  *)
(* as they are, which leaves the pod as ready as one that does.            *)
(***************************************************************************)
EXTENDS Integers, FiniteSets, Sequences, Functions

CONSTANTS
    Pods,          \* names of pods of the Deployment
    Named,         \* pods whose metrics carry app_info
    ErrPerc,       \* getSLIExchangeErrorThreshold
    WarnPerc,      \* getSLIExchangeWarningThreshold
    Answers,       \* what health endpoints say: UP, DOWN (anything but UP)
    None,          \* no runtime information, success rate or replicas
    Replicas,      \* replicas the Deployment asks for at first
    MaxExchanges,  \* bound on the exchanges processed
    MaxUpsets,     \* bound on pods that appear, restart or vanish
    MaxFaults      \* bound on endpoints and calls that fail

ASSUME PodsAssumption == IsFiniteSet(Pods) /\ Named \subseteq Pods
ASSUME AnswersAssumption == Answers \subseteq {"UP", "DOWN"}
ASSUME ReplicasAssumption == Replicas \in 0 .. Cardinality(Pods)
ASSUME PercentAssumption == ErrPerc \in Int /\ WarnPerc \in Int
ASSUME BoundsAssumption == MaxExchanges \in Nat /\ MaxUpsets \in Nat /\ MaxFaults \in Nat

Counts == [total : Nat, failed : Nat]

(* status is empty when the health endpoint told nothing, named when a     *)
(* runtime provider was read; counters that were not read are zero.        *)
PodInfo == [ready : BOOLEAN, status : {"UP", "DOWN", ""},
            named : BOOLEAN, total : Nat, failed : Nat]

(* History: exchanges a pod processed between two readings, and whether it *)
(* was the same run of the pod throughout, whose answers gave both         *)
(* counters as they were.                                                  *)
Truth == [total : Nat, failed : Nat, intact : BOOLEAN]

Nothing == [total |-> 0, failed |-> 0, intact |-> TRUE]

VARIABLES
    pods,       \* state and counters of the pods
    desired,    \* replicas the Deployment asks for
    stored,     \* the status of the CamelApp
    todo,       \* pods of the list still to look at
    ready,      \* those the list says are ready
    fresh,      \* the pods scraped so far by this pass
    busy,       \* a pass is under way
    since,      \* history: truth of each pod since its stored reading
    mark,       \* history: the same at its reading by this pass
    after,      \* history: truth of each pod since that reading
    truth,      \* history: what the stored success rate should say, or None
    work,       \* exchanges processed
    upsets,     \* pods that appeared, restarted or vanished
    faults      \* endpoints and calls that failed

history == <<since, mark, after, truth>>
bounds == <<work, upsets, faults>>
vars == <<pods, desired, stored, todo, ready, fresh, busy, history, bounds>>

-----------------------------------------------------------------------------
(* Computations.                                                           *)

Total(info) == FoldFunction(LAMBDA p, n : n + p.total, 0, info)
Failed(info) == FoldFunction(LAMBDA p, n : n + p.failed, 0, info)

(* Runtime information is the sum over the pods; there is none when no pod *)
(* gave a provider and no exchange was counted.                            *)
getInfo(info) ==
    IF Total(info) = 0 /\ \A p \in DOMAIN info : ~info[p].named THEN None
    ELSE [total |-> Total(info), failed |-> Failed(info)]

(* The failure rate as a float: the quotient is rounded before it is       *)
(* multiplied by 100, which may lift a rate that equals the threshold      *)
(* above it (7 failures in 100 exceed 7 percent).                          *)
Exceeds(failed, total, percentage, rounding) ==
    IF total > 0
    THEN \/ 100 * failed > percentage * total
         \/ /\ rounding
            /\ 100 * failed = percentage * total
            /\ failed \notin {0, total}
    ELSE 0 > percentage

(* Mutant: only the greater of two thresholds is looked at.                *)
SeverityOfWarning(failed, total, rounding) ==
    IF Exceeds(failed, total, WarnPerc, rounding) THEN "Error"
    ELSE IF total > 0 THEN "Success" ELSE ""

Severity(failed, total, rounding) ==
    CASE Exceeds(failed, total, WarnPerc, rounding) -> "Error"
      [] ~Exceeds(failed, total, WarnPerc, rounding)
            /\ Exceeds(failed, total, ErrPerc, rounding) -> "Warning"
      [] OTHER -> IF total > 0 THEN "Success" ELSE ""

(* Mutant: counters that went backwards are not left out.                  *)
SuccessRateUnclamped(app, target, rounding) ==
    LET total == target.total - app.total
        failed == target.failed - app.failed
    IN  [total |-> total, failed |-> failed,
         rate |-> IF total > 0 THEN [failed |-> failed, total |-> total] ELSE None,
         severity |-> Severity(failed, total, rounding)]

(* Mutant: the failures of all the time, against those of the interval.    *)
SuccessRateSinceStart(app, target, rounding) ==
    LET total == target.total - app.total
        failed == target.failed
    IN  [total |-> IF total >= 0 THEN total ELSE 0,
         failed |-> failed,
         rate |-> IF total > 0 THEN [failed |-> failed, total |-> total] ELSE None,
         severity |-> Severity(failed, total, rounding)]

(* The success percentage is 100 - 100 * rate.failed / rate.total.         *)
getSLIExchangeSuccessRate(app, target, rounding) ==
    LET total == target.total - app.total
        failed == target.failed - app.failed
    IN  [total |-> IF total >= 0 THEN total ELSE 0,
         failed |-> IF failed >= 0 THEN failed ELSE 0,
         rate |-> IF total > 0 THEN [failed |-> failed, total |-> total] ELSE None,
         severity |-> Severity(failed, total, rounding)]

NoPods == [p \in {} |-> None]

(* The status of a CamelApp that was created or whose pods could not be    *)
(* listed.                                                                 *)
Blank == [pods |-> NoPods, replicas |-> None, sli |-> None, conditions |-> <<>>]

AddCondition(conditions, type, holds, message) ==
    Append(conditions, [type |-> type, holds |-> holds, message |-> message])

(* Mutant: the conditions of the last pass are kept.                       *)
KeptConditions(status) == status.conditions

(* Each pass starts from an empty status.                                  *)
ResetConditions(status) == <<>>

(* How many pods there are is told by comparison with the replicas of the  *)
(* status that was read, not with those of the Deployment.                 *)
Message(status, info) ==
    IF status.replicas \notin {None, Cardinality(DOMAIN info)} THEN "Miscounted" ELSE "Success"

AllReady(info) == DOMAIN info # {} /\ \A p \in DOMAIN info : info[p].ready

AllUp(info) == DOMAIN info # {} /\ \A p \in DOMAIN info : info[p].status = "UP"

Conditions(status, info) ==
    LET message == IF AllReady(info) THEN Message(status, info) ELSE "NotReady"
        monitored == AddCondition(ResetConditions(status), "Monitored", AllReady(info), message)
    IN  AddCondition(monitored, "Healthy", AllUp(info), "")

Monitored(status) ==
    \E i \in DOMAIN status.conditions :
        status.conditions[i].type = "Monitored" /\ status.conditions[i].holds

-----------------------------------------------------------------------------
Init ==
    /\ pods \in [Pods -> {[state |-> s, total |-> 0, failed |-> 0] : s \in {"gone", "ready"}}]
    /\ desired = Replicas
    /\ stored = Blank
    /\ todo = {}
    /\ ready = {}
    /\ fresh = NoPods
    /\ busy = FALSE
    /\ since = [p \in Pods |-> Nothing]
    /\ mark = [p \in Pods |-> Nothing]
    /\ after = [p \in Pods |-> Nothing]
    /\ truth = None
    /\ work = 0
    /\ upsets = 0
    /\ faults = 0

-----------------------------------------------------------------------------
(* External: the pods.                                                     *)

Upset == upsets < MaxUpsets /\ upsets' = upsets + 1

(* A pod starts, anew or after a crash of its container, or goes: either   *)
(* way its counters start from zero.                                       *)
Move(p, from, to) ==
    /\ pods[p].state \in from
    /\ pods' = [pods EXCEPT ![p] = [state |-> to, total |-> 0, failed |-> 0]]
    /\ since' = [since EXCEPT ![p].intact = FALSE]
    /\ after' = IF p \in DOMAIN fresh THEN [after EXCEPT ![p].intact = FALSE] ELSE after
    /\ Upset
    /\ UNCHANGED <<desired, stored, todo, ready, fresh, busy, mark, truth, work, faults>>

PodStarts(p) == Move(p, {"gone", "ready"}, "starting")

PodVanishes(p) == Move(p, {"starting", "ready"}, "gone")

(* Another number of replicas is asked for; pods follow or do not.         *)
Scale ==
    /\ \E n \in 0 .. Cardinality(Pods) \ {desired} : desired' = n
    /\ Upset
    /\ UNCHANGED <<pods, stored, todo, ready, fresh, busy, history, work, faults>>

PodReady(p) ==
    /\ pods[p].state = "starting"
    /\ pods' = [pods EXCEPT ![p].state = "ready"]
    /\ UNCHANGED <<desired, stored, todo, ready, fresh, busy, history, bounds>>

Count(counts, failure) ==
    [counts EXCEPT !.total = @ + 1, !.failed = @ + failure]

Process(p) ==
    /\ pods[p].state # "gone"
    /\ work < MaxExchanges
    /\ work' = work + 1
    /\ \E failure \in {0, 1} :
        /\ pods' = [pods EXCEPT ![p] = Count(@, failure)]
        /\ since' = [since EXCEPT ![p] = Count(@, failure)]
        /\ after' = IF p \in DOMAIN fresh THEN [after EXCEPT ![p] = Count(@, failure)] ELSE after
    /\ UNCHANGED <<desired, stored, todo, ready, fresh, busy, mark, truth, upsets, faults>>

-----------------------------------------------------------------------------
(* The pass.                                                               *)

Fault == faults < MaxFaults /\ faults' = faults + 1

ListPods ==
    /\ ~busy
    /\ busy' = TRUE
    /\ todo' = {p \in Pods : pods[p].state # "gone"}
    /\ ready' = {p \in Pods : pods[p].state = "ready"}
    /\ UNCHANGED <<pods, desired, stored, fresh, history, bounds>>

(* The list failed: the status is stored without pods.                     *)
ListPodsFails ==
    /\ ~busy
    /\ Fault
    /\ stored' = Blank
    /\ truth' = None
    /\ UNCHANGED <<pods, desired, todo, ready, fresh, busy, since, mark, after, work, upsets>>

(* whole is false when the metrics answered without one of the counters.   *)
Scraped(p, info, whole) ==
    /\ p \in todo
    /\ todo' = todo \ {p}
    /\ ready' = ready \ {p}
    /\ fresh' = [q \in DOMAIN fresh \union {p} |-> IF q = p THEN info ELSE fresh[q]]
    /\ mark' = [mark EXCEPT ![p] = [since[p] EXCEPT !.intact = @ /\ whole]]
    /\ after' = [after EXCEPT ![p] = [Nothing EXCEPT !.intact = whole]]
    /\ UNCHANGED <<pods, desired, stored, busy, since, truth, work, upsets>>

Unread(status) ==
    [ready |-> FALSE, status |-> status, named |-> FALSE, total |-> 0, failed |-> 0]

(* Mutant: a metrics endpoint that fails leaves the pod ready.             *)
UnreadButReady(status) == [Unread(status) EXCEPT !.ready = TRUE]

(* What the metrics of a pod may give with a good answer.  A family that   *)
(* is absent or not of counters leaves zero, and of several series only    *)
(* the first is read; either happens to each counter by itself, and        *)
(* app_info may be missing as well.  None of it is an error.               *)
Exposed(p) ==
    [named : {FALSE, (p \in Named)}, total : 0 .. pods[p].total, failed : 0 .. pods[p].failed]

Everything(p) ==
    [named |-> p \in Named, total |-> pods[p].total, failed |-> pods[p].failed]

Whole(p, answer) == answer.total = pods[p].total /\ answer.failed = pods[p].failed

Read(good, status, answer) ==
    [ready |-> good, status |-> status, named |-> answer.named,
     total |-> answer.total, failed |-> answer.failed]

(* A pod that was not ready when the pods were listed is not scraped.      *)
SkipPod(p) ==
    /\ p \notin ready
    /\ Scraped(p, Unread(""), TRUE)
    /\ UNCHANGED faults

(* The health endpoint answers, with a status or with a code that tells    *)
(* none, and so do the metrics: those of a new run, if the pod restarted.  *)
(* The bound on faults also bounds the answers that do not say everything. *)
ScrapePod(p) ==
    /\ p \in ready
    /\ pods[p].state # "gone"
    /\ \E status \in Answers, answer \in Exposed(p) :
        /\ Scraped(p, Read(TRUE, status, answer), Whole(p, answer))
        /\ IF answer = Everything(p) THEN UNCHANGED faults ELSE Fault

(* The health endpoint refuses or cannot be parsed; the metrics are        *)
(* scraped all the same.                                                   *)
HealthFails(p) ==
    /\ p \in ready
    /\ pods[p].state # "gone"
    /\ Fault
    /\ \E answer \in Exposed(p) : Scraped(p, Read(FALSE, "", answer), Whole(p, answer))

(* What is left of a pod when the connection, the code or the body of its  *)
(* metrics is not good.                                                    *)
MetricsUnread(status) == Unread(status)

MetricsFail(p) ==
    /\ p \in ready
    /\ Fault
    /\ \E status \in Answers \union {""} : Scraped(p, MetricsUnread(status), TRUE)

(* The pod went after it was listed: neither endpoint answers.             *)
PodUnreachable(p) ==
    /\ p \in ready
    /\ pods[p].state = "gone"
    /\ Scraped(p, Unread(""), TRUE)
    /\ UNCHANGED faults

(* The readings of two passes can be compared when both found the same     *)
(* pods, in the same run, their metrics gave both counters as they were,   *)
(* and the operator reported all of them monitored.                        *)
Comparable ==
    /\ Monitored(stored) /\ AllReady(fresh)
    /\ DOMAIN stored.pods = DOMAIN fresh
    /\ \A p \in DOMAIN fresh : mark[p].intact

Forget ==
    /\ fresh' = NoPods
    /\ mark' = [p \in Pods |-> Nothing]
    /\ after' = [p \in Pods |-> Nothing]

(* The end of Handle and the patch of the status.                          *)
Store ==
    LET app == getInfo(stored.pods)
        target == getInfo(fresh)
        read == [p \in DOMAIN fresh |-> mark[p]]
    IN  /\ busy
        /\ todo = {}
        /\ busy' = FALSE
        /\ \E rounding \in BOOLEAN :
            stored' = [pods |-> fresh,
                       replicas |-> desired,
                       sli |-> IF app = None \/ target = None THEN None
                               ELSE getSLIExchangeSuccessRate(app, target, rounding),
                       conditions |-> Conditions(stored, fresh)]
        /\ since' = [p \in Pods |-> IF p \in DOMAIN fresh THEN after[p] ELSE since[p]]
        /\ truth' = IF Comparable
                    THEN [total |-> Total(read), failed |-> Failed(read)] ELSE None
        /\ Forget
        /\ UNCHANGED <<pods, desired, todo, ready, bounds>>

(* The patch failed or the process ended: the readings are lost.           *)
PassLost ==
    /\ busy
    /\ Fault
    /\ busy' = FALSE
    /\ todo' = {}
    /\ ready' = {}
    /\ Forget
    /\ UNCHANGED <<pods, desired, stored, since, truth, work, upsets>>

-----------------------------------------------------------------------------
PodSteps(p) == PodStarts(p) \/ PodVanishes(p) \/ PodReady(p) \/ Process(p)

Scrape(p) ==
    SkipPod(p) \/ ScrapePod(p) \/ HealthFails(p) \/ MetricsFail(p) \/ PodUnreachable(p)

Next ==
    \/ \E p \in Pods : PodSteps(p) \/ Scrape(p)
    \/ Scale
    \/ ListPods \/ ListPodsFails \/ Store \/ PassLost

Spec == Init /\ [][Next]_vars

-----------------------------------------------------------------------------
(* Properties.                                                             *)

Sli == [total : Nat, failed : Nat,
        rate : [failed : Int, total : Nat] \union {None},
        severity : {"Error", "Warning", "Success", ""}]

Condition == [type : {"Monitored", "Healthy"}, holds : BOOLEAN,
              message : {"Success", "Miscounted", "NotReady", ""}]

(* The state has its types, and a pass scrapes each pod once.              *)
TypeOK ==
    /\ pods \in [Pods -> [state : {"gone", "starting", "ready"}, total : Nat, failed : Nat]]
    /\ ready \subseteq todo /\ todo \subseteq Pods
    /\ busy \in BOOLEAN
    /\ \A info \in {stored.pods, fresh} :
        /\ DOMAIN info \subseteq Pods
        /\ \A p \in DOMAIN info : info[p] \in PodInfo
    /\ todo \intersect DOMAIN fresh = {}
    /\ stored.sli \in Sli \union {None}
    /\ desired \in 0 .. Cardinality(Pods)
    /\ stored.replicas \in Nat \union {None}
    /\ stored.conditions \in Seq(Condition)
    /\ since \in [Pods -> Truth] /\ mark \in [Pods -> Truth] /\ after \in [Pods -> Truth]
    /\ truth \in Counts \union {None}
    /\ work \in Nat /\ upsets \in Nat /\ faults \in Nat

(* When the operator reported all pods monitored in two statuses in a row, *)
(* of the same pods in the same run, and both times the metrics of each    *)
(* pod gave both counters as one series, the success rate of the second is *)
(* exact: it counts every exchange between the two readings of each pod    *)
(* once, whatever was processed during the scrapes, whatever passes were   *)
(* lost in between, and however wrong the readings of earlier statuses     *)
(* were (GetPods, getInfo, getSLIExchangeSuccessRate).  The condition on   *)
(* the metrics cannot be told from the status: an answer without a counter *)
(* leaves the pod monitored, with a zero (synthetic_deployment.go:186).    *)
ExactWhenMonitored ==
    truth # None /\ stored.sli # None =>
        /\ stored.sli.total = truth.total
        /\ stored.sli.failed = truth.failed
        /\ stored.sli.rate = IF truth.total > 0
                             THEN [failed |-> truth.failed, total |-> truth.total] ELSE None

(* What the failure rate of an interval really is to a threshold, and when *)
(* the rounding of its quotient may matter.                                *)
FailureRateAbove(percentage) ==
    IF truth.total > 0 THEN 100 * truth.failed > percentage * truth.total ELSE 0 > percentage

FailureRateRounds(percentage) ==
    100 * truth.failed = percentage * truth.total /\ truth.failed \notin {0, truth.total}

(* The severity of such an interval follows the thresholds: an Error when  *)
(* the failures exceed the warning threshold, a Warning when they exceed   *)
(* the error threshold alone, and otherwise Success, or nothing when no    *)
(* exchange was processed, for which the failure rate counts as zero and   *)
(* only a threshold below zero is exceeded.  A quotient that is not 0 or 1 *)
(* and equals a threshold may be rounded above it: of that one case the    *)
(* property only says that the other threshold keeps its say               *)
(* (getSLIExchangeSuccessRate).                                            *)
SeverityHonest ==
    truth # None /\ stored.sli # None =>
        /\ FailureRateAbove(WarnPerc) => stored.sli.severity = "Error"
        /\ stored.sli.severity = "Error" =>
            FailureRateAbove(WarnPerc) \/ FailureRateRounds(WarnPerc)
        /\ FailureRateAbove(ErrPerc) => stored.sli.severity \in {"Error", "Warning"}
        /\ stored.sli.severity = "Warning" =>
            FailureRateAbove(ErrPerc) \/ FailureRateRounds(ErrPerc)
        /\ stored.sli.severity = "" <=>
            truth.total = 0 /\ ~FailureRateAbove(WarnPerc) /\ ~FailureRateAbove(ErrPerc)

(* A status says each condition once, however many passes have come before *)
(* and whatever was lost of them: AddCondition only appends, and the API   *)
(* keeps what the patch holds (AddCondition, the reset in Handle).         *)
ConditionsDistinct ==
    \A i, j \in DOMAIN stored.conditions :
        stored.conditions[i].type = stored.conditions[j].type => i = j

(* No pod shows more failures than exchanges, as one may whose total and   *)
(* failed are not of the same series of one reading.                       *)
Paired(info) == \A p \in DOMAIN info : info[p].failed <= info[p].total

(* Each pod with exchanges in the stored status is counted again, in the   *)
(* same run, and neither status shows more failures than exchanges.        *)
CountedAgain ==
    /\ Paired(stored.pods) /\ Paired(fresh)
    /\ \A p \in DOMAIN stored.pods :
        stored.pods[p].total > 0 => p \in DOMAIN fresh /\ fresh[p].total > 0 /\ mark[p].intact

(* What is stored as the success percentage lies between 0 and 100 as long *)
(* as total and failed of each pod are the same series of one reading, so  *)
(* that neither status shows more failures than exchanges of a pod, and    *)
(* each pod with exchanges in the previous status is counted again, in the *)
(* same run with both counters as they are.  Pods that are added, that     *)
(* were missed before or whose health is unknown, and exchanges processed  *)
(* meanwhile, do no harm (getInfo, getSLIExchangeSuccessRate).             *)
PercentageKept ==
    [][stored' # stored /\ CountedAgain /\ stored'.sli # None /\ stored'.sli.rate # None
        => stored'.sli.rate.failed \in 0 .. stored'.sli.rate.total]_vars

(* "the success percentage" (app_types.go:178): what is stored under that  *)
(* name lies between 0 and 100.                                            *)
PercentageInRange ==
    stored.sli # None /\ stored.sli.rate # None =>
        stored.sli.rate.failed \in 0 .. stored.sli.rate.total

(* "the SLI Exchange error threshold configuration" (operator.go:120): an  *)
(* interval whose failures exceed the error threshold is an Error.         *)
ErrorThresholdHonoured ==
    truth # None /\ stored.sli # None /\ 100 * truth.failed > ErrPerc * truth.total
        => stored.sli.severity = "Error"
=============================================================================
