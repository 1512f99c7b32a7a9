------------------------- MODULE ApplyConfigurations -------------------------
(***************************************************************************)
(* The builders of apply configurations: a caller has one configuration of *)
(* each type, calls With functions on them in any order, and gives the one *)
(* of the CamelApp to a typed client.  Fields hold values, a map, lists    *)
(* and pointers to other configurations.  A list takes a copy of what it   *)
(* is given, and with it the pointers, not what they point to.             *)
(***************************************************************************)
EXTENDS CamelAppMemory, Integers, SequencesExt

CONSTANTS Calls,     \* calls of With<field>(value) on the configuration of a type
          MaxCalls   \* bound on the calls for one configuration

----------------------------------------------------------------------------
(* The structs; of several fields of the same nature one is kept.          *)
ExchangeInfoConfiguration == [Total |-> Nil]

RuntimeInfoConfiguration == [Status |-> Nil, Exchange |-> Nil]

ObservabilityServiceInfoConfiguration == [HealthPort |-> Nil]

PodInfoConfiguration == [Name |-> Nil, ObservabilityService |-> Nil, Runtime |-> Nil]

SLIExchangeSuccessRateConfiguration == [Status |-> Nil]

CamelAppStatusConfiguration ==
    [Phase |-> Nil, Pods |-> <<>>, SuccessRate |-> Nil, Conditions |-> <<>>]

(* CamelApp(name, namespace) sets both, and the kind and version. *)
CamelAppConfiguration ==
    [Name |-> "given", Labels |-> [k \in {} |-> Nil], Finalizers |-> <<>>, Status |-> Nil]

Constructed ==
    [CamelApp |-> CamelAppConfiguration,
     CamelAppStatus |-> CamelAppStatusConfiguration,
     PodInfo |-> PodInfoConfiguration,
     RuntimeInfo |-> RuntimeInfoConfiguration,
     ExchangeInfo |-> ExchangeInfoConfiguration,
     SLIExchangeSuccessRate |-> SLIExchangeSuccessRateConfiguration,
     ObservabilityServiceInfo |-> ObservabilityServiceInfoConfiguration]

(* The fields that are pointers, and what they point to. *)
Pointers ==
    {<<"CamelApp", "Status", "CamelAppStatus">>,
     <<"CamelAppStatus", "SuccessRate", "SLIExchangeSuccessRate">>,
     <<"PodInfo", "ObservabilityService", "ObservabilityServiceInfo">>,
     <<"PodInfo", "Runtime", "RuntimeInfo">>, <<"RuntimeInfo", "Exchange", "ExchangeInfo">>}

(* Calls are well typed: a pointer may be nil, one given to WithPods may   *)
(* not (it panics).                                                        *)
ASSUME CallsAssumption ==
    /\ Nil \notin DOMAIN Constructed
    /\ \A call \in Calls :
        /\ call.on \in DOMAIN Constructed /\ call.field \in DOMAIN Constructed[call.on]
        /\ \A p \in Pointers :
            call.on = p[1] /\ call.field = p[2] => call.value \in {p[3], Nil}
        /\ call.on = "CamelAppStatus" /\ call.field = "Pods" => call.value = "PodInfo"

----------------------------------------------------------------------------
(* The With functions.  The configurations are known by their types, and   *)
(* that is what a pointer holds.                                           *)

(* A map with other entries put into it. *)
PutAll(map, entries) ==
    [key \in DOMAIN map \union DOMAIN entries |->
        IF key \in DOMAIN entries THEN entries[key] ELSE map[key]]

(* A mutant: entries that are there stay as they were. *)
LabelsKept(labels, entries) == PutAll(entries, labels)

WithLabels(labels, entries) == PutAll(labels, entries)

WithFinalizers(finalizers, value) == Append(finalizers, value)

WithConditions(conditions, value) == Append(conditions, value)

WithPods(pods, configurations, pod) == Append(pods, configurations[pod])

(* Every other field is set to the value, or to the pointer.               *)
Becomes(old, configurations, call) ==
    CASE call.field = "Labels" -> WithLabels(old, call.value)
      [] call.field = "Finalizers" -> WithFinalizers(old, call.value)
      [] call.field = "Conditions" -> WithConditions(old, call.value)
      [] call.field = "Pods" -> WithPods(old, configurations, call.value)
      [] OTHER -> call.value

With(configurations, call) ==
    [configurations EXCEPT ![call.on][call.field] = Becomes(@, configurations, call)]

(* What the client sends: the configuration with all it points to.         *)
Pointed(configurations, type, JSON(_, _)) ==
    IF type = Nil THEN Nil ELSE JSON(configurations, configurations[type])

Unnested(configurations, struct) == struct

RuntimeInfoJSON(configurations, struct) ==
    [struct EXCEPT !.Exchange = Pointed(configurations, @, Unnested)]

PodInfoJSON(configurations, struct) ==
    [struct EXCEPT !.ObservabilityService = Pointed(configurations, @, Unnested),
                   !.Runtime = Pointed(configurations, @, RuntimeInfoJSON)]

CamelAppStatusJSON(configurations, struct) ==
    [struct EXCEPT !.Pods = [i \in DOMAIN @ |-> PodInfoJSON(configurations, @[i])],
                   !.SuccessRate = Pointed(configurations, @, Unnested)]

Built(calls) ==
    LET configurations == FoldLeft(With, Constructed, calls)
        app == configurations.CamelApp
    IN  [app EXCEPT !.Status = Pointed(configurations, @, CamelAppStatusJSON)]

----------------------------------------------------------------------------
(* What the calls ask for, in the words of the comments of the functions.  *)

Of(calls, type, field, n) ==
    {i \in 1 .. n : calls[i].on = type /\ calls[i].field = field}

(* "the value of the last call", of the first n. *)
LastValue(calls, type, field, n, default) ==
    LET made == Of(calls, type, field, n)
    IN  IF made = {} THEN default ELSE calls[Max(made)].value

Final(calls, type, field) == LastValue(calls, type, field, Len(calls), Nil)

(* The k-th of the first n calls that concerns the field. *)
Nth(calls, type, field, n, k) ==
    CHOOSE i \in Of(calls, type, field, n) : Cardinality(Of(calls, type, field, i)) = k

(* "values provided by each call will be appended", where what a call      *)
(* provides may depend on when it is made.                                 *)
Listed(calls, type, field, Provided(_)) ==
    [k \in 1 .. Cardinality(Of(calls, type, field, Len(calls))) |->
        Provided(Nth(calls, type, field, Len(calls), k))]

(* "the entries provided by each call will be put on the field,            *)
(* overwriting an existing map entries with the same key".                 *)
Entries(calls, type, field, n) ==
    LET made == Of(calls, type, field, n)
        Setting(key) == {i \in made : key \in DOMAIN calls[i].value}
    IN  [key \in UNION {DOMAIN calls[i].value : i \in made} |->
            calls[Max(Setting(key))].value[key]]

IfSet(pointer, struct) == IF pointer = Nil THEN Nil ELSE struct

AskedExchange(calls) == [Total |-> Final(calls, "ExchangeInfo", "Total")]

AskedRuntime(calls) ==
    [Status |-> Final(calls, "RuntimeInfo", "Status"),
     Exchange |-> IfSet(Final(calls, "RuntimeInfo", "Exchange"), AskedExchange(calls))]

AskedObservability(calls) ==
    [HealthPort |-> Final(calls, "ObservabilityServiceInfo", "HealthPort")]

(* The pod of the i-th call: taken as it is when it is added, and what it  *)
(* points to as it is in the end.                                          *)
AskedPod(calls, i) ==
    LET Then(field) == LastValue(calls, "PodInfo", field, i, Nil)
    IN  [Name |-> Then("Name"),
         ObservabilityService |-> IfSet(Then("ObservabilityService"), AskedObservability(calls)),
         Runtime |-> IfSet(Then("Runtime"), AskedRuntime(calls))]

AskedRate(calls) == [Status |-> Final(calls, "SLIExchangeSuccessRate", "Status")]

AskedStatus(calls) ==
    LET Value(i) == calls[i].value
        Pod(i) == AskedPod(calls, i)
    IN  [Phase |-> Final(calls, "CamelAppStatus", "Phase"),
         Pods |-> Listed(calls, "CamelAppStatus", "Pods", Pod),
         SuccessRate |-> IfSet(Final(calls, "CamelAppStatus", "SuccessRate"), AskedRate(calls)),
         Conditions |-> Listed(calls, "CamelAppStatus", "Conditions", Value)]

Asked(calls) ==
    LET Value(i) == calls[i].value
    IN  [Name |-> LastValue(calls, "CamelApp", "Name", Len(calls), "given"),
         Labels |-> Entries(calls, "CamelApp", "Labels", Len(calls)),
         Finalizers |-> Listed(calls, "CamelApp", "Finalizers", Value),
         Status |-> IfSet(Final(calls, "CamelApp", "Status"), AskedStatus(calls))]

(* What comes of each series of calls: the configuration that was asked    *)
(* for, or another one.                                                    *)
Outcomes ==
    {Built(calls) = Asked(calls) : calls \in UNION {[1 .. n -> Calls] : n \in 0 .. MaxCalls}}
=============================================================================
