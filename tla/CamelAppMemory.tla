--------------------------- MODULE CamelAppMemory ---------------------------
(***************************************************************************)
(* CamelApps in memory.  A struct is a function from its fields of         *)
(* reference type (app_types.go) to references; fields that hold a plain   *)
(* value are copied with their struct and are left out.  A reference names *)
(* the owner of the memory it points to and what is there, or is Nil.      *)
(* DeepCopyInto is translated type by type from zz_generated.deepcopy.go:  *)
(* a field the generated code does not mention keeps the reference of the  *)
(* original.                                                               *)
(***************************************************************************)
EXTENDS Sequences

CONSTANTS Callers,  \* the goroutines that use the client library
          Nil       \* no reference, no value

(* The memory of the informer's cache. *)
Cache == "cache"

Ref(owner, content) == [owner |-> owner, content |-> content]

(* new(T) with the content that Into makes of the original. *)
New(ref, owner, Into(_, _)) ==
  IF ref = Nil THEN Nil ELSE Ref(owner, Into(ref.content, owner))

(* A type without references, or a value of a library with a DeepCopy of   *)
(* its own: *out = *in.                                                    *)
Plain(in, owner) == in

(* make([]T, len(in)) and a deep copy of every element. *)
Each(Into(_, _), in, owner) == [i \in DOMAIN in |-> Into(in[i], owner)]

----------------------------------------------------------------------------
(* The DeepCopyInto methods. *)
ExchangeInfoInto(in, owner) ==
  [in EXCEPT !.LastTimestamp = New(@, owner, Plain)]

RuntimeInfoInto(in, owner) ==
  [in EXCEPT !.Exchange = New(@, owner, ExchangeInfoInto)]

(* A mutant: the types got a new reference and the code was not generated  *)
(* again.                                                                  *)
PodInfoIntoOutdated(in, owner) ==
  [in EXCEPT !.UptimeTimestamp = New(@, owner, Plain),
             !.ObservabilityService = New(@, owner, Plain)]

PodInfoInto(in, owner) ==
  [in EXCEPT !.UptimeTimestamp = New(@, owner, Plain),
             !.ObservabilityService = New(@, owner, Plain),
             !.Runtime = New(@, owner, RuntimeInfoInto)]

PodsInto(in, owner) == Each(PodInfoInto, in, owner)

SLIExchangeSuccessRateInto(in, owner) ==
  [in EXCEPT !.SamplingIntervalDuration = New(@, owner, Plain),
             !.LastTimestamp = New(@, owner, Plain)]

CamelAppStatusInto(in, owner) ==
  [in EXCEPT !.Pods = New(@, owner, PodsInto),
             !.Replicas = New(@, owner, Plain),
             !.SuccessRate = New(@, owner, SLIExchangeSuccessRateInto),
             !.Conditions = New(@, owner, Plain)]

ObjectMetaInto(in, owner) ==
  [in EXCEPT !.Annotations = New(@, owner, Plain)]

CamelAppInto(in, owner) ==
  [in EXCEPT !.ObjectMeta = ObjectMetaInto(@, owner),
             !.Status = CamelAppStatusInto(@, owner)]

----------------------------------------------------------------------------
(* The structs of a CamelApp with every reference set, in memory of owner. *)
ExchangeInfo(owner) == [LastTimestamp |-> Ref(owner, Nil)]

RuntimeInfo(owner) == [Exchange |-> Ref(owner, ExchangeInfo(owner))]

PodInfo(owner) ==
  [UptimeTimestamp |-> Ref(owner, Nil), ObservabilityService |-> Ref(owner, Nil),
   Runtime |-> Ref(owner, RuntimeInfo(owner))]

SLIExchangeSuccessRate(owner) ==
  [SamplingIntervalDuration |-> Ref(owner, Nil), LastTimestamp |-> Ref(owner, Nil)]

CamelAppStatus(owner) ==
  [Pods |-> Ref(owner, <<PodInfo(owner)>>), Replicas |-> Ref(owner, Nil),
   SuccessRate |-> Ref(owner, SLIExchangeSuccessRate(owner)), Conditions |-> Ref(owner, Nil)]

CamelApp(owner) ==
  [ObjectMeta |-> [Annotations |-> Ref(owner, Nil)], Status |-> CamelAppStatus(owner)]

(* A reference that points somewhere is not the one that points nowhere.   *)
ASSUME ReferenceAssumption ==
    /\ Ref(Cache, Nil) # Nil
    /\ Ref(Cache, ExchangeInfo(Cache)) # Nil
    /\ Ref(Cache, RuntimeInfo(Cache)) # Nil
    /\ Ref(Cache, <<PodInfo(Cache)>>) # Nil
    /\ Ref(Cache, SLIExchangeSuccessRate(Cache)) # Nil

(* The owner of each piece of memory a CamelApp consists of. *)
Owners(app) ==
  LET status == app.Status
      pod == status.Pods.content[1]
  IN  [Annotations |-> app.ObjectMeta.Annotations.owner,
       Pods |-> status.Pods.owner,
       UptimeTimestamp |-> pod.UptimeTimestamp.owner,
       ObservabilityService |-> pod.ObservabilityService.owner,
       Runtime |-> pod.Runtime.owner,
       Exchange |-> pod.Runtime.content.Exchange.owner,
       LastExchange |-> pod.Runtime.content.Exchange.content.LastTimestamp.owner,
       Replicas |-> status.Replicas.owner,
       SuccessRate |-> status.SuccessRate.owner,
       SamplingInterval |-> status.SuccessRate.content.SamplingIntervalDuration.owner,
       LastMessage |-> status.SuccessRate.content.LastTimestamp.owner,
       Conditions |-> status.Conditions.owner]

Pieces == DOMAIN Owners(CamelApp(Cache))

(* app.DeepCopy() by a caller, of a CamelApp of the cache: where each      *)
(* piece of its copy lives.                                                *)
DeepCopy == [caller \in Callers |-> Owners(CamelAppInto(CamelApp(Cache), caller))]

(* What its copy still shares with the cache. *)
SharedPieces == [caller \in Callers |-> {p \in Pieces : DeepCopy[caller][p] = Cache}]
=============================================================================
