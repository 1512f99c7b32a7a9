--------------------------- MODULE MCClientLibrary ---------------------------
(* The client library for TLC: two API groups the fast mapper may look at, *)
(* one it may not, an informer of another kind, and calls that set, set    *)
(* again, append to and point to every kind of field.                      *)
EXTENDS ClientLibrary

MCKinds == {"CamelApp", "Other"}
MCFields == {"left", "right"}

(* The object of the server with a field changed or left out, and a new    *)
(* one.                                                                    *)
MCObjects ==
    {[Initial EXCEPT !["right"] = "edited"], [Initial EXCEPT !["left"] = Nil],
     [Blank EXCEPT !["left"] = "edited"]}

MCGroups == {"apps", "camel.apache.org", "example.org"}
MCAllowed == {"apps", "camel.apache.org", "batch"}

W(on, field, value) == [on |-> on, field |-> field, value |-> value]

MCCalls ==
    {W("CamelApp", "Labels", [app |-> "first"]), W("CamelApp", "Labels", [app |-> "second", team |-> "a"]),
     W("CamelApp", "Finalizers", "protect"), W("CamelApp", "Name", "renamed"),
     W("CamelApp", "Status", "CamelAppStatus"), W("CamelAppStatus", "Conditions", "Monitored"),
     W("CamelAppStatus", "SuccessRate", "SLIExchangeSuccessRate"),
     W("CamelAppStatus", "Pods", "PodInfo"), W("PodInfo", "Name", "pod"),
     W("PodInfo", "Runtime", "RuntimeInfo"), W("RuntimeInfo", "Status", "UP"),
     W("RuntimeInfo", "Exchange", "ExchangeInfo"), W("ExchangeInfo", "Total", "many")}
=============================================================================
