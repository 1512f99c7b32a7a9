------------------------------- MODULE MCStartup -------------------------------
(* Startup for TLC: settings that meet each fallback, alone and together,  *)
(* and permissions that are complete, restricted to a namespace or lack a  *)
(* kind.  A second is 10 and a duration overflows at 1000.                 *)
EXTENDS Startup

Given(watch, namespace) ==
    [flag |-> TRUE, id |-> "", operator |-> Absent, watch |-> watch,
     namespace |-> namespace, label |-> Absent, level |-> Absent,
     interval |-> Absent, imports |-> TRUE]

MCSettings ==
    {Given("", "a"),
     [Given("b", "a") EXCEPT !.level = -128, !.interval = 0],
     [Given("a", Absent) EXCEPT !.operator = "camel-dashboard", !.label = "other",
                                !.interval = Junk],
     [Given(" ", "") EXCEPT !.imports = FALSE, !.id = "camel-dashboard-lock",
                            !.label = "", !.interval = 120],
     [Given("", Absent) EXCEPT !.imports = FALSE, !.level = 127],
     [Given("a", "a") EXCEPT !.label = "not a key!", !.level = 1],
     [Given("a", "a") EXCEPT !.level = Junk]}

MCClusters ==
    LET everywhere == [k \in Kinds |-> {""}]
        served(kinds, rights) == [installed |-> kinds, rights |-> rights]
        both == {"CronJob", "Service"}
    IN  {served({"CronJob"}, [everywhere EXCEPT !["CronJob"] = {"a"}]),
         served(both, [everywhere EXCEPT !["Service"] = {"a"}])}

MCAnnotations == {Absent, Junk, 5, 0, 120}
================================================================================
