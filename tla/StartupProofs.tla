----------------------------- MODULE StartupProofs -----------------------------
(***************************************************************************)
(* Proofs about the processes of the operator, for any number of them, any *)
(* settings, permissions and bounds.                                       *)
(***************************************************************************)
EXTENDS Startup, TLAPS

Optional == {"CronJob", "Service"}

(* Types that the other parts need.                                        *)
Shape ==
    /\ pc \in [Procs -> Stages]
    /\ given \in [Procs -> Settings \union {NoSetting}]
    /\ zapLevel \in [Procs -> -128 .. 127]
    /\ filtered \in [Procs -> SUBSET Kinds]
    /\ watched \in [Procs -> SUBSET Kinds]
    /\ misled \in [Procs -> SUBSET Kinds]
    /\ cluster \in Cluster
    /\ changes \in 0 .. MaxChanges
    /\ faults \in 0 .. MaxFaults
    /\ \A l \in leases : l = [lock |-> l.lock, by |-> l.by] /\ l.by \in Procs \union {None}

(* A lock is held once, and by whoever reconciles under it.                *)
Leases ==
    /\ \A l, m \in leases : l.lock = m.lock => l = m
    /\ \A p \in Procs :
        pc[p] = "leading" /\ LeaderElection(given[p]) =>
            [lock |-> Lock(given[p]), by |-> p] \in leases

(* What a process did not give a selector, though it was there when it     *)
(* asked or came later, it was misled about: so it is with the kinds it    *)
(* has probed for, and with what it watches.                               *)
Unprobed == {"down", "bootstrap", "select Service"}

Fair(stage, known, kinds) ==
    /\ IF stage \in {"down", "bootstrap"} THEN kinds = {} ELSE "Deployment" \in known
    /\ stage \notin Unprobed /\ "Service" \in cluster.installed => "Service" \in known
    /\ stage \notin Unprobed \union {"select CronJob"} /\ "CronJob" \in cluster.installed =>
          "CronJob" \in known
    /\ stage = "review" => "Service" \in known
    /\ kinds \subseteq known

Excused ==
    \A p \in Procs :
        /\ Fair(pc[p], filtered[p] \union misled[p], watched[p])
        /\ pc[p] \notin {"down", "bootstrap"} => "Deployment" \in filtered[p]

-----------------------------------------------------------------------------
(* The negation of a number that fits eight bits, in eight bits.           *)
LEMMA LevelType ==
    ASSUME NEW s \in Setting, LevelAccepted(s.level)
    PROVE  ZapLevel(s.level) \in -128 .. 127
<1>1. CASE s.level = Absent
  BY <1>1 DEF ZapLevel
<1>2. CASE s.level # Absent
  <2>1. s.level \in Int /\ -128 <= s.level /\ s.level <= 127
    BY <1>2 DEF LevelAccepted, FitsInt8
  <2>2. (-s.level + 128) % 256 \in 0 .. 255
    BY <2>1
  <2> QED BY <1>2, <2>1, <2>2 DEF ZapLevel, IToInt8
<1> QED BY <1>1, <1>2

(* The stages Proceed names are those of the probes.                       *)
LEMMA StageNames ==
    /\ Select.Service = "select Service" /\ Select.CronJob = "select CronJob"
    /\ Inform.Service = "inform Service" /\ Inform.CronJob = "inform CronJob"
    /\ Stages = {"down", "bootstrap", "manager", "review", "syncing", "electing",
                 "leading", "select Service", "select CronJob", "inform Service",
                 "inform CronJob"}
<1>1. /\ Select.Service = "select Service" /\ Select.CronJob = "select CronJob"
      /\ Inform.Service = "inform Service" /\ Inform.CronJob = "inform CronJob"
  BY DEF Select, Inform
<1>2. DOMAIN Select = {"Service", "CronJob"} /\ DOMAIN Inform = {"Service", "CronJob"}
  BY DEF Select, Inform
<1>3. /\ {Select[k] : k \in DOMAIN Select} = {"select Service", "select CronJob"}
      /\ {Inform[k] : k \in DOMAIN Inform} = {"inform Service", "inform CronJob"}
  BY <1>1, <1>2
<1> QED BY <1>1, <1>3 DEF Stages

(* Bounded counters stay within their bounds.                              *)
LEMMA FaultType ==
    ASSUME Shape, Fault
    PROVE  faults' \in 0 .. MaxFaults
<1>1. faults \in 0 .. MaxFaults
  BY DEF Shape
<1> QED BY <1>1, BoundsAssumption DEF Fault

LEMMA ChangeType ==
    ASSUME Shape, NEW kind \in Optional, ChangeAPI(kind)
    PROVE  changes' \in 0 .. MaxChanges /\ cluster' \in Cluster
<1>1. changes \in 0 .. MaxChanges /\ cluster \in Cluster
  BY DEF Shape
<1>2. changes' \in 0 .. MaxChanges
  BY <1>1, BoundsAssumption DEF ChangeAPI
<1>3. /\ cluster.installed \in SUBSET Optional
      /\ cluster = [installed |-> cluster.installed, rights |-> cluster.rights]
      /\ cluster.rights \in [Kinds -> SUBSET STRING]
  BY <1>1 DEF Cluster, Optional
<1> DEFINE other == IF kind \in cluster.installed THEN cluster.installed \ {kind}
                    ELSE cluster.installed \union {kind}
<1>4. cluster' = [installed |-> other, rights |-> cluster.rights]
  BY <1>3 DEF ChangeAPI
<1>5. other \in SUBSET {"CronJob", "Service"}
  BY <1>3 DEF Optional
<1>6. cluster' \in Cluster
  <2> HIDE DEF other
  <2> QED BY <1>3, <1>4, <1>5 DEF Cluster
<1> QED BY <1>2, <1>6

(* What ends a process leaves the values of one that is down.              *)
LEMMA EndType ==
    ASSUME Shape, NEW p \in Procs, End(p)
    PROVE  /\ pc' \in [Procs -> Stages]
           /\ given' \in [Procs -> Settings \union {NoSetting}]
           /\ zapLevel' \in [Procs -> -128 .. 127]
           /\ filtered' \in [Procs -> SUBSET Kinds]
           /\ watched' \in [Procs -> SUBSET Kinds]
           /\ misled' \in [Procs -> SUBSET Kinds]
           /\ cluster' \in Cluster /\ changes' \in 0 .. MaxChanges
<1>1. /\ pc' \in [Procs -> Stages]
      /\ given' \in [Procs -> Settings \union {NoSetting}]
  <2>1. pc \in [Procs -> Stages] /\ given \in [Procs -> Settings \union {NoSetting}]
    BY DEF Shape
  <2>2. pc' \in [Procs -> Stages]
    BY <2>1, StageNames DEF End, Goto
  <2>3. given' \in [Procs -> Settings \union {NoSetting}]
    BY <2>1 DEF End
  <2> QED BY <2>2, <2>3
<1>2. 0 \in -128 .. 127
  OBVIOUS
<1>3. zapLevel' \in [Procs -> -128 .. 127]
  BY <1>2 DEF Shape, End
<1>4. /\ filtered' \in [Procs -> SUBSET Kinds] /\ watched' \in [Procs -> SUBSET Kinds]
      /\ misled' \in [Procs -> SUBSET Kinds]
  BY DEF Shape, End
<1>5. cluster' \in Cluster /\ changes' \in 0 .. MaxChanges
  <2>1. cluster \in Cluster /\ changes \in 0 .. MaxChanges
    BY DEF Shape
  <2> QED BY <2>1 DEF End, world
<1> QED BY <1>1, <1>3, <1>4, <1>5

(* Every step keeps the types.                                             *)
LEMMA ShapeStep ==
    ASSUME Shape, [Next]_vars
    PROVE  Shape'
<1> USE StageNames DEF Shape, Goto, world, Kinds, Optional
<1>1. CASE UNCHANGED vars
  BY <1>1 DEF vars, world
<1>2. ASSUME NEW p \in Procs, NewClientWithConfig(p)
      PROVE  Shape'
  BY <1>2 DEF NewClientWithConfig
<1>3. ASSUME NEW p \in Procs, InvalidLabel(p)
      PROVE  Shape'
  <2>1. End(p)
    BY <1>3 DEF InvalidLabel
  <2>2. \A l \in leases' : l = [lock |-> l.lock, by |-> l.by] /\ l.by \in Procs \union {None}
    BY <1>3 DEF InvalidLabel
  <2>3. faults' \in 0 .. MaxFaults
    BY <1>3, <2>1, FaultType DEF InvalidLabel
  <2> QED BY <2>1, <2>2, <2>3, EndType
<1>4. ASSUME NEW p \in Procs, ProbeForSelector(p, "Service", Select.CronJob)
      PROVE  Shape'
  BY <1>4 DEF ProbeForSelector
<1>5. ASSUME NEW p \in Procs, ProbeForSelector(p, "CronJob", "manager")
      PROVE  Shape'
  BY <1>5 DEF ProbeForSelector
<1>6. ASSUME NEW p \in Procs, ProbeForSelectorFails(p, "Service", Select.CronJob)
      PROVE  Shape'
  <2>1. faults' \in 0 .. MaxFaults
    BY <1>6, FaultType DEF ProbeForSelectorFails
  <2> QED BY <1>6, <2>1 DEF ProbeForSelectorFails
<1>7. ASSUME NEW p \in Procs, ProbeForSelectorFails(p, "CronJob", "manager")
      PROVE  Shape'
  <2>1. faults' \in 0 .. MaxFaults
    BY <1>7, FaultType DEF ProbeForSelectorFails
  <2> QED BY <1>7, <2>1 DEF ProbeForSelectorFails
<1>8. ASSUME NEW p \in Procs, NewManager(p)
      PROVE  Shape'
  BY <1>8 DEF NewManager, Watch
<1>9. ASSUME NEW p \in Procs, GetCronJobInformer(p)
      PROVE  Shape'
  BY <1>9 DEF GetCronJobInformer, Watch
<1>10. ASSUME NEW p \in Procs, GetServiceInformer(p)
      PROVE  Shape'
  BY <1>10 DEF GetServiceInformer
<1>11. ASSUME NEW p \in Procs, ProbeForInformerFails(p, "CronJob", Inform.Service)
      PROVE  Shape'
  <2>1. faults' \in 0 .. MaxFaults
    BY <1>11, FaultType DEF ProbeForInformerFails
  <2> QED BY <1>11, <2>1 DEF ProbeForInformerFails
<1>12. ASSUME NEW p \in Procs, ProbeForInformerFails(p, "Service", "syncing")
      PROVE  Shape'
  <2>1. faults' \in 0 .. MaxFaults
    BY <1>12, FaultType DEF ProbeForInformerFails
  <2> QED BY <1>12, <2>1 DEF ProbeForInformerFails
<1>13. ASSUME NEW p \in Procs, CheckPermission(p)
      PROVE  Shape'
  BY <1>13 DEF CheckPermission, Watch
<1>14. ASSUME NEW p \in Procs, CachesSync(p)
      PROVE  Shape'
  BY <1>14 DEF CachesSync
<1>15. ASSUME NEW p \in Procs, Elect(p)
      PROVE  Shape'
  <2>1. \A l \in leases : l = [lock |-> l.lock, by |-> l.by] /\ l.by \in Procs \union {None}
    BY DEF Shape
  <2> DEFINE new == [lock |-> Lock(given[p]), by |-> p]
  <2>2. new = [lock |-> new.lock, by |-> new.by] /\ new.by = p
    OBVIOUS
  <2>3. leases' = leases \union {new}
    BY <1>15 DEF Elect
  <2>4. \A l \in leases' : l = [lock |-> l.lock, by |-> l.by] /\ l.by \in Procs \union {None}
    <3> HIDE DEF new
    <3> QED BY <2>1, <2>2, <2>3
  <2> QED BY <1>15, <2>4 DEF Elect
<1>16. ASSUME NEW p \in Procs, ExitOnError(p)
      PROVE  Shape'
  <2>1. End(p) /\ Fault
    BY <1>16 DEF ExitOnError
  <2>2. \A l \in leases' : l = [lock |-> l.lock, by |-> l.by] /\ l.by \in Procs \union {None}
    BY <1>16 DEF ExitOnError
  <2>3. faults' \in 0 .. MaxFaults
    BY <1>16, <2>1, FaultType DEF ExitOnError
  <2> QED BY <2>1, <2>2, <2>3, EndType
<1>17. ASSUME NEW p \in Procs, Stop(p)
      PROVE  Shape'
  <2>1. End(p)
    BY <1>17 DEF Stop
  <2>2. \A l \in leases' : l = [lock |-> l.lock, by |-> l.by] /\ l.by \in Procs \union {None}
    BY <1>17 DEF Stop
  <2>3. faults' \in 0 .. MaxFaults
    BY <1>17, <2>1, FaultType DEF Stop
  <2> QED BY <2>1, <2>2, <2>3, EndType
<1>18. ASSUME NEW p \in Procs, Crash(p)
      PROVE  Shape'
  <2>1. End(p) /\ Fault
    BY <1>18 DEF Crash
  <2>2. \A l \in leases' : l = [lock |-> l.lock, by |-> l.by] /\ l.by \in Procs \union {None}
    <3>1. \A l \in leases : l = [lock |-> l.lock, by |-> l.by] /\ l.by \in Procs \union {None}
      BY DEF Shape
    <3>2. leases' = {[lock |-> l.lock, by |-> IF l.by = p THEN None ELSE l.by] : l \in leases}
      BY <1>18 DEF Crash
    <3>3. ASSUME NEW m \in leases'
          PROVE  m = [lock |-> m.lock, by |-> m.by] /\ m.by \in Procs \union {None}
      <4>1. PICK l \in leases : m = [lock |-> l.lock, by |-> IF l.by = p THEN None ELSE l.by]
        BY <3>2
      <4> QED BY <3>1, <4>1
    <3> QED BY <3>3
  <2>3. faults' \in 0 .. MaxFaults
    BY <1>18, <2>1, FaultType DEF Crash
  <2> QED BY <2>1, <2>2, <2>3, EndType
<1>19. ASSUME NEW p \in Procs, NEW s \in Settings, Spawn(p, s)
      PROVE  Shape'
  <2>1. s \in Setting /\ LevelAccepted(s.level)
    BY <1>19, SettingsAssumption DEF Spawn, Rejected
  <2>2. ZapLevel(s.level) \in -128 .. 127
    BY <2>1, LevelType
  <2> QED BY <1>19, <2>2 DEF Spawn, Rejected
<1>20. CASE Expire
  BY <1>20 DEF Expire
<1>21. ASSUME NEW kind \in Optional, ChangeAPI(kind)
      PROVE  Shape'
  BY <1>21, ChangeType DEF ChangeAPI
<1> QED
  BY <1>1, <1>2, <1>3, <1>4, <1>5, <1>6, <1>7, <1>8, <1>9, <1>10, <1>11, <1>12, <1>13, <1>14, <1>15, <1>16, <1>17, <1>18, <1>19, <1>20, <1>21 DEF Next, Proceed, Optional

(* A step takes a process to the reconciler only when it needs no lease or *)
(* has just taken one, and the leases stay as they are but for its own.    *)
LEMMA LeasesStep ==
    ASSUME Shape, Leases, [Next]_vars
    PROVE  Leases'
<1> DEFINE Held(p) == [lock |-> Lock(given[p]), by |-> p]
           Single(set) == \A l, m \in set : l.lock = m.lock => l = m
<1>a. Single(leases)
  BY DEF Leases
<1>b. \A p \in Procs : pc[p] = "leading" /\ LeaderElection(given[p]) => Held(p) \in leases
  BY DEF Leases
<1>c. pc \in [Procs -> Stages] /\ given \in [Procs -> Settings \union {NoSetting}]
  BY DEF Shape
<1>d. \A l \in leases : l = [lock |-> l.lock, by |-> l.by]
  BY DEF Shape
<1>q. ASSUME Single(leases'),
             \A p \in Procs : pc'[p] = "leading" /\ LeaderElection(given'[p]) =>
                               Held(p)' \in leases'
      PROVE  Leases'
  BY <1>q DEF Leases, Lock, LeaderElection, OperatorNamespace, LeaderElectionID, Lookup
<1> USE StageNames
<1>1. ASSUME leases' = leases, given' = given,
             \A p \in Procs : pc'[p] = "leading" => pc[p] = "leading" \/ ~LeaderElection(given[p])
      PROVE  Leases'
  BY <1>1, <1>a, <1>b, <1>q
<1>2. ASSUME NEW p \in Procs, NEW stage, stage # "leading", Goto(p, stage), UNCHANGED <<leases, given>>
      PROVE  Leases'
  BY <1>1, <1>2, <1>c DEF Goto
<1>3. ASSUME NEW p \in Procs, CachesSync(p)
      PROVE  Leases'
  BY <1>1, <1>3, <1>c DEF CachesSync, Goto
<1>4. ASSUME NEW p \in Procs, Elect(p)
      PROVE  Leases'
  <2>1. Single(leases')
    <3> DEFINE new == [lock |-> Lock(given[p]), by |-> p]
    <3>1. leases' = leases \union {new}
      BY <1>4 DEF Elect
    <3>2. \A l \in leases : l.lock # new.lock
      BY <1>4 DEF Elect, Obtainable
    <3> HIDE DEF new
    <3> QED BY <1>a, <3>1, <3>2
  <2>2. Held(p) \in leases' /\ given' = given /\ leases \subseteq leases'
    BY <1>4 DEF Elect
  <2>3. \A q \in Procs : q # p => pc'[q] = pc[q]
    BY <1>4, <1>c DEF Elect, Goto
  <2> QED BY <2>1, <2>2, <2>3, <1>b, <1>q
<1>5. ASSUME NEW p \in Procs, End(p), Single(leases'),
             \A l \in leases : l.by # p => l \in leases'
      PROVE  Leases'
  <2>1. pc'[p] = "down"
    BY <1>5, <1>c DEF End, Goto
  <2>2. \A q \in Procs : q # p => pc'[q] = pc[q] /\ given'[q] = given[q]
    BY <1>5, <1>c DEF End, Goto
  <2>3. \A q \in Procs : q # p /\ Held(q) \in leases => Held(q) \in leases'
    BY <1>5
  <2>4. ASSUME NEW q \in Procs, pc'[q] = "leading", LeaderElection(given'[q])
        PROVE  Held(q)' \in leases'
    BY <2>1, <2>2, <2>3, <2>4, <1>b
  <2> QED BY <1>5, <2>4, <1>q
<1>6. ASSUME NEW p \in Procs, Stop(p)
      PROVE  Leases'
  BY <1>5, <1>6, <1>a DEF Stop
<1>7. ASSUME NEW p \in Procs, Crash(p)
      PROVE  Leases'
  <2> DEFINE Left(l) == [lock |-> l.lock, by |-> IF l.by = p THEN None ELSE l.by]
  <2>1. leases' = {Left(l) : l \in leases} /\ End(p)
    BY <1>7 DEF Crash
  <2>2. \A l \in leases : l.by # p => Left(l) = l
    BY <1>d
  <2>3. \A l \in leases : Left(l).lock = l.lock
    OBVIOUS
  <2> HIDE DEF Left
  <2>4. ASSUME NEW m \in leases', NEW n \in leases', m.lock = n.lock
        PROVE  m = n
    <3>1. PICK k \in leases : m = Left(k)
      BY <2>1
    <3>2. PICK l \in leases : n = Left(l)
      BY <2>1
    <3>3. k.lock = l.lock
      BY <2>3, <2>4, <3>1, <3>2
    <3> QED BY <1>a, <3>1, <3>2, <3>3
  <2>5. \A l \in leases : l.by # p => l \in leases'
    BY <2>1, <2>2
  <2> QED BY <1>5, <2>1, <2>4, <2>5
<1>8. ASSUME Expire
      PROVE  Leases'
  <2>1. Single(leases') /\ UNCHANGED <<pc, given>>
    BY <1>8, <1>a DEF Expire
  <2>2. \A p \in Procs : Held(p) \in leases => Held(p) \in leases'
    BY <1>8, ProcsAssumption DEF Expire
  <2> QED BY <2>1, <2>2, <1>b, <1>q
<1>9. ASSUME NEW p \in Procs, NEW s \in Settings, Spawn(p, s)
      PROVE  Leases'
  <2>1. pc'[p] = "bootstrap"
    BY <1>9, <1>c DEF Spawn, Goto
  <2>2. \A q \in Procs : q # p => pc'[q] = pc[q] /\ given'[q] = given[q]
    BY <1>9, <1>c DEF Spawn, Goto
  <2>3. leases' = leases
    BY <1>9 DEF Spawn
  <2>4. ASSUME NEW q \in Procs, pc'[q] = "leading", LeaderElection(given'[q])
        PROVE  Held(q)' \in leases'
    BY <2>1, <2>2, <2>3, <2>4, <1>b
  <2> QED BY <2>3, <2>4, <1>a, <1>q
<1>10. ASSUME NEW p \in Procs, Proceed(p)
      PROVE  Leases'
  <2>1. ASSUME NEW stage, NEW kind,
               stage # "leading",
               \/ NewClientWithConfig(p) \/ ProbeForSelector(p, kind, stage)
               \/ ProbeForSelectorFails(p, kind, stage) \/ NewManager(p)
               \/ GetCronJobInformer(p) \/ GetServiceInformer(p)
               \/ ProbeForInformerFails(p, kind, stage) \/ CheckPermission(p)
        PROVE  Leases'
    BY <1>2, <2>1 DEF NewClientWithConfig, ProbeForSelector, ProbeForSelectorFails,
                      NewManager, GetCronJobInformer, GetServiceInformer,
                      ProbeForInformerFails, CheckPermission
  <2>2. CASE InvalidLabel(p)
    BY <1>5, <1>a, <2>2 DEF InvalidLabel
  <2> QED BY <1>3, <1>4, <1>10, <2>1, <2>2 DEF Proceed
<1>11. ASSUME NEW p \in Procs, ExitOnError(p)
       PROVE  Leases'
  BY <1>5, <1>a, <1>11 DEF ExitOnError
<1>12. CASE UNCHANGED vars \/ \E kind \in Optional : ChangeAPI(kind)
  BY <1>1, <1>12 DEF vars, ChangeAPI
<1> QED
  BY <1>6, <1>7, <1>8, <1>9, <1>10, <1>11, <1>12 DEF Next, Optional

(* The probes of a process leave nothing out of filtered of which it was   *)
(* not misled, and so nothing that it then watches.                        *)
LEMMA ExcusedStep ==
    ASSUME Shape, Excused, [Next]_vars
    PROVE  Excused'
<1> DEFINE Known(p) == filtered[p] \union misled[p]
           Base(p) == pc[p] \notin {"down", "bootstrap"} => "Deployment" \in filtered[p]
<1>a. \A p \in Procs : Fair(pc[p], Known(p), watched[p]) /\ Base(p)
  BY DEF Excused
<1>b. /\ pc \in [Procs -> Stages] /\ filtered \in [Procs -> SUBSET Kinds]
      /\ watched \in [Procs -> SUBSET Kinds] /\ misled \in [Procs -> SUBSET Kinds]
  BY DEF Shape
(* A step of one process leaves the others as they are.                    *)
<1>o. ASSUME NEW p \in Procs, cluster' = cluster,
             NEW stage, NEW f, NEW w, NEW m,
             pc' = [pc EXCEPT ![p] = stage], filtered' = [filtered EXCEPT ![p] = f],
             watched' = [watched EXCEPT ![p] = w], misled' = [misled EXCEPT ![p] = m],
             Fair(stage, f \union m, w),
             stage \notin {"down", "bootstrap"} => "Deployment" \in f
      PROVE  Excused'
  <2>1. ASSUME NEW q \in Procs, q # p
        PROVE  Fair(pc[q], Known(q), watched[q])' /\ Base(q)'
    <3>1. UNCHANGED <<pc[q], filtered[q], watched[q], misled[q], cluster>>
      BY <1>o, <1>b, <2>1
    <3> QED BY <3>1, <1>a DEF Fair
  <2>2. pc'[p] = stage /\ filtered'[p] = f /\ watched'[p] = w /\ misled'[p] = m
    BY <1>o, <1>b
  <2>3. Fair(pc[p], Known(p), watched[p])' /\ Base(p)'
    BY <1>o, <2>2 DEF Fair
  <2> QED BY <2>1, <2>3 DEF Excused
(* A process that only goes on, and may have left a probe behind.          *)
<1>g. ASSUME NEW p \in Procs, NEW stage, Goto(p, stage), cluster' = cluster,
             UNCHANGED <<filtered, watched, misled>>, Fair(stage, Known(p), watched[p]),
             stage \notin {"down", "bootstrap"} => "Deployment" \in filtered[p]
      PROVE  Excused'
  BY <1>b, <1>o, <1>g DEF Goto
<1>w. ASSUME NEW p \in Procs, NEW stage, NEW kinds, Goto(p, stage), cluster' = cluster,
             Watch(p, kinds), UNCHANGED <<filtered, misled>>,
             Fair(stage, Known(p), watched[p] \union kinds),
             stage \notin {"down", "bootstrap"} => "Deployment" \in filtered[p]
      PROVE  Excused'
  BY <1>b, <1>o, <1>w DEF Goto, Watch
<1> USE StageNames DEF Unprobed, Fair
<1>1. ASSUME NEW p \in Procs, End(p)
      PROVE  Excused'
  BY <1>1, <1>o DEF End, Goto, world
<1>2. ASSUME NEW p \in Procs, NEW s \in Settings, Spawn(p, s)
      PROVE  Excused'
  BY <1>2, <1>a, <1>g DEF Spawn, world
<1>3. ASSUME NEW p \in Procs, NewClientWithConfig(p)
      PROVE  Excused'
  <2>1. watched[p] = {}
    BY <1>3, <1>a DEF NewClientWithConfig
  <2>2. /\ watched' = [watched EXCEPT ![p] = {}] /\ misled' = [misled EXCEPT ![p] = misled[p]]
        /\ cluster' = cluster
    BY <1>3, <1>b, <2>1 DEF NewClientWithConfig, world
  <2> QED BY <1>3, <1>o, <2>2 DEF NewClientWithConfig, Goto
<1>4. ASSUME NEW p \in Procs, NEW kind \in Optional, NEW stage, ProbeForSelector(p, kind, stage),
             \/ kind = "Service" /\ stage = "select CronJob"
             \/ kind = "CronJob" /\ stage = "manager"
      PROVE  Excused'
  <2> DEFINE f == filtered[p] \union ({kind} \cap cluster.installed)
  <2>1. /\ pc' = [pc EXCEPT ![p] = stage] /\ filtered' = [filtered EXCEPT ![p] = f]
        /\ watched' = [watched EXCEPT ![p] = watched[p]]
        /\ misled' = [misled EXCEPT ![p] = misled[p]] /\ cluster' = cluster
    BY <1>4, <1>b DEF ProbeForSelector, Goto, world
  <2>2. pc[p] = Select[kind]
    BY <1>4 DEF ProbeForSelector
  <2>3. Fair(stage, f \union misled[p], watched[p]) /\ "Deployment" \in f
    BY <1>4, <1>a, <2>2
  <2> HIDE DEF f, Fair
  <2> QED BY <1>o, <2>1, <2>3
<1>5. ASSUME NEW p \in Procs, NEW kind \in Optional, NEW stage, ProbeForSelectorFails(p, kind, stage),
             \/ kind = "Service" /\ stage = "select CronJob"
             \/ kind = "CronJob" /\ stage = "manager"
      PROVE  Excused'
  <2> DEFINE m == misled[p] \union {kind}
  <2>1. /\ pc' = [pc EXCEPT ![p] = stage] /\ filtered' = [filtered EXCEPT ![p] = filtered[p]]
        /\ watched' = [watched EXCEPT ![p] = watched[p]]
        /\ misled' = [misled EXCEPT ![p] = m] /\ cluster' = cluster
    BY <1>5, <1>b DEF ProbeForSelectorFails, Goto, world
  <2>2. pc[p] = Select[kind]
    BY <1>5 DEF ProbeForSelectorFails
  <2>3. Fair(stage, filtered[p] \union m, watched[p]) /\ "Deployment" \in filtered[p]
    BY <1>5, <1>a, <2>2
  <2> HIDE DEF m, Fair
  <2> QED BY <1>o, <2>1, <2>3
<1>6. ASSUME NEW p \in Procs, NewManager(p)
      PROVE  Excused'
  <2> DEFINE stage == IF given[p].imports THEN Inform.CronJob ELSE "syncing"
             kinds == IF given[p].imports THEN {"Deployment"} ELSE {}
  <2>1. /\ Goto(p, stage) /\ Watch(p, kinds) /\ UNCHANGED <<filtered, misled>>
        /\ cluster' = cluster /\ pc[p] = "manager"
    BY <1>6 DEF NewManager, world
  <2>2. Fair(stage, Known(p), watched[p] \union kinds) /\ "Deployment" \in filtered[p]
    BY <1>a, <2>1
  <2> HIDE DEF stage, kinds, Fair
  <2> QED BY <1>w, <2>1, <2>2
<1>7. ASSUME NEW p \in Procs, GetCronJobInformer(p)
      PROVE  Excused'
  <2> DEFINE kinds == {"CronJob"} \cap cluster.installed
  <2>1. /\ Goto(p, Inform.Service) /\ Watch(p, kinds) /\ UNCHANGED <<filtered, misled>>
        /\ cluster' = cluster /\ pc[p] = Inform.CronJob
    BY <1>7 DEF GetCronJobInformer, world
  <2>2. Fair(Inform.Service, Known(p), watched[p] \union kinds) /\ "Deployment" \in filtered[p]
    BY <1>a, <2>1
  <2> HIDE DEF kinds, Fair
  <2> QED BY <1>w, <2>1, <2>2
<1>8. ASSUME NEW p \in Procs, GetServiceInformer(p)
      PROVE  Excused'
  <2> DEFINE stage == IF "Service" \in cluster.installed THEN "review" ELSE "syncing"
  <2>1. /\ Goto(p, stage) /\ UNCHANGED <<filtered, watched, misled>>
        /\ cluster' = cluster /\ pc[p] = Inform.Service
    BY <1>8 DEF GetServiceInformer, world
  <2>2. Fair(stage, Known(p), watched[p]) /\ "Deployment" \in filtered[p]
    BY <1>a, <2>1
  <2> HIDE DEF stage, Fair
  <2> QED BY <1>g, <2>1, <2>2
<1>9. ASSUME NEW p \in Procs, NEW kind \in Optional, NEW stage,
             ProbeForInformerFails(p, kind, stage), stage \in {"inform Service", "syncing"}
      PROVE  Excused'
  <2>1. /\ Goto(p, stage) /\ UNCHANGED <<filtered, watched, misled>> /\ cluster' = cluster
        /\ pc[p] \in {Inform.CronJob, Inform.Service, "review"}
    BY <1>9 DEF ProbeForInformerFails, world, Optional
  <2>2. Fair(stage, Known(p), watched[p]) /\ "Deployment" \in filtered[p]
    BY <1>a, <1>9, <2>1
  <2> HIDE DEF Fair
  <2> QED BY <1>g, <2>1, <2>2
<1>10. ASSUME NEW p \in Procs, CheckPermission(p)
       PROVE  Excused'
  <2> DEFINE kinds == IF Allowed("Service", Lookup(given[p].watch)) THEN {"Service"} ELSE {}
  <2>1. /\ Goto(p, "syncing") /\ Watch(p, kinds) /\ UNCHANGED <<filtered, misled>>
        /\ cluster' = cluster /\ pc[p] = "review"
    BY <1>10 DEF CheckPermission, world
  <2>2. Fair("syncing", Known(p), watched[p] \union kinds) /\ "Deployment" \in filtered[p]
    BY <1>a, <2>1
  <2> HIDE DEF kinds, Fair
  <2> QED BY <1>w, <2>1, <2>2
<1>11. ASSUME NEW p \in Procs, CachesSync(p) \/ Elect(p)
       PROVE  Excused'
  <2>1. PICK stage \in {"electing", "leading"} :
            /\ Goto(p, stage) /\ UNCHANGED <<filtered, watched, misled>> /\ cluster' = cluster
            /\ pc[p] \in {"syncing", "electing"}
    BY <1>11 DEF CachesSync, Elect, world
  <2>2. Fair(stage, Known(p), watched[p]) /\ "Deployment" \in filtered[p]
    BY <1>a, <2>1
  <2> HIDE DEF Fair
  <2> QED BY <1>g, <2>1, <2>2
<1>12. ASSUME NEW kind \in Optional, ChangeAPI(kind)
       PROVE  Excused'
  <2>1. cluster'.installed \subseteq cluster.installed \union {kind}
    BY <1>12 DEF ChangeAPI, Shape, Cluster
  <2>2. UNCHANGED <<pc, filtered, watched>>
    BY <1>12 DEF ChangeAPI
  <2>3. ASSUME NEW p \in Procs
        PROVE  Fair(pc[p], Known(p), watched[p])' /\ Base(p)'
    <3>1. CASE pc[p] = "down"
      <4>1. Fair(pc[p], Known(p), watched[p])
        BY <1>a
      <4> QED BY <2>2, <3>1, <4>1
    <3>2. CASE pc[p] # "down"
      <4>1. misled'[p] = misled[p] \union {kind}
        BY <1>12, <3>2 DEF ChangeAPI
      <4>2. Fair(pc[p], Known(p), watched[p]) /\ Base(p)
        BY <1>a
      <4> QED BY <2>1, <2>2, <3>2, <4>1, <4>2
    <3> QED BY <3>1, <3>2
  <2> QED BY <2>3 DEF Excused
<1>13. CASE UNCHANGED vars \/ Expire
  <2>1. UNCHANGED <<pc, filtered, watched, misled, cluster>>
    BY <1>13 DEF vars, Expire, world
  <2> QED BY <2>1 DEF Excused
<1>14. ASSUME NEW p \in Procs, Proceed(p)
       PROVE  Excused'
  <2> HIDE DEF Fair
  <2> QED BY <1>1, <1>3, <1>4, <1>5, <1>6, <1>7, <1>8, <1>9, <1>10, <1>11, <1>14
          DEF Proceed, InvalidLabel, Optional
<1> QED
  <2> HIDE DEF Fair
  <2> QED BY <1>1, <1>2, <1>12, <1>13, <1>14
          DEF Next, ExitOnError, Stop, Crash, Optional

-----------------------------------------------------------------------------
Invariant == Shape /\ Leases /\ Excused

LEMMA InvariantInit == Init => Invariant
<1> SUFFICES ASSUME Init PROVE Invariant
  OBVIOUS
<1> USE DEF Init
<1>1. Shape
  <2>1. 0 \in -128 .. 127
    OBVIOUS
  <2>2. changes \in 0 .. MaxChanges /\ faults \in 0 .. MaxFaults
    BY BoundsAssumption
  <2>3. cluster \in Cluster
    BY ClustersAssumption
  <2> QED BY <2>1, <2>2, <2>3, StageNames DEF Shape
<1>2. Leases
  BY DEF Leases
<1>3. Excused
  BY DEF Excused, Fair, Unprobed
<1> QED BY <1>1, <1>2, <1>3 DEF Invariant

LEMMA Invariance == Spec => []Invariant
<1>1. Invariant /\ [Next]_vars => Invariant'
  BY ShapeStep, LeasesStep, ExcusedStep DEF Invariant
<1> QED BY InvariantInit, <1>1, PTL DEF Spec

-----------------------------------------------------------------------------
(* Values stay within their types; whatever LOG_LEVEL says, the level is   *)
(* one of eight bits.                                                      *)
THEOREM TypeCorrect == Spec => []TypeOK
<1>1. Invariant => TypeOK
  <2> SUFFICES ASSUME Invariant PROVE TypeOK
    OBVIOUS
  <2>1. \A p \in Procs : FitsInt8(zapLevel[p])
    BY DEF Invariant, Shape, FitsInt8
  <2> QED BY <2>1 DEF Invariant, Shape, TypeOK
<1> QED BY Invariance, <1>1, PTL

(* Processes of one operator have one lock, so one of them reconciles.     *)
THEOREM ReconcilerUnique == Spec => []OneReconciler
<1>1. Invariant => OneReconciler
  <2> SUFFICES ASSUME Leases, NEW p \in Procs, NEW q \in Procs,
                      pc[p] = "leading", pc[q] = "leading", SameOperator(p, q)
               PROVE  p = q
    BY DEF Invariant, OneReconciler
  <2>1. \A r \in {p, q} :
          /\ OperatorNamespace(given[r]) = given[r].namespace
          /\ LeaderElection(given[r])
          /\ LeaderElectionID(given[r]) = "camel-dashboard-lock"
    BY DEF SameOperator, OperatorNamespace, LeaderElection, LeaderElectionID, Lookup
  <2>2. Lock(given[p]) = Lock(given[q])
    BY <2>1 DEF Lock, SameOperator
  <2>3. /\ [lock |-> Lock(given[p]), by |-> p] \in leases
        /\ [lock |-> Lock(given[q]), by |-> q] \in leases
    BY <2>1 DEF Leases
  <2>4. [lock |-> Lock(given[p]), by |-> p] = [lock |-> Lock(given[q]), by |-> q]
    BY <2>2, <2>3 DEF Leases
  <2> QED BY <2>4
<1> QED BY Invariance, <1>1, PTL

(* What is watched without a selector came or was missed between probes.   *)
THEOREM HandlersGetApps == Spec => []HandlersSeeApps
<1>1. Invariant => HandlersSeeApps
  BY DEF Invariant, Excused, Fair, HandlersSeeApps
<1> QED BY Invariance, <1>1, PTL

(* A duration that does not overflow is what it seems.                     *)
LEMMA WrappedBelowLimit ==
    ASSUME NEW n \in Nat, n < Limit
    PROVE  Wrapped(n) = n
<1>1. Limit \in Nat /\ n + Limit \in Nat /\ n + Limit < 2 * Limit
  BY WidthAssumption
<1>2. ASSUME NEW x \in Nat, NEW m \in Nat, x < m
      PROVE  x % m = x
  BY <1>2
<1>3. (n + Limit) % (2 * Limit) = n + Limit
  BY <1>1, <1>2
<1> QED BY <1>1, <1>3 DEF Wrapped

(* Usable intervals are kept, and texts that are no numbers fall back.     *)
THEOREM PollingGoesOn == Spec => []PollsAgain
<1>1. Invariant => PollsAgain
  <2> SUFFICES ASSUME Shape, NEW p \in Procs, NEW annotation \in Annotations
               PROVE  LET asked == IF annotation \in Int THEN annotation
                                   ELSE IF given[p].interval \in Int
                                        THEN given[p].interval ELSE 60
                      IN  asked > 0 /\ asked * Second < Limit =>
                            getPollingInterval(given[p], annotation) = asked * Second
    BY DEF Invariant, PollsAgain
  <2> DEFINE asked == IF annotation \in Int THEN annotation
                      ELSE IF given[p].interval \in Int THEN given[p].interval ELSE 60
  <2>1. asked \in Int
    OBVIOUS
  <2>2. getPollingInterval(given[p], annotation) = Duration(asked)
    BY DEF getPollingInterval, getOperatorEnvAsInt
  <2> HIDE DEF asked
  <2>3. ASSUME asked > 0, asked * Second < Limit
        PROVE  Duration(asked) = asked * Second
    <3>1. asked * Second \in Nat
      BY <2>1, <2>3, WidthAssumption
    <3> QED BY <3>1, <2>3, WrappedBelowLimit DEF Duration
  <2> QED BY <2>2, <2>3 DEF asked
<1> QED BY Invariance, <1>1, PTL

================================================================================
