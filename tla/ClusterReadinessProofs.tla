----------------------- MODULE ClusterReadinessProofs -----------------------
(***************************************************************************)
(* Proofs about waitForClusterReady and verify.                            *)
(*                                                                         *)
(* The polls look at one thing after the other.  PassedInv says that what  *)
(* an earlier poll has seen still holds when a later one looks: operators  *)
(* that have finished stay so, the driver and its pods change only while   *)
(* the storage operator is at work, and no Machine starts after the poll   *)
(* of the Machines was content.  The operators that were polled before they *)
(* had noticed the change, in missed, are left out.                        *)
(***************************************************************************)
EXTENDS ClusterReadiness, TLAPS

\* An operator that has acted on the change says so, one that is at it does too.
RolloutInv ==
    \A o \in Operator :
        /\ rollout[o] = "done" => status[o] = Settled
        /\ rollout[o] = "rolling" => status[o].Progressing = "True"

\* A config-operator that has acted has named every vCenter of the Infrastructure.
Complete  == config.parses /\ VCentersPresent
ConfigInv == rollout["config-operator"] = "done" => Complete

\* A controller that does not say Available says Degraded.
DriverInv == \A c \in Controller : driver[c].Available = "none" => driver[c].Degraded = "True"

\* A Machine that has had a Node has one until it is gone.
LinkInv ==
    \A m \in Machine :
        /\ machines[m].phase = "Running" => machines[m].linked
        /\ machines[m].phase = "Provisioning" => ~machines[m].linked
        /\ machines[m].linked /\ machines[m].phase # "gone" => nodes[m] # "gone"

\* The polls up to the k-th have been content.
Passed(k) == result = "ready" \/ stage > k

\* What a poll has seen does not become false any more.
PassedInv ==
    /\ \A k \in 1..4 : Passed(k) => Stages[k] \in missed \/ rollout[Stages[k]] = "done"
    /\ Passed(5) /\ "storage" \notin missed =>
           \A c \in Controller : driver[c] = [Available |-> "True", Degraded |-> "False"]
    /\ Passed(6) /\ "storage" \notin missed => \A p \in Pod : pods[p] \in {"Running", "absent"}
    /\ Passed(7) => MachinesHealthy
    /\ Passed(8) => NodesReady
    /\ Passed(9) => MachinesLabelled

\* The wait is over when it has a result, and only a successful one is verified.
ResultInv ==
    /\ stage = 0 <=> result # "none"
    /\ check # 0 => result = "ready"
    /\ check = Len(OperatorOrder) + 2 => Second \in infra

ReadyInv == RolloutInv /\ ConfigInv /\ DriverInv /\ LinkInv /\ PassedInv /\ ResultInv

Status == [Available : Condition, Degraded : Condition, Progressing : Condition]
Report == [Available : {"True", "False", "none"}, Degraded : {"True", "False"}]

(***************************************************************************)
(* Operators and stages by number.                                         *)
(***************************************************************************)
LEMMA OrderFacts ==
    /\ DOMAIN OperatorOrder = 1..4 /\ Len(OperatorOrder) = 4
    /\ OperatorOrder[1] = "cloud-controller-manager" /\ OperatorOrder[2] = "config-operator"
    /\ OperatorOrder[3] = "machine-api" /\ OperatorOrder[4] = "storage"
BY DEF OperatorOrder

\* The operators that are polled, as a set.
LEMMA OperatorFacts ==
    Operator = {"cloud-controller-manager", "config-operator", "machine-api", "storage"}
<1>1. Operator = {OperatorOrder[i] : i \in 1..4}
    BY OrderFacts DEF Operator, ToSet
<1>2. \A i \in 1..4 : i = 1 \/ i = 2 \/ i = 3 \/ i = 4
    OBVIOUS
<1>3. 1 \in 1..4 /\ 2 \in 1..4 /\ 3 \in 1..4 /\ 4 \in 1..4
    OBVIOUS
<1> QED BY <1>1, <1>2, <1>3, OrderFacts

\* The polls by number.
LEMMA StageFacts ==
    /\ Len(Stages) = 9
    /\ Stages[1] = "cloud-controller-manager" /\ Stages[2] = "config-operator"
    /\ Stages[3] = "machine-api" /\ Stages[4] = "storage"
    /\ Stages[5] = "driver" /\ Stages[6] = "pods" /\ Stages[7] = "machines"
    /\ Stages[8] = "nodes" /\ Stages[9] = "labels"
BY DEF Stages

(***************************************************************************)
(* Types.                                                                  *)
(***************************************************************************)
ClusterOK ==
    /\ status \in [Operator -> Status]
    /\ rollout \in [Operator -> {"unaware", "rolling", "done"}]
    /\ driver \in [Controller -> Report]
    /\ pods \in [Pod -> {"absent", "Pending", "Running"}]
    /\ machines \in [Machine -> AMachine]
    /\ nodes \in [Machine -> {"NotReady", "Ready", "gone"}]
    /\ infra \subseteq VCenter /\ config \in AConfig

WaitOK ==
    /\ stage \in 0..9 /\ polls \in 0..MaxPolls /\ waiting \in 0..MaxWaiting
    /\ result \in {"none", "ready", "timeout"}
    /\ missed \subseteq Operator
    /\ check \in 0..6
    /\ verdict \in {"none", "passed", "degraded", "not_added", "incomplete", "error"}

\* The types of the cluster and those of the wait are apart, before and after a step.
LEMMA TypeSplit ==
    /\ TypeOK <=> ClusterOK /\ WaitOK
    /\ TypeOK' <=> ClusterOK' /\ WaitOK'
<1>1. Len(Stages) = 9 /\ Len(OperatorOrder) + 2 = 6
    BY StageFacts, OrderFacts
<1> QED BY <1>1 DEF TypeOK, ClusterOK, WaitOK, Status, Report

\* The status of an operator at rest is a status.
LEMMA SettledType == Settled \in Status
BY DEF Settled, Status, Condition

\* A config the operator writes is one, and names every vCenter it is written for.
LEMMA ConfigFacts ==
    /\ \A vcs \in SUBSET VCenter : ConfigFor(vcs) \in AConfig
    /\ config = ConfigFor(infra) => Complete
    /\ config' = ConfigFor(infra') => Complete'
<1>1. ASSUME NEW vcs PROVE ConfigFor(vcs).parses /\ vcs \subseteq {e.name : e \in ConfigFor(vcs).entries}
    <2>1. ASSUME NEW v \in vcs PROVE v \in {e.name : e \in ConfigFor(vcs).entries}
        <3> DEFINE e == [name |-> v, server |-> IF v = Second THEN v ELSE "none"]
        <3>1. e \in ConfigFor(vcs).entries /\ e.name = v
            BY <2>1 DEF ConfigFor
        <3> HIDE DEF e
        <3> QED BY <3>1
    <2> QED BY <2>1 DEF ConfigFor
<1>2. ASSUME NEW vcs \in SUBSET VCenter PROVE ConfigFor(vcs) \in AConfig
    <2>1. \A v \in vcs : [name |-> v, server |-> IF v = Second THEN v ELSE "none"] \in Entry
        BY DEF Entry
    <2> QED BY <2>1 DEF ConfigFor, AConfig
<1>3. config = ConfigFor(infra) => Complete
    BY <1>1 DEF Complete, VCentersPresent
<1>4. config' = ConfigFor(infra') => Complete'
    BY <1>1 DEF Complete, VCentersPresent
<1> QED BY <1>2, <1>3, <1>4

(***************************************************************************)
(* The cluster.                                                            *)
(***************************************************************************)
\* Operators only get on with the change.
OperatorsAdvance ==
    /\ UNCHANGED <<driver, pods, machines, nodes, infra>> /\ ClusterOK'
    /\ \A k \in Operator : rollout[k] = "done" => rollout'[k] = "done"
    /\ RolloutInv => RolloutInv'
    /\ ConfigInv => ConfigInv'
    /\ Complete => Complete'

\* What an operator does keeps the rollouts that are done, and its status in step with its rollout.
LEMMA OperatorStep ==
    ASSUME ClusterOK, NEW o \in Operator, Notice(o) \/ Trouble(o) \/ Finish(o)
    PROVE  OperatorsAdvance
<1>0. /\ status \in [Operator -> Status] /\ rollout \in [Operator -> {"unaware", "rolling", "done"}]
      /\ UNCHANGED <<driver, pods, machines, nodes, infra>>
      /\ infra \subseteq VCenter /\ config \in AConfig /\ "config-operator" \in Operator
    BY OperatorFacts DEF ClusterOK, Notice, Trouble, Finish
<1>1. ASSUME NEW s \in Status, NEW r \in {"rolling", "done"},
             status' = [status EXCEPT ![o] = s], rollout' = [rollout EXCEPT ![o] = r],
             rollout[o] # "done",
             r = "done" => s = Settled,
             r = "rolling" /\ RolloutInv => s.Progressing = "True",
             config' = IF o = "config-operator" /\ r = "done" THEN ConfigFor(infra) ELSE config
      PROVE  OperatorsAdvance
    <2>1. status' \in [Operator -> Status] /\ rollout' \in [Operator -> {"unaware", "rolling", "done"}]
        BY <1>0, <1>1
    <2>2. status'[o] = s /\ rollout'[o] = r
        BY <1>0, <1>1
    <2>3. \A k \in Operator \ {o} : status'[k] = status[k] /\ rollout'[k] = rollout[k]
        BY <1>0, <1>1
    <2>4. ASSUME RolloutInv PROVE RolloutInv'
        <3> SUFFICES ASSUME NEW k \in Operator
            PROVE  /\ rollout'[k] = "done" => status'[k] = Settled
                   /\ rollout'[k] = "rolling" => status'[k].Progressing = "True"
            BY DEF RolloutInv
        <3>1. CASE k = o
            BY <1>1, <2>2, <2>4, <3>1 DEF RolloutInv
        <3>2. CASE k # o
            BY <2>3, <2>4, <3>2 DEF RolloutInv
        <3> QED BY <3>1, <3>2
    <2>5. config' \in AConfig
        BY <1>0, <1>1, ConfigFacts
    <2>6. ASSUME ConfigInv PROVE ConfigInv'
        <3>1. CASE o = "config-operator" /\ r = "done"
            <4>1. config' = ConfigFor(infra')
                BY <1>0, <1>1, <3>1
            <4> QED BY <4>1, ConfigFacts DEF ConfigInv
        <3>2. CASE ~(o = "config-operator" /\ r = "done")
            <4>1. config' = config /\ infra' = infra
                BY <1>0, <1>1, <3>2
            <4>2. Complete' = Complete
                BY <4>1 DEF Complete, VCentersPresent, VCenterServers
            <4>3. rollout'["config-operator"] = "done" => rollout["config-operator"] = "done"
                BY <1>0, <1>1, <2>2, <2>3, <3>2
            <4> QED BY <2>6, <4>2, <4>3 DEF ConfigInv
        <3> QED BY <3>1, <3>2
    <2>7. Complete => Complete'
        <3>1. CASE config' = ConfigFor(infra)
            BY <1>0, <3>1, ConfigFacts
        <3>2. CASE config' = config
            BY <1>0, <3>2 DEF Complete, VCentersPresent, VCenterServers
        <3> QED BY <1>1, <3>1, <3>2
    <2> QED BY <1>0, <1>1, <2>1, <2>2, <2>3, <2>4, <2>5, <2>6, <2>7 DEF ClusterOK, OperatorsAdvance
<1>2. ASSUME Notice(o) PROVE OperatorsAdvance
    <2> DEFINE s == [status[o] EXCEPT !.Progressing = "True"]
    <2>1. s \in Status /\ s.Progressing = "True"
        BY <1>0 DEF Status, Condition
    <2>2. /\ status' = [status EXCEPT ![o] = s] /\ rollout' = [rollout EXCEPT ![o] = "rolling"]
          /\ rollout[o] = "unaware" /\ config' = config
        BY <1>0, <1>2 DEF Notice
    <2> HIDE DEF s
    <2> QED BY <1>1, <2>1, <2>2
<1>3. ASSUME Trouble(o) PROVE OperatorsAdvance
    <2> DEFINE s1 == [status[o] EXCEPT !.Degraded = "True"]
               s == [s1 EXCEPT !.Available = "Unknown"]
    <2>1. s1 \in Status /\ s1.Progressing = status[o].Progressing
        BY <1>0 DEF Status, Condition
    <2>2. status' = [status EXCEPT ![o] = s] /\ config' = config
        BY <1>0, <1>3 DEF Trouble
    <2> HIDE DEF s1
    <2>3. s \in Status /\ s.Progressing = status[o].Progressing
        BY <2>1 DEF Status, Condition
    <2>4. rollout' = [rollout EXCEPT ![o] = "rolling"] /\ rollout[o] = "rolling"
        BY <1>0, <1>3 DEF Trouble
    <2> HIDE DEF s
    <2>5. RolloutInv => status[o].Progressing = "True"
        BY <2>4 DEF RolloutInv
    <2> QED BY <1>1, <2>2, <2>3, <2>4, <2>5
<1>4. ASSUME Finish(o) PROVE OperatorsAdvance
    <2>1. /\ status' = [status EXCEPT ![o] = Settled] /\ rollout' = [rollout EXCEPT ![o] = "done"]
          /\ rollout[o] = "rolling" /\ config' = IF o = "config-operator" THEN ConfigFor(infra) ELSE config
        BY <1>4 DEF Finish
    <2> QED BY <1>1, <2>1, SettledType
<1> QED BY <1>2, <1>3, <1>4

\* The driver and its pods get worse only while the storage operator is at work.
LEMMA DriverStep ==
    ASSUME ClusterOK, NEW c \in Controller, DriverUpdates(c) \/ DriverRecovers(c)
    PROVE  /\ UNCHANGED <<status, rollout, pods, machines, nodes, infra, config>> /\ ClusterOK'
           /\ DriverInv => DriverInv'
           /\ \A k \in Controller :
                \/ driver'[k] \in {driver[k], [Available |-> "True", Degraded |-> "False"]}
                \/ rollout["storage"] = "rolling"
<1> DEFINE good == [Available |-> "True", Degraded |-> "False"]
           bad  == [Available |-> "False", Degraded |-> "False"]
<1>1. /\ UNCHANGED <<status, rollout, pods, machines, nodes, infra, config>>
      /\ \/ driver' = [driver EXCEPT ![c] = good]
         \/ driver' = [driver EXCEPT ![c] = bad] /\ rollout["storage"] = "rolling"
    BY DEF DriverUpdates, DriverRecovers
<1>2. /\ good \in Report /\ good.Available = "True"
      /\ bad \in Report /\ bad.Available = "False"
    BY DEF Report
<1> HIDE DEF good, bad
<1>3. driver \in [Controller -> Report]
    BY DEF ClusterOK
<1>4. driver' \in [Controller -> Report] /\ \A k \in Controller : driver'[k] \in {driver[k], good, bad}
    BY <1>1, <1>2, <1>3
<1>5. \A k \in Controller : driver'[k] \in {driver[k], good} \/ rollout["storage"] = "rolling"
    BY <1>1, <1>2, <1>3
<1>6. ClusterOK'
    BY <1>1, <1>4 DEF ClusterOK
<1>7. DriverInv => DriverInv'
    BY <1>2, <1>4 DEF DriverInv
<1> QED BY <1>1, <1>5, <1>6, <1>7 DEF good

\* A pod leaves Running only while the storage operator is at work.
LEMMA PodStep ==
    ASSUME ClusterOK, NEW p \in Pod, PodReplaced(p) \/ PodStarts(p)
    PROVE  /\ UNCHANGED <<status, rollout, driver, machines, nodes, infra, config>> /\ ClusterOK'
           /\ \A k \in Pod : pods'[k] \in {pods[k], "Running"} \/ rollout["storage"] = "rolling"
<1>1. /\ UNCHANGED <<status, rollout, driver, machines, nodes, infra, config>>
      /\ pods \in [Pod -> {"absent", "Pending", "Running"}]
    BY DEF PodReplaced, PodStarts, ClusterOK
<1>2. PICK v \in {"absent", "Pending", "Running"} :
          /\ pods' = [pods EXCEPT ![p] = v]
          /\ v = "Running" \/ rollout["storage"] = "rolling"
    BY <1>1 DEF PodReplaced, PodStarts
<1>3. /\ pods' \in [Pod -> {"absent", "Pending", "Running"}]
      /\ \A k \in Pod : pods'[k] \in {pods[k], "Running"} \/ rollout["storage"] = "rolling"
    BY <1>1, <1>2
<1> QED BY <1>1, <1>3 DEF ClusterOK

\* The ways of a Machine and of its Node.
MachinesAdvance(m) ==
    /\ UNCHANGED <<status, rollout, driver, pods, infra, config>> /\ ClusterOK'
    /\ \A k \in Machine \ {m} : machines'[k] = machines[k] /\ nodes'[k] = nodes[k]
    /\ machines'[m].deleting = machines[m].deleting
    /\ \/ machines[m].phase = "Provisioning" /\ ~machines[m].deleting
       \/ /\ machines'[m].linked = machines[m].linked
          /\ machines'[m].phase \in {machines[m].phase, "gone"}
          /\ machines[m].labelled => machines'[m].labelled
          /\ nodes'[m] \in {nodes[m], "Ready", "gone"}
    /\ LinkInv => LinkInv'

\* What happens to a Machine or its Node keeps it linked, and a healthy one healthy.
LEMMA MachineStep ==
    ASSUME ClusterOK, NEW m \in Machine,
           MachineRuns(m) \/ MachineFails(m) \/ MachineLabelled(m) \/ MachineGone(m) \/ NodeReady(m)
    PROVE  MachinesAdvance(m)
<1> DEFINE x == machines[m]
<1>0. /\ UNCHANGED <<status, rollout, driver, pods, infra, config>>
      /\ machines \in [Machine -> AMachine] /\ nodes \in [Machine -> {"NotReady", "Ready", "gone"}]
    BY DEF MachineRuns, MachineFails, MachineLabelled, MachineGone, NodeReady, ClusterOK
<1>x. x \in AMachine
    BY <1>0
<1>1. ASSUME NEW y \in AMachine, NEW v \in {"NotReady", "Ready", "gone"},
             machines' = [machines EXCEPT ![m] = y], nodes' = [nodes EXCEPT ![m] = v],
             y.deleting = x.deleting,
             \/ x.phase = "Provisioning" /\ ~x.deleting
             \/ /\ y.linked = x.linked /\ y.phase \in {x.phase, "gone"} /\ (x.labelled => y.labelled)
                /\ v \in {nodes[m], "Ready", "gone"},
             LinkInv => /\ y.phase = "Running" => y.linked
                        /\ y.phase = "Provisioning" => ~y.linked
                        /\ y.linked /\ y.phase # "gone" => v # "gone"
      PROVE  MachinesAdvance(m)
    <2>1. /\ machines' \in [Machine -> AMachine] /\ nodes' \in [Machine -> {"NotReady", "Ready", "gone"}]
          /\ machines'[m] = y /\ nodes'[m] = v
          /\ \A k \in Machine \ {m} : machines'[k] = machines[k] /\ nodes'[k] = nodes[k]
        BY <1>0, <1>1
    <2>2. LinkInv => LinkInv'
        BY <1>1, <2>1 DEF LinkInv
    <2>3. ClusterOK'
        BY <1>0, <2>1 DEF ClusterOK
    <2> QED BY <1>0, <1>1, <2>1, <2>2, <2>3 DEF MachinesAdvance
<1>n. nodes[m] \in {"NotReady", "Ready", "gone"} /\ nodes = [nodes EXCEPT ![m] = nodes[m]]
    BY <1>0
<1>l. LinkInv => /\ x.phase = "Running" => x.linked
                 /\ x.phase = "Provisioning" => ~x.linked
                 /\ x.linked /\ x.phase # "gone" => nodes[m] # "gone"
    BY DEF LinkInv
<1>2. ASSUME MachineRuns(m) PROVE MachinesAdvance(m)
    <2> DEFINE y1 == [x EXCEPT !.phase = "Running"]
               y == [y1 EXCEPT !.linked = TRUE]
    <2>1. x.phase = "Provisioning" /\ ~x.deleting /\ nodes' = [nodes EXCEPT ![m] = "NotReady"]
        BY <1>2 DEF MachineRuns, Active
    <2>2. machines' = [machines EXCEPT ![m] = y]
        BY <1>0, <1>2 DEF MachineRuns
    <2>3. y1 \in AMachine /\ y1.phase = "Running" /\ y1.deleting = x.deleting
        BY <1>x DEF AMachine, Phase
    <2> HIDE DEF y1
    <2>4. y \in AMachine /\ y.phase = "Running" /\ y.deleting = x.deleting /\ y.linked
        BY <2>3 DEF AMachine, Phase
    <2> HIDE DEF y
    <2> QED BY <1>1, <2>1, <2>2, <2>4
<1>3. ASSUME MachineFails(m) PROVE MachinesAdvance(m)
    <2> DEFINE y == [x EXCEPT !.phase = "Failed"]
    <2>1. x.phase = "Provisioning" /\ ~x.deleting /\ nodes' = nodes /\ machines' = [machines EXCEPT ![m] = y]
        BY <1>0, <1>3 DEF MachineFails, Active
    <2>2. y \in AMachine /\ y.phase = "Failed" /\ y.deleting = x.deleting /\ y.linked = x.linked
        BY <1>x DEF AMachine, Phase
    <2> HIDE DEF y
    <2> QED BY <1>1, <1>n, <1>l, <2>1, <2>2
<1>4. ASSUME MachineLabelled(m) PROVE MachinesAdvance(m)
    <2> DEFINE y == [x EXCEPT !.labelled = TRUE]
    <2>1. nodes' = nodes /\ machines' = [machines EXCEPT ![m] = y] /\ x.phase = "Running"
        BY <1>0, <1>4 DEF MachineLabelled
    <2>2. y \in AMachine /\ y.phase = x.phase /\ y.deleting = x.deleting /\ y.linked = x.linked /\ y.labelled
        BY <1>x DEF AMachine, Phase
    <2> HIDE DEF y
    <2> QED BY <1>1, <1>n, <1>l, <2>1, <2>2
<1>5. ASSUME MachineGone(m) PROVE MachinesAdvance(m)
    <2> DEFINE y == [x EXCEPT !.phase = "gone"]
    <2>1. nodes' = [nodes EXCEPT ![m] = "gone"] /\ machines' = [machines EXCEPT ![m] = y]
        BY <1>0, <1>5 DEF MachineGone
    <2>2. y \in AMachine /\ y.phase = "gone" /\ y.deleting = x.deleting /\ y.linked = x.linked /\ y.labelled = x.labelled
        BY <1>x DEF AMachine, Phase
    <2> HIDE DEF y
    <2> QED BY <1>1, <2>1, <2>2
<1>6. ASSUME NodeReady(m) PROVE MachinesAdvance(m)
    <2>1. nodes' = [nodes EXCEPT ![m] = "Ready"] /\ machines' = machines /\ nodes[m] = "NotReady"
        BY <1>6 DEF NodeReady
    <2>2. machines' = [machines EXCEPT ![m] = x]
        BY <2>1, <1>0
    <2> QED BY <1>1, <1>x, <1>l, <2>1, <2>2
<1> QED BY <1>2, <1>3, <1>4, <1>5, <1>6

(***************************************************************************)
(* Types.                                                                  *)
(***************************************************************************)
LEMMA InitType == Init => TypeOK
<1> SUFFICES ASSUME Init PROVE ClusterOK /\ WaitOK
    BY TypeSplit
<1>1. rollout \in [Operator -> {"unaware", "rolling", "done"}]
    BY DEF Init
<1>2. status \in [Operator -> Status]
    <2>1. [Settled EXCEPT !.Progressing = "True"] \in Status
        BY SettledType DEF Status, Condition
    <2> QED BY <2>1, SettledType DEF Init
<1>3. driver \in [Controller -> Report]
    <2>1. /\ [Available |-> "True", Degraded |-> "False"] \in Report
          /\ [Available |-> "none", Degraded |-> "True"] \in Report
        BY DEF Report
    <2> QED BY <2>1 DEF Init
<1>4. pods \in [Pod -> {"absent", "Pending", "Running"}]
    BY DEF Init
<1>5. machines \in [Machine -> AMachine] /\ nodes \in [Machine -> {"NotReady", "Ready", "gone"}]
    BY DEF Init
<1>6. WaitOK
    BY BoundAssumption DEF Init, WaitOK
<1>7. infra \subseteq VCenter
    BY DEF Init, VCenter
<1>8. config \in AConfig
    <2>1. Before \subseteq VCenter
        BY DEF VCenter
    <2>2. \A vcs \in SUBSET VCenter, p \in BOOLEAN : [ConfigFor(vcs) EXCEPT !.parses = p] \in AConfig
        BY ConfigFacts DEF AConfig
    <2>3. CASE rollout["config-operator"] = "done"
        BY <1>7, <2>3, ConfigFacts DEF Init
    <2>4. CASE rollout["config-operator"] # "done"
        <3>1. config \in {[ConfigFor(IF infra = Before THEN VCenter ELSE Before) EXCEPT !.parses = p] : p \in BOOLEAN}
            BY <2>4 DEF Init
        <3> QED BY <2>1, <2>2, <3>1
    <2> QED BY <2>3, <2>4
<1> QED BY <1>1, <1>2, <1>3, <1>4, <1>5, <1>6, <1>7, <1>8 DEF ClusterOK

\* No step of the cluster leaves the types.
LEMMA ClusterStepType ==
    ASSUME ClusterOK, ClusterStep
    PROVE  ClusterOK'
<1>1. ASSUME NEW m \in Machine, 
             MachineRuns(m) \/ MachineFails(m) \/ MachineLabelled(m) \/ MachineGone(m) \/ NodeReady(m)
      PROVE  ClusterOK'
    BY <1>1, MachineStep DEF MachinesAdvance
<1>2. ASSUME NEW o \in Operator, Notice(o) \/ Trouble(o) \/ Finish(o) PROVE ClusterOK'
    BY <1>2, OperatorStep DEF OperatorsAdvance
<1> QED BY <1>1, <1>2, DriverStep, PodStep DEF ClusterStep

\* No step leaves the types.
LEMMA NextType == TypeOK /\ [Next]_vars => TypeOK'
<1> SUFFICES ASSUME ClusterOK, WaitOK, [Next]_vars PROVE ClusterOK' /\ WaitOK'
    BY TypeSplit
<1>1. CASE ClusterStep
    <2>1. WaitOK'
        BY <1>1 DEF ClusterStep, WaitOK
    <2> QED BY <1>1, <2>1, ClusterStepType
<1>2. CASE WaitStep
    <2>1. ClusterOK'
        BY <1>2 DEF WaitStep, PollContent, PollAgain, TimesOut, cluster, ClusterOK
    <2>b. MaxPolls \in Nat \ {0} /\ MaxWaiting \in Nat \ {0}
        BY BoundAssumption
    <2>2. CASE PollContent
        BY <2>1, <2>2, <2>b, StageFacts DEF PollContent, Over, WaitOK
    <2>3. CASE PollAgain
        BY <2>1, <2>3, <2>b DEF PollAgain, WaitOK
    <2>4. CASE TimesOut
        BY <2>1, <2>4, <2>b DEF TimesOut, Over, WaitOK
    <2> QED BY <1>2, <2>1, <2>2, <2>3, <2>4 DEF WaitStep
<1>3. CASE VerifyStep
    <2>1. ClusterOK'
        BY <1>3 DEF VerifyStep, StartVerify, VerifyOperator, VerifyInfra, VerifyConfig, VerifyCallFails, VerifyGoesOn, VerifyEnds, wait, cluster, ClusterOK
    <2>2. WaitOK'
        <3>1. CASE StartVerify
            BY <3>1 DEF StartVerify, WaitOK, wait
        <3>2. CASE VerifyOperator \/ VerifyInfra
            <4>1. check \in 1..5 /\ UNCHANGED wait
                BY <3>2, OrderFacts DEF VerifyOperator, VerifyInfra, VerifyGoesOn, VerifyEnds
            <4>2. \/ check' = check + 1 /\ verdict' = verdict
                  \/ check' = 0 /\ verdict' \in {"degraded", "not_added"}
                BY <3>2 DEF VerifyOperator, VerifyInfra, VerifyGoesOn, VerifyEnds
            <4> QED BY <4>1, <4>2 DEF WaitOK, wait
        <3>3. CASE VerifyConfig \/ VerifyCallFails
            <4>1. /\ check' = 0 /\ verdict' \in {"passed", "incomplete", "error"}
                  /\ UNCHANGED wait
                BY <3>3 DEF VerifyConfig, VerifyCallFails, VerifyEnds
            <4> QED BY <4>1 DEF WaitOK, wait
        <3> QED BY <1>3, <3>1, <3>2, <3>3 DEF VerifyStep
    <2> QED BY <2>1, <2>2
<1>4. CASE UNCHANGED vars
    BY <1>4 DEF vars, cluster, ClusterOK, WaitOK
<1> QED BY <1>1, <1>2, <1>3, <1>4 DEF Next

(***************************************************************************)
(* What the polls have seen.                                               *)
(***************************************************************************)
Inv == TypeOK /\ ReadyInv

\* At the start nothing has been seen.
LEMMA InitInv == Init => Inv
<1> SUFFICES ASSUME Init PROVE Inv
    OBVIOUS
<1>1. TypeOK
    BY InitType
<1>2. RolloutInv
    <2> SUFFICES ASSUME NEW o \in Operator
        PROVE  /\ rollout[o] = "done" => status[o] = Settled
               /\ rollout[o] = "rolling" => status[o].Progressing = "True"
        BY DEF RolloutInv
    <2>2. status[o] = IF rollout[o] = "rolling" THEN [Settled EXCEPT !.Progressing = "True"] ELSE Settled
        BY DEF Init
    <2>3. [Settled EXCEPT !.Progressing = "True"].Progressing = "True"
        BY SettledType DEF Status
    <2> QED BY <2>2, <2>3
<1>3. DriverInv
    <2> SUFFICES ASSUME NEW c \in Controller PROVE driver[c].Available = "none" => driver[c].Degraded = "True"
        BY DEF DriverInv
    <2>1. \/ driver[c] = [Available |-> "True", Degraded |-> "False"]
          \/ driver[c] = [Available |-> "none", Degraded |-> "True"]
        BY DEF Init
    <2> QED BY <2>1
<1>4. LinkInv
    <2> SUFFICES ASSUME NEW m \in Machine
        PROVE  /\ machines[m].phase = "Running" => machines[m].linked
               /\ machines[m].phase = "Provisioning" => ~machines[m].linked
               /\ machines[m].linked /\ machines[m].phase # "gone" => nodes[m] # "gone"
        BY DEF LinkInv
    <2> QED BY DEF Init
<1>5. stage = 1 /\ result = "none" /\ check = 0
    BY DEF Init
<1>6. PassedInv /\ ResultInv
    BY <1>5, OrderFacts DEF PassedInv, Passed, ResultInv
<1>7. ConfigInv
    BY ConfigFacts DEF Init, ConfigInv
<1> QED BY <1>1, <1>2, <1>3, <1>4, <1>6, <1>7 DEF Inv, ReadyInv

\* No step of the cluster undoes what a poll has seen.
LEMMA ClusterStepInv ==
    ASSUME Inv, ClusterStep
    PROVE  ReadyInv'
<1> USE DEF Inv, ReadyInv
<1>0. UNCHANGED <<stage, result, missed, check>> /\ ClusterOK /\ stage \in 0..9
    BY TypeSplit DEF ClusterStep, WaitOK
<1>r. infra' = infra => ResultInv'
    BY <1>0 DEF ResultInv
<1>p. \A k \in 1..9 : Passed(k)' = Passed(k)
    BY <1>0 DEF Passed
<1>s. (Passed(5) \/ Passed(6)) /\ "storage" \notin missed => rollout["storage"] # "rolling"
    <2>1. Passed(5) \/ Passed(6) => Passed(4)
        BY <1>0 DEF Passed
    <2> QED BY <2>1, StageFacts DEF PassedInv
<1>c. UNCHANGED <<rollout, infra, config>> => ConfigInv'
    BY DEF ConfigInv, Complete, VCentersPresent, VCenterServers
<1>o. \A k \in 1..4 : Stages[k] \in Operator
    <2>1. \A k \in 1..4 : k = 1 \/ k = 2 \/ k = 3 \/ k = 4
        OBVIOUS
    <2> QED BY <2>1, StageFacts, OperatorFacts
<1>1. ASSUME NEW o \in Operator, Notice(o) \/ Trouble(o) \/ Finish(o) PROVE ReadyInv'
    <2>1. OperatorsAdvance
        BY <1>0, <1>1, OperatorStep
    <2>2. UNCHANGED <<driver, pods, machines, nodes, infra>>
        BY <2>1 DEF OperatorsAdvance
    <2>3. RolloutInv' /\ ConfigInv' /\ DriverInv' /\ LinkInv'
        BY <2>1, <2>2 DEF OperatorsAdvance, DriverInv, LinkInv
    <2>4. MachinesHealthy' = MachinesHealthy /\ NodesReady' = NodesReady /\ MachinesLabelled' = MachinesLabelled
        BY <2>2 DEF MachinesHealthy, NodesReady, MachinesLabelled, Active
    <2>5. PassedInv'
        <3>1. \A k \in 1..4 : rollout[Stages[k]] = "done" => rollout'[Stages[k]] = "done"
            BY <1>o, <2>1 DEF OperatorsAdvance
        <3> QED BY <1>0, <1>p, <2>2, <2>4, <3>1 DEF PassedInv
    <2> QED BY <1>r, <2>2, <2>3, <2>5
<1>2. ASSUME NEW c \in Controller, DriverUpdates(c) \/ DriverRecovers(c) PROVE ReadyInv'
    <2>1. /\ UNCHANGED <<status, rollout, pods, machines, nodes, infra, config>> /\ DriverInv'
          /\ \A k \in Controller :
                \/ driver'[k] \in {driver[k], [Available |-> "True", Degraded |-> "False"]}
                \/ rollout["storage"] = "rolling"
        BY <1>0, <1>2, DriverStep
    <2>2. RolloutInv' /\ ConfigInv' /\ LinkInv'
        BY <1>c, <2>1 DEF RolloutInv, LinkInv
    <2>3. MachinesHealthy' = MachinesHealthy /\ NodesReady' = NodesReady /\ MachinesLabelled' = MachinesLabelled
        BY <2>1 DEF MachinesHealthy, NodesReady, MachinesLabelled, Active
    <2>4. PassedInv'
        BY <1>0, <1>p, <1>s, <2>1, <2>3 DEF PassedInv
    <2> QED BY <1>r, <2>1, <2>2, <2>4
<1>3. ASSUME NEW p \in Pod, PodReplaced(p) \/ PodStarts(p) PROVE ReadyInv'
    <2>1. /\ UNCHANGED <<status, rollout, driver, machines, nodes, infra, config>>
          /\ \A k \in Pod : pods'[k] \in {pods[k], "Running"} \/ rollout["storage"] = "rolling"
        BY <1>0, <1>3, PodStep
    <2>2. RolloutInv' /\ ConfigInv' /\ DriverInv' /\ LinkInv'
        BY <1>c, <2>1 DEF RolloutInv, DriverInv, LinkInv
    <2>3. MachinesHealthy' = MachinesHealthy /\ NodesReady' = NodesReady /\ MachinesLabelled' = MachinesLabelled
        BY <2>1 DEF MachinesHealthy, NodesReady, MachinesLabelled, Active
    <2>4. PassedInv'
        BY <1>0, <1>p, <1>s, <2>1, <2>3 DEF PassedInv
    <2> QED BY <1>r, <2>1, <2>2, <2>4
<1>4. ASSUME NEW m \in Machine,
             MachineRuns(m) \/ MachineFails(m) \/ MachineLabelled(m) \/ MachineGone(m) \/ NodeReady(m)
      PROVE  ReadyInv'
    <2>1. MachinesAdvance(m)
        BY <1>0, <1>4, MachineStep
    <2>2. UNCHANGED <<status, rollout, driver, pods, infra, config>> /\ LinkInv'
        BY <2>1 DEF MachinesAdvance
    <2>3. RolloutInv' /\ ConfigInv' /\ DriverInv'
        BY <1>c, <2>2 DEF RolloutInv, DriverInv
    <2>4. \A k \in Machine \ {m} : machines'[k] = machines[k] /\ nodes'[k] = nodes[k]
        BY <2>1 DEF MachinesAdvance
    <2>5. ASSUME MachinesHealthy
          PROVE  /\ machines'[m].linked = machines[m].linked
                 /\ machines'[m].phase \in {machines[m].phase, "gone"}
                 /\ machines[m].labelled => machines'[m].labelled
                 /\ machines'[m].deleting = machines[m].deleting
                 /\ nodes'[m] \in {nodes[m], "Ready", "gone"}
        BY <2>1, <2>5 DEF MachinesAdvance, MachinesHealthy, Active
    <2>6. MachinesHealthy => MachinesHealthy'
        BY <2>4, <2>5 DEF MachinesHealthy, Active
    <2>7. MachinesHealthy /\ NodesReady => NodesReady'
        BY <2>4, <2>5 DEF NodesReady
    <2>8. MachinesHealthy /\ MachinesLabelled => MachinesLabelled'
        BY <2>4, <2>5 DEF MachinesLabelled, Active
    <2>9. Passed(8) \/ Passed(9) => Passed(7)
        BY <1>0 DEF Passed
    <2>10. PassedInv'
        BY <1>0, <1>p, <2>2, <2>6, <2>7, <2>8, <2>9 DEF PassedInv
    <2> QED BY <1>r, <2>2, <2>3, <2>10
<1> QED BY <1>1, <1>2, <1>3, <1>4 DEF ClusterStep

\* An operator that reports itself stable has acted on the change, or has not noticed it.
LEMMA StableIsDone ==
    ASSUME Inv, NEW o \in Operator, Stable(o)
    PROVE  rollout[o] \in {"unaware", "done"}
<1>1. rollout[o] \in {"unaware", "rolling", "done"}
    BY DEF Inv, TypeOK
<1>2. rollout[o] # "rolling"
    BY DEF Inv, ReadyInv, RolloutInv, Stable
<1> QED BY <1>1, <1>2

\* A driver that is available reports it with every controller.
LEMMA AvailableIsGood ==
    ASSUME Inv, DriverAvailable, NEW c \in Controller
    PROVE  driver[c] = [Available |-> "True", Degraded |-> "False"]
<1>1. driver[c] \in Report
    BY TypeSplit DEF Inv, ClusterOK
<1>2. driver[c].Degraded = "False" /\ driver[c].Available \in {"True", "none"}
    BY <1>1 DEF DriverAvailable, Report
<1>3. driver[c].Available = "True"
    BY <1>2 DEF Inv, ReadyInv, DriverInv
<1> QED BY <1>1, <1>2, <1>3 DEF Report

\* A poll that is content adds what it has seen.
LEMMA ContentInv ==
    ASSUME Inv, PollContent
    PROVE  ReadyInv'
<1> USE DEF Inv, ReadyInv
<1>1. stage \in 1..9 /\ result = "none" /\ Content(Stages[stage])
    BY TypeSplit DEF PollContent, WaitOK, ResultInv
<1>2. UNCHANGED <<status, rollout, driver, pods, machines, nodes, infra, config, check>>
    BY DEF PollContent, cluster
<1>3. \/ stage # 9 /\ stage' = stage + 1 /\ result' = result
      \/ stage = 9 /\ stage' = 0 /\ result' = "ready"
    BY StageFacts DEF PollContent, Over
<1>4. \A k \in 1..9 : Passed(k)' => Passed(k) \/ stage = k
    BY <1>1, <1>3 DEF Passed
<1>5. RolloutInv' /\ ConfigInv' /\ DriverInv' /\ LinkInv'
    BY <1>2 DEF RolloutInv, ConfigInv, Complete, VCentersPresent, VCenterServers, DriverInv, LinkInv
<1>6. ResultInv'
    BY <1>1, <1>2, <1>3 DEF ResultInv
<1>m. missed \subseteq missed'
    BY DEF PollContent
<1>7. \A k \in 1..4 : stage = k => Stages[k] \in missed' \/ rollout[Stages[k]] = "done"
    <2> TAKE k \in 1..4
    <2>1. k = 1 \/ k = 2 \/ k = 3 \/ k = 4
        OBVIOUS
    <2>2. Stages[k] \in Operator /\ Stages[k] \notin {"driver", "pods", "machines", "nodes", "labels"}
        BY <2>1, StageFacts, OperatorFacts
    <2>3. ASSUME stage = k PROVE Stages[k] \in missed' \/ rollout[Stages[k]] = "done"
        <3>1. Stable(Stages[k])
            BY <1>1, <2>2, <2>3 DEF Content
        <3>2. rollout[Stages[k]] \in {"unaware", "done"}
            BY <2>2, <3>1, StableIsDone
        <3>3. rollout[Stages[k]] = "unaware" => Stages[k] \in missed'
            BY <2>2, <2>3 DEF PollContent
        <3> QED BY <3>2, <3>3
    <2> QED BY <2>3
<1>8. stage = 5 => \A c \in Controller : driver[c] = [Available |-> "True", Degraded |-> "False"]
    <2>1. stage = 5 => DriverAvailable
        BY <1>1, StageFacts, OperatorFacts DEF Content
    <2> QED BY <2>1, AvailableIsGood
<1>9. /\ stage = 6 => PodsRunning
      /\ stage = 7 => MachinesHealthy
      /\ stage = 8 => NodesReady
      /\ stage = 9 => MachinesLabelled
    BY <1>1, StageFacts, OperatorFacts DEF Content
<1>10. MachinesHealthy' = MachinesHealthy /\ NodesReady' = NodesReady /\ MachinesLabelled' = MachinesLabelled
    BY <1>2 DEF MachinesHealthy, NodesReady, MachinesLabelled, Active
<1>11. PassedInv'
    <2>1. \A k \in 1..4 : Passed(k)' => Stages[k] \in missed' \/ rollout'[Stages[k]] = "done"
        BY <1>2, <1>4, <1>7, <1>m DEF PassedInv
    <2>2. Passed(5)' /\ "storage" \notin missed' =>
              \A c \in Controller : driver'[c] = [Available |-> "True", Degraded |-> "False"]
        BY <1>2, <1>4, <1>8, <1>m DEF PassedInv
    <2>3. Passed(6)' /\ "storage" \notin missed' => \A p \in Pod : pods'[p] \in {"Running", "absent"}
        BY <1>2, <1>4, <1>9, <1>m DEF PassedInv, PodsRunning
    <2>4. /\ Passed(7)' => MachinesHealthy'
          /\ Passed(8)' => NodesReady'
          /\ Passed(9)' => MachinesLabelled'
        BY <1>4, <1>9, <1>10 DEF PassedInv
    <2> QED BY <2>1, <2>2, <2>3, <2>4 DEF PassedInv
<1> QED BY <1>5, <1>6, <1>11

\* The other steps of the wait, verify and what changes nothing.
LEMMA OtherInv ==
    ASSUME Inv, PollAgain \/ TimesOut \/ VerifyStep \/ UNCHANGED vars
    PROVE  ReadyInv'
<1> USE DEF Inv, ReadyInv
<1>1. UNCHANGED <<status, rollout, driver, pods, machines, nodes, infra, config>>
    BY DEF PollAgain, TimesOut, VerifyStep, StartVerify, VerifyOperator, VerifyInfra, VerifyConfig, VerifyCallFails, VerifyGoesOn, VerifyEnds, wait, vars, cluster
<1>m. missed' = missed
    BY DEF PollAgain, TimesOut, VerifyStep, StartVerify, VerifyOperator, VerifyInfra, VerifyConfig, VerifyCallFails, VerifyGoesOn, VerifyEnds, wait, vars
<1>2. \/ stage' = stage /\ result' = result
      \/ stage' = 0 /\ result' = "timeout" /\ stage # 0 /\ check' = check
    BY DEF PollAgain, TimesOut, Over, VerifyStep, StartVerify, VerifyOperator, VerifyInfra, VerifyConfig, VerifyCallFails, VerifyGoesOn, VerifyEnds, wait, vars
<1>3. check' = 0 \/ (check # 0 /\ result' = result) \/ (result = "ready" /\ result' = result)
      \/ (check' = check /\ check = 0)
      \/ (check' = check /\ stage # 0)
    BY DEF PollAgain, TimesOut, Over, VerifyStep, StartVerify, VerifyOperator, VerifyInfra, VerifyConfig, VerifyCallFails, VerifyGoesOn, VerifyEnds, wait, vars
<1>4. RolloutInv' /\ ConfigInv' /\ DriverInv' /\ LinkInv'
    BY <1>1 DEF RolloutInv, ConfigInv, Complete, VCentersPresent, VCenterServers, DriverInv, LinkInv
<1>a. check' = 6 => check = 6 \/ Second \in infra
    <2>1. check \in 0..6
        BY TypeSplit DEF WaitOK
    <2>2. CASE VerifyInfra
        BY <2>2 DEF VerifyInfra, VerifyGoesOn, VerifyEnds
    <2>3. CASE VerifyOperator
        <3>1. check \in 1..4 /\ (check' = check + 1 \/ check' = 0)
            BY <2>3, OrderFacts DEF VerifyOperator, VerifyGoesOn, VerifyEnds
        <3> QED BY <3>1
    <2>4. CASE PollAgain \/ TimesOut \/ StartVerify \/ VerifyConfig \/ VerifyCallFails \/ UNCHANGED vars
        BY <2>4 DEF PollAgain, TimesOut, StartVerify, VerifyConfig, VerifyCallFails, VerifyEnds, vars
    <2> QED BY <2>2, <2>3, <2>4 DEF VerifyStep
<1>5. ResultInv'
    <2>1. Len(OperatorOrder) + 2 = 6
        BY OrderFacts
    <2>2. check' = 6 => Second \in infra'
        BY <1>1, <1>a, <2>1 DEF ResultInv
    <2>3. (stage' = 0 <=> result' # "none") /\ (check' # 0 => result' = "ready")
        BY <1>2, <1>3 DEF ResultInv
    <2> QED BY <2>1, <2>2, <2>3 DEF ResultInv
<1>6. \A k \in 1..9 : Passed(k)' => Passed(k)
    BY <1>2 DEF Passed
<1>7. MachinesHealthy' = MachinesHealthy /\ NodesReady' = NodesReady /\ MachinesLabelled' = MachinesLabelled
    BY <1>1 DEF MachinesHealthy, NodesReady, MachinesLabelled, Active
<1>8. PassedInv'
    BY <1>1, <1>m, <1>6, <1>7 DEF PassedInv
<1> QED BY <1>4, <1>5, <1>8

\* Polls, timeouts, steps of the cluster and verify keep the invariant.
LEMMA NextInv == Inv /\ [Next]_vars => Inv'
<1> SUFFICES ASSUME Inv, [Next]_vars PROVE Inv'
    OBVIOUS
<1>1. TypeOK'
    BY NextType DEF Inv
<1>2. ReadyInv'
    BY ClusterStepInv, ContentInv, OtherInv DEF Next, WaitStep
<1> QED BY <1>1, <1>2 DEF Inv

(***************************************************************************)
(* Theorems.                                                               *)
(***************************************************************************)
\* The types of the variables, whatever operators report and whatever fails.
THEOREM TypeCorrect == Spec => []TypeOK
<1> QED BY InitType, NextType, PTL DEF Spec

\* What the polls of waitForClusterReady have seen still holds at every later poll.
THEOREM PollsStayTrue == Spec => []Inv
<1> QED BY InitInv, NextInv, PTL DEF Spec

\* After a successful wait every operator that had noticed the change when it was polled
\* has acted on it and says so.
LEMMA ReadyOperators ==
    ASSUME Inv, result = "ready", NEW o \in Operator, o \notin missed
    PROVE  rollout[o] = "done" /\ status[o] = Settled
<1>1. Passed(1) /\ Passed(2) /\ Passed(3) /\ Passed(4)
    BY DEF Passed
<1>2. rollout[o] = "done"
    BY <1>1, OperatorFacts, StageFacts DEF Inv, ReadyInv, PassedInv
<1> QED BY <1>2 DEF Inv, ReadyInv, RolloutInv

\* A successful wait means that everything it has polled, one thing after the
\* other, is ready at once, for any number of Machines, controllers and pods; only the
\* operators that were polled before they had noticed the change are not covered.
THEOREM ReadyMeansAll == Spec => []ReadyCluster
<1>1. ASSUME Inv PROVE ReadyCluster
    <2> SUFFICES ASSUME result = "ready" PROVE
            /\ \A o \in Operator \ missed : status[o] = Settled /\ rollout[o] = "done"
            /\ "storage" \notin missed =>
                  /\ \A c \in Controller : driver[c] = [Available |-> "True", Degraded |-> "False"]
                  /\ \A p \in Pod : pods[p] \in {"Running", "absent"}
            /\ \A m \in Active :
                  /\ machines[m].phase # "Provisioning"
                  /\ machines[m].linked =>
                         machines[m].phase = "Running" /\ machines[m].labelled /\ nodes[m] = "Ready"
        BY DEF ReadyCluster
    <2>1. Passed(5) /\ Passed(6) /\ Passed(7) /\ Passed(8) /\ Passed(9)
        BY DEF Passed
    <2>2. /\ "storage" \notin missed =>
                /\ \A c \in Controller : driver[c] = [Available |-> "True", Degraded |-> "False"]
                /\ \A p \in Pod : pods[p] \in {"Running", "absent"}
          /\ MachinesHealthy /\ NodesReady /\ MachinesLabelled /\ LinkInv
        BY <1>1, <2>1 DEF Inv, ReadyInv, PassedInv
    <2>3. ASSUME NEW m \in Active
          PROVE  /\ machines[m].phase # "Provisioning"
                 /\ machines[m].linked =>
                        machines[m].phase = "Running" /\ machines[m].labelled /\ nodes[m] = "Ready"
        <3>1. m \in Machine /\ machines[m].phase # "gone"
            BY DEF Active
        <3>2. \/ machines[m].phase = "Running"
              \/ machines[m].phase = "Failed" /\ ~machines[m].linked
            BY <2>2 DEF MachinesHealthy
        <3>3. machines[m].phase = "Running" => machines[m].labelled
            BY <2>2 DEF MachinesLabelled
        <3>4. machines[m].linked => nodes[m] = "Ready"
            BY <2>2, <3>1 DEF LinkInv, NodesReady
        <3> QED BY <3>2, <3>3, <3>4
    <2> QED BY <1>1, <2>2, <2>3, ReadyOperators
<1> QED BY <1>1, PollsStayTrue, PTL

\* verify, run once after a wait that succeeded, fails on the cluster only for an operator
\* the wait has missed, and passes only on a config that names every vCenter.
THEOREM VerifyPasses == Spec => []VerifyPassesAfterReady
<1> DEFINE VInv == Inv /\ VerifyPassesAfterReady
<1>1. Init => VInv
    BY InitInv DEF Init, VerifyPassesAfterReady
<1>2. ASSUME VInv, [Next]_vars PROVE VInv'
    <2>1. Inv'
        BY <1>2, NextInv
    <2>2. ASSUME verdict' = verdict, missed \subseteq missed', infra' = infra, Complete => Complete'
          PROVE  VInv'
        BY <1>2, <2>1, <2>2 DEF VerifyPassesAfterReady, Complete
    <2>3. CASE ClusterStep
        <3>1. verdict' = verdict /\ missed' = missed
            BY <2>3 DEF ClusterStep
        <3>2. ClusterOK
            BY <1>2, TypeSplit DEF Inv
        <3>3. ASSUME NEW o \in Operator, Notice(o) \/ Trouble(o) \/ Finish(o)
              PROVE  infra' = infra /\ (Complete => Complete')
            BY <3>2, <3>3, OperatorStep DEF OperatorsAdvance
        <3>4. \/ \E o \in Operator : Notice(o) \/ Trouble(o) \/ Finish(o)
              \/ UNCHANGED <<infra, config>>
            BY <2>3, <3>2, DriverStep, PodStep, MachineStep DEF ClusterStep, MachinesAdvance
        <3>5. UNCHANGED <<infra, config>> => (Complete => Complete')
            BY DEF Complete, VCentersPresent, VCenterServers
        <3> QED BY <2>2, <3>1, <3>3, <3>4, <3>5
    <2>4. CASE WaitStep \/ StartVerify \/ UNCHANGED vars
        <3>1. verdict' = verdict /\ missed \subseteq missed' /\ UNCHANGED <<infra, config>>
            BY <2>4 DEF WaitStep, PollContent, PollAgain, TimesOut, StartVerify, cluster, vars, wait
        <3>2. Complete => Complete'
            BY <3>1 DEF Complete, VCentersPresent, VCenterServers
        <3> QED BY <2>2, <3>1, <3>2
    <2>5. CASE VerifyOperator
        <3>1. check \in 1..4 /\ result = "ready"
            BY <1>2, <2>5, OrderFacts DEF VerifyOperator, Inv, ReadyInv, ResultInv
        <3>2. OperatorOrder[check] \in Operator
            <4>1. check = 1 \/ check = 2 \/ check = 3 \/ check = 4
                BY <3>1
            <4> QED BY <4>1, OrderFacts, OperatorFacts
        <3>3. Settled.Degraded = "False"
            BY DEF Settled
        <3>4. status[OperatorOrder[check]].Degraded # "False" => missed # {}
            BY <1>2, <3>1, <3>2, <3>3, ReadyOperators
        <3>5. UNCHANGED <<missed, infra, config>>
            BY <2>5 DEF VerifyOperator, VerifyGoesOn, VerifyEnds, wait, cluster
        <3>6. verdict' = verdict \/ (verdict' = "degraded" /\ missed # {})
            BY <2>5, <3>4 DEF VerifyOperator, VerifyGoesOn, VerifyEnds
        <3>7. Complete' = Complete
            BY <3>5 DEF Complete, VCentersPresent, VCenterServers
        <3> QED BY <2>1, <2>2, <3>5, <3>6, <3>7 DEF VerifyPassesAfterReady
    <2>6. CASE VerifyInfra
        <3>1. UNCHANGED <<missed, infra, config>> /\ (verdict' = verdict \/ verdict' = "not_added")
            BY <2>6 DEF VerifyInfra, VerifyGoesOn, VerifyEnds, wait, cluster
        <3>2. Complete' = Complete
            BY <3>1 DEF Complete, VCentersPresent, VCenterServers
        <3> QED BY <2>1, <2>2, <3>1, <3>2 DEF VerifyPassesAfterReady
    <2>7. CASE VerifyConfig
        <3>1. result = "ready" /\ Second \in infra
            BY <1>2, <2>7, OrderFacts DEF VerifyConfig, Inv, ReadyInv, ResultInv
        <3>2. UNCHANGED <<missed, infra, config>>
            BY <2>7 DEF VerifyConfig, VerifyEnds, wait, cluster
        <3>3. ~Complete => "config-operator" \in missed
            BY <1>2, <3>1, ReadyOperators, OperatorFacts DEF Inv, ReadyInv, ConfigInv
        <3>4. verdict' = IF Complete THEN "passed" ELSE "incomplete"
            BY <2>7 DEF VerifyConfig, VerifyEnds, Complete
        <3>5. Complete' = Complete
            BY <3>2 DEF Complete, VCentersPresent, VCenterServers
        <3>6. VerifyPassesAfterReady'
            BY <3>1, <3>2, <3>3, <3>4, <3>5 DEF VerifyPassesAfterReady, Complete
        <3> QED BY <2>1, <3>6
    <2>8. CASE VerifyCallFails
        <3>1. verdict' = "error"
            BY <2>8 DEF VerifyCallFails, VerifyEnds
        <3> QED BY <2>1, <3>1 DEF VerifyPassesAfterReady
    <2> QED BY <1>2, <2>3, <2>4, <2>5, <2>6, <2>7, <2>8 DEF Next, VerifyStep
<1>3. VInv => VerifyPassesAfterReady
    OBVIOUS
<1> HIDE DEF VInv
<1> QED BY <1>1, <1>2, <1>3, PTL DEF Spec

=============================================================================
