--------------------------- MODULE ClusterReadiness ---------------------------
(***************************************************************************)
(* What apply and restore do after their last write, and what the pipeline *)
(* does next: waitForClusterReady (pkg/lab/apply.go) polls the operators,  *)
(* the CSI driver, its pods, the machines and the nodes one after the      *)
(* other, while all of them react to the change; verify then takes one     *)
(* look at the operators, the Infrastructure and the cloud config.         *)
(*                                                                         *)
(* The first poll comes right after the write: an operator may not have    *)
(* noticed the change and report the status it had before.                 *)
(*                                                                         *)
(* The wait is a client of the cluster: what operators, controllers and    *)
(* kubelets do is modelled from the status the code reads, and only makes  *)
(* progress, so that the properties speak about the order of the polls.    *)
(***************************************************************************)
EXTENDS Naturals, Sequences, SequencesExt

CONSTANTS
    Machine,       \* the Machines; a Machine and its Node share a name
    Controller,    \* controllers that report conditions on the ClusterCSIDriver
    ControlPod,    \* pods of the CSI driver controller
    NodePod,       \* pods of the CSI driver on the nodes
    Before,        \* the vCenters of the cluster without the lab
    Second,        \* secondVCenter.server of the lab config
    MaxReacting,   \* bound: operators the change makes work for
    MaxPolls,      \* bound: polls of one wait, LongTimeout / DefaultPolling
    MaxWaiting     \* bound: polls until the context of the command expires

ASSUME BoundAssumption ==
    /\ Second \notin Before /\ "none" \notin Before \cup {Second}
    /\ {MaxPolls, MaxWaiting} \subseteq Nat \ {0} /\ MaxReacting \in Nat

Pod == ControlPod \cup NodePod

Condition == {"True", "False", "Unknown"}  \* Unknown: the condition is missing, too
Phase     == {"Provisioning", "Running", "Failed", "gone"}

OperatorOrder == <<"cloud-controller-manager", "config-operator", "machine-api", "storage">>
Operator      == ToSet(OperatorOrder)

\* Mutant: labels before machines, so that a Machine not yet Running is passed over.
StagesLabelsFirst == <<"cloud-controller-manager", "config-operator", "machine-api", "storage",
                       "driver", "pods", "labels", "machines", "nodes">>
\* Mutant: one operator is missing from the list.
StagesWithoutConfig == <<"cloud-controller-manager", "machine-api", "storage",
                         "driver", "pods", "machines", "nodes", "labels">>
\* The polls, in the order of waitForClusterReady.
Stages == <<"cloud-controller-manager", "config-operator", "machine-api", "storage",
            "driver", "pods", "machines", "nodes", "labels">>

VARIABLES
    status,    \* the conditions of every ClusterOperator
    rollout,   \* how far each operator is in acting on the change
    driver,    \* the conditions on the ClusterCSIDriver
    pods,      \* phase of every CSI driver pod, "absent" between two pods
    machines,  \* the Machines
    nodes,     \* what each Node reports, "gone" without a Node
    infra,     \* the vCenters of the Infrastructure, as apply or restore has left it
    config,    \* kube-cloud-config in openshift-config-managed
    stage,     \* the stage being polled; 0 when the wait is over
    polls,     \* polls left for the stage
    waiting,   \* polls left for the command
    result,    \* "none", "ready", "timeout"
    missed,    \* history: operators that were polled before they noticed the change
    check,     \* the operator verify reads next, then Infrastructure, config; 0 outside verify
    verdict    \* how verify ended

cluster == <<status, rollout, driver, pods, machines, nodes, infra, config>>
vars    == <<cluster, stage, polls, waiting, result, missed, check, verdict>>

AMachine == [phase : Phase, linked : BOOLEAN, deleting : BOOLEAN, labelled : BOOLEAN]

\* An entry of the vcenter section: its key, and the server in it, which may be left out.
VCenter == Before \cup {Second}
Entry   == [name : VCenter, server : VCenter \cup {"none"}]
AConfig == [parses : BOOLEAN, entries : SUBSET Entry]

\* The second vCenter has its server written out, the others are keyed by it.
ConfigFor(vcs) ==
    [parses |-> TRUE, entries |-> {[name |-> v, server |-> IF v = Second THEN v ELSE "none"] : v \in vcs}]

Settled == [Available |-> "True", Degraded |-> "False", Progressing |-> "False"]

-----------------------------------------------------------------------------
(***************************************************************************)
(* One poll of each wait: what it reads, and when it is content.           *)
(***************************************************************************)
Stable(o) ==
    /\ status[o].Available = "True"
    /\ status[o].Degraded = "False"
    /\ status[o].Progressing = "False"

DriverAvailable ==
    /\ \E c \in Controller : driver[c].Available # "none"
    /\ \A c \in Controller :
          /\ driver[c].Available \in {"True", "none"}
          /\ driver[c].Degraded \in {"False", "none"}

PodsRunning ==
    /\ \E p \in ControlPod : pods[p] # "absent"
    /\ \A p \in Pod : pods[p] \in {"Running", "absent"}

Active == {m \in Machine : machines[m].phase # "gone" /\ ~machines[m].deleting}

\* A Failed Machine that never had a node is a dead replacement.
MachinesHealthy ==
    \A m \in Active :
        \/ machines[m].phase = "Running"
        \/ machines[m].phase = "Failed" /\ ~machines[m].linked

NodesReady == \A m \in Machine : nodes[m] \in {"Ready", "gone"}

MachinesLabelled ==
    \A m \in Active : machines[m].phase = "Running" => machines[m].labelled

Content(s) ==
    \/ s \in Operator /\ Stable(s)
    \/ s = "driver"   /\ DriverAvailable
    \/ s = "pods"     /\ PodsRunning
    \/ s = "machines" /\ MachinesHealthy
    \/ s = "nodes"    /\ NodesReady
    \/ s = "labels"   /\ MachinesLabelled

-----------------------------------------------------------------------------
(***************************************************************************)
(* The wait has just begun: apply has added the second vCenter to the      *)
(* Infrastructure, or restore has taken it away.                           *)
(***************************************************************************)
Init ==
    /\ infra \in {Before, VCenter}
    /\ rollout \in [Operator -> {"unaware", "rolling", "done"}]
    /\ Cardinality({o \in Operator : rollout[o] # "done"}) <= MaxReacting
    /\ config \in IF rollout["config-operator"] = "done" THEN {ConfigFor(infra)}
                 ELSE {[ConfigFor(IF infra = Before THEN VCenter ELSE Before) EXCEPT !.parses = p] : p \in BOOLEAN}
    /\ status = [o \in Operator |->
          IF rollout[o] = "rolling" THEN [Settled EXCEPT !.Progressing = "True"] ELSE Settled]
    /\ driver \in [Controller -> {[Available |-> "True", Degraded |-> "False"],
                                  [Available |-> "none", Degraded |-> "True"]}]
    /\ pods = [p \in Pod |-> "Running"]
    /\ machines \in [Machine -> {m \in AMachine :
          /\ m.phase # "gone"
          /\ m.phase = "Running" => m.linked
          /\ m.phase = "Provisioning" => ~m.linked /\ ~m.deleting
          /\ m.labelled => m.phase = "Running"}]
    /\ nodes = [m \in Machine |-> IF machines[m].linked THEN "Ready" ELSE "gone"]
    /\ stage = 1 /\ polls = MaxPolls /\ waiting = MaxWaiting
    /\ result = "none" /\ missed = {} /\ check = 0 /\ verdict = "none"

-----------------------------------------------------------------------------
(***************************************************************************)
(* The cluster, while the change is rolled out.                            *)
(***************************************************************************)
Notice(o) ==
    /\ rollout[o] = "unaware"
    /\ rollout' = [rollout EXCEPT ![o] = "rolling"]
    /\ status' = [status EXCEPT ![o].Progressing = "True"]
    /\ UNCHANGED <<driver, pods, machines, nodes, infra, config>>

Trouble(o) ==
    /\ rollout[o] = "rolling"
    /\ status' = [status EXCEPT ![o].Degraded = "True", ![o].Available = "Unknown"]
    /\ UNCHANGED <<rollout, driver, pods, machines, nodes, infra, config>>

\* The cluster-config-operator writes the managed copy from the Infrastructure.
Finish(o) ==
    /\ rollout[o] = "rolling"
    /\ rollout' = [rollout EXCEPT ![o] = "done"]
    /\ status' = [status EXCEPT ![o] = Settled]
    /\ config' = IF o = "config-operator" THEN ConfigFor(infra) ELSE config
    /\ UNCHANGED <<driver, pods, machines, nodes, infra>>

\* The storage operator updates the driver only while it rolls out.
DriverUpdates(c) ==
    /\ rollout["storage"] = "rolling"
    /\ driver' = [driver EXCEPT ![c] = [Available |-> "False", Degraded |-> "False"]]
    /\ UNCHANGED <<status, rollout, pods, machines, nodes, infra, config>>

DriverRecovers(c) ==
    /\ driver' = [driver EXCEPT ![c] = [Available |-> "True", Degraded |-> "False"]]
    /\ UNCHANGED <<status, rollout, pods, machines, nodes, infra, config>>

\* A pod is replaced: the old one goes, the new one is Pending, then Running.
PodReplaced(p) ==
    /\ rollout["storage"] = "rolling"
    /\ pods' = [pods EXCEPT ![p] = IF pods[p] = "absent" THEN "Pending" ELSE "absent"]
    /\ UNCHANGED <<status, rollout, driver, machines, nodes, infra, config>>

\* A new pod is scheduled whenever one is missing.
PodStarts(p) ==
    /\ pods[p] # "Running"
    /\ pods' = [pods EXCEPT ![p] = "Running"]
    /\ UNCHANGED <<status, rollout, driver, machines, nodes, infra, config>>

MachineRuns(m) ==
    /\ m \in Active /\ machines[m].phase = "Provisioning"
    /\ machines' = [machines EXCEPT ![m].phase = "Running", ![m].linked = TRUE]
    /\ nodes' = [nodes EXCEPT ![m] = "NotReady"]
    /\ UNCHANGED <<status, rollout, driver, pods, infra, config>>

MachineFails(m) ==
    /\ m \in Active /\ machines[m].phase = "Provisioning"
    /\ machines' = [machines EXCEPT ![m].phase = "Failed"]
    /\ UNCHANGED <<status, rollout, driver, pods, nodes, infra, config>>

MachineLabelled(m) ==
    /\ m \in Active /\ machines[m].phase = "Running" /\ ~machines[m].labelled
    /\ machines' = [machines EXCEPT ![m].labelled = TRUE]
    /\ UNCHANGED <<status, rollout, driver, pods, nodes, infra, config>>

MachineGone(m) ==
    /\ machines[m].phase # "gone" /\ machines[m].deleting
    /\ machines' = [machines EXCEPT ![m].phase = "gone"]
    /\ nodes' = [nodes EXCEPT ![m] = "gone"]
    /\ UNCHANGED <<status, rollout, driver, pods, infra, config>>

NodeReady(m) ==
    /\ nodes[m] = "NotReady"
    /\ nodes' = [nodes EXCEPT ![m] = "Ready"]
    /\ UNCHANGED <<status, rollout, driver, pods, machines, infra, config>>

ClusterStep ==
    /\ \/ \E o \in Operator : Notice(o) \/ Trouble(o) \/ Finish(o)
       \/ \E c \in Controller : DriverUpdates(c) \/ DriverRecovers(c)
       \/ \E p \in Pod : PodReplaced(p) \/ PodStarts(p)
       \/ \E m \in Machine : \/ MachineRuns(m) \/ MachineFails(m) \/ MachineLabelled(m)
                             \/ MachineGone(m) \/ NodeReady(m)
    /\ UNCHANGED <<stage, polls, waiting, result, missed, check, verdict>>

-----------------------------------------------------------------------------
(***************************************************************************)
(* waitForClusterReady.                                                    *)
(***************************************************************************)
Over(r) == stage' = 0 /\ polls' = 0 /\ result' = r

PollContent ==
    /\ stage # 0 /\ Content(Stages[stage])
    /\ IF stage = Len(Stages)
       THEN Over("ready")
       ELSE stage' = stage + 1 /\ polls' = MaxPolls /\ UNCHANGED result
    /\ missed' = missed \cup {o \in Operator : o = Stages[stage] /\ rollout[o] = "unaware"}
    /\ UNCHANGED <<cluster, waiting, check, verdict>>

\* Mutant: the context of the command is not looked at.
PollAgainPastDeadline ==
    /\ stage # 0 /\ polls > 0
    /\ polls' = polls - 1 /\ waiting' = waiting - 1
    /\ UNCHANGED <<cluster, stage, result, missed, check, verdict>>
\* Mutant: an API error restarts the count, so that the wait never times out.
PollAgainForever ==
    /\ stage # 0 /\ polls > 0 /\ waiting > 0
    /\ UNCHANGED vars
\* Not content, or the call failed: wait for the next tick, if there is one.
PollAgain ==
    /\ stage # 0 /\ polls > 0 /\ waiting > 0
    /\ polls' = polls - 1 /\ waiting' = waiting - 1
    /\ UNCHANGED <<cluster, stage, result, missed, check, verdict>>

TimesOut ==
    /\ stage # 0 /\ (polls = 0 \/ waiting = 0)
    /\ Over("timeout")
    /\ UNCHANGED <<cluster, waiting, missed, check, verdict>>

WaitStep == PollContent \/ PollAgain \/ TimesOut

-----------------------------------------------------------------------------
(***************************************************************************)
(* verify, which the pipeline runs when apply has succeeded.               *)
(***************************************************************************)
wait == <<stage, polls, waiting, result, missed>>

StartVerify ==
    /\ result = "ready" /\ check = 0 /\ verdict = "none"
    /\ check' = 1
    /\ UNCHANGED <<cluster, wait, verdict>>

VerifyGoesOn  == check' = check + 1 /\ UNCHANGED <<cluster, wait, verdict>>
VerifyEnds(v) == check' = 0 /\ verdict' = v /\ UNCHANGED <<cluster, wait>>

VerifyOperator ==
    /\ check \in DOMAIN OperatorOrder
    /\ IF status[OperatorOrder[check]].Degraded = "False" THEN VerifyGoesOn ELSE VerifyEnds("degraded")

VerifyInfra ==
    /\ check = Len(OperatorOrder) + 1
    /\ IF Second \in infra THEN VerifyGoesOn ELSE VerifyEnds("not_added")

\* The servers the entries name; a key without a server counts as one.
VCenterServers == {IF e.server = "none" THEN e.name ELSE e.server : e \in config.entries}

\* Every vCenter of the Infrastructure is the server of an entry, or a key.
VCentersPresent == infra \subseteq VCenterServers \cup {e.name : e \in config.entries}

VerifyConfig ==
    /\ check = Len(OperatorOrder) + 2
    /\ VerifyEnds(IF config.parses /\ VCentersPresent THEN "passed" ELSE "incomplete")

\* One of its calls fails.
VerifyCallFails == check # 0 /\ VerifyEnds("error")

VerifyStep == StartVerify \/ VerifyOperator \/ VerifyInfra \/ VerifyConfig \/ VerifyCallFails

Next == ClusterStep \/ WaitStep \/ VerifyStep
Spec == Init /\ [][Next]_vars

\* A poll returns and the clock ticks, whatever the cluster does.
LiveSpec == Spec /\ WF_vars(WaitStep)

-----------------------------------------------------------------------------
(***************************************************************************)
(* Properties.                                                             *)
(***************************************************************************)
\* Every variable keeps to the values the code can read or hold.
TypeOK ==
    /\ status \in [Operator -> [Available : Condition, Degraded : Condition, Progressing : Condition]]
    /\ rollout \in [Operator -> {"unaware", "rolling", "done"}]
    /\ driver \in [Controller -> [Available : {"True", "False", "none"}, Degraded : {"True", "False"}]]
    /\ pods \in [Pod -> {"absent", "Pending", "Running"}]
    /\ machines \in [Machine -> AMachine]
    /\ nodes \in [Machine -> {"NotReady", "Ready", "gone"}]
    /\ infra \subseteq VCenter /\ config \in AConfig /\ missed \subseteq Operator
    /\ stage \in 0 .. Len(Stages) /\ polls \in 0 .. MaxPolls /\ waiting \in 0 .. MaxWaiting
    /\ result \in {"none", "ready", "timeout"}
    /\ check \in 0 .. Len(OperatorOrder) + 2
    /\ verdict \in {"none", "passed", "degraded", "not_added", "incomplete", "error"}

\* When waitForClusterReady succeeds, everything it has looked at, one thing
\* after the other, is ready at the same time: nothing that a later wait let
\* pass has undone an earlier one, and no Machine slipped between the wait
\* that skips what is not Running and the one that skips what is Failed.  Every
\* operator "has finished rolling out" (conditions.go:66), but those that the first
\* poll, right after the write, has found settled before they noticed it; with the
\* storage operator among them the driver and its pods may change again.
ReadyCluster ==
    result = "ready" =>
        /\ \A o \in Operator \ missed : status[o] = Settled /\ rollout[o] = "done"
        /\ "storage" \notin missed =>
              /\ \A c \in Controller : driver[c] = [Available |-> "True", Degraded |-> "False"]
              /\ \A p \in Pod : pods[p] \in {"Running", "absent"}
        /\ \A m \in Active :
              /\ machines[m].phase # "Provisioning"
              /\ machines[m].linked =>
                     machines[m].phase = "Running" /\ machines[m].labelled /\ nodes[m] = "Ready"

\* verify, run once right after a successful apply and never repeated, finds an operator
\* degraded, or a vCenter missing from the config, only if the wait missed a change that
\* an operator had not noticed; and when it passes, the config of a config-operator that
\* was missed names the second vCenter all the same.
VerifyPassesAfterReady ==
    /\ verdict = "degraded" => missed # {}
    /\ verdict = "incomplete" => "config-operator" \in missed
    /\ verdict = "passed" => Second \in infra /\ config.parses /\ VCentersPresent

\* waitForClusterReady returns: every wait has a timeout and the command a
\* deadline, whatever the cluster and its API do.
WaitEnds == <>(result # "none")
=============================================================================
